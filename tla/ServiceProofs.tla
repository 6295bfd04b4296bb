--------------------------- MODULE ServiceProofs ---------------------------
(* What holds of five parts of the lobby service, and of its client, for     *)
(* every value of their constants: the store with its lease (LobbyStore),    *)
(* the documents that bind a session (SessionBinding), the match with its    *)
(* election (LobbyMatch), the network view of a lobby (LobbyInspection), the *)
(* game client outside the match (NativeClient) and the request budgets      *)
(* (RequestBudget).  Each is instantiated with constants and variables of    *)
(* the same names and proved about by itself: no theorem speaks of two of    *)
(* them, and a name that two of them declare (lobby, peer, requests, shell)  *)
(* stands for either one's.  Every section has the same layout: what the     *)
(* constants are, the inductive invariant, a lemma per kind of step, the     *)
(* theorem.                                                                  *)
EXTENDS Integers, Sequences, FiniteSets, TLAPS, FiniteSetTheorems, SequenceTheorems,
        WellFoundedInduction

CONSTANTS
    Key, Grant, MaxMade,
    Roster, MaxGeneration, MaxRevision, MaxKeys, MaxAnswers, MaxSequence, MaxRegistrations,
    Player, Sample, Formed, MaxPlayers, ServiceMajor, ClientMajor, MaxReports, MaxEpoch,
    Member, Mode, Report, Failure, MaxClock, ReportWindow, DeviceWindow, ElectionWindow,
    MaxRequests, MaxLobbies, MaxCodes, MaxWorkers, MaxFrames, MaxEvents,
    Callers, GlobalLimit, CallerLimit, RouteLimit, Window, RouteWindow, MaxTime

VARIABLES
    memory, disk, up, made, work, reached,
    service, requests, answers, shell, peer, keys, latest,
    lobby, endpoints, key, unmoved, reign, manifests,
    stored, cache, waiting, poll, teardown, clock,
    main, clipboard, unreliable, channel, workers, counts,
    wall, time, charged, accepted

Store == INSTANCE LobbyStore

Binding == INSTANCE SessionBinding

Match == INSTANCE LobbyMatch

Inspection == INSTANCE LobbyInspection

Client == INSTANCE NativeClient

Budget == INSTANCE RequestBudget

-----------------------------------------------------------------------------
(* The store: THEOREM StoreIsSound.                                          *)

\* Grants are told from 0, which stands for the receipt, and records are counted.
StoreBounds == 0 \notin Grant /\ MaxMade \in Nat

Record ==
    [real : BOOLEAN, key : Key, state : {"Provisioning", "Forming", "Failed", "Destroyed"},
     since : 0..2, old : BOOLEAN, proof : {"none", "rejected", "absent"}]

Image ==
    [lobbies : UNION {[S -> Record] : S \in SUBSET Nat}, lease : SUBSET Nat,
     quarantined : BOOLEAN, grants : SUBSET Grant, used : SUBSET Grant,
     replays : UNION {[K -> Nat] : K \in SUBSET Key}, receipt : {"none", "installed", "consumed"}]

\* Whoever has no release proof holds the lease, unless the image is quarantined.
Covered(d) == d.quarantined \/ d.lease = Store!ActiveReal(d)

\* A record younger than a day is what its idempotency key is answered with.
Answered(d) ==
    \A l \in Store!Stored(d) :
        ~d.lobbies[l].old => /\ d.lobbies[l].key \in DOMAIN d.replays
                             /\ d.replays[d.lobbies[l].key] = l

\* Whatever reached the provider is paid for in the image.
Paid(d) ==
    \A c \in reached : IF c[1] = 0 THEN d.receipt = "consumed" ELSE c[1] \in d.used

Sound(d) == d \in Image /\ Covered(d) /\ Answered(d)

StoreInv ==
    /\ made \in Nat
    /\ Sound(memory) /\ Sound(disk) /\ Paid(memory) /\ Paid(disk)
    /\ Store!GrantReachesProviderOnce

\* What an image may not lose: the grants it marks as used, and the receipt.
Keeps(d, e) == d.used \subseteq e.used /\ (d.receipt = "consumed" => e.receipt = "consumed")

\* From d to e records age, end or are purged; neither the lease nor the answer to
\* the key of a record that stays is lost.
Outlives(d, e) ==
    /\ e \in Image /\ e.lease = d.lease /\ e.quarantined = d.quarantined
    /\ e.used = d.used /\ e.receipt = d.receipt
    /\ Store!Stored(e) \subseteq Store!Stored(d)
    /\ d.quarantined \/ d.lease \subseteq Store!Stored(e)
    /\ \A l \in Store!Stored(e) :
          /\ e.lobbies[l].real = d.lobbies[l].real /\ e.lobbies[l].proof = d.lobbies[l].proof
          /\ e.lobbies[l].key = d.lobbies[l].key /\ (d.lobbies[l].old => e.lobbies[l].old)
          /\ ~e.lobbies[l].old => \A k \in DOMAIN d.replays :
                d.replays[k] = l => k \in DOMAIN e.replays /\ e.replays[k] = l

LEMMA OutlivingIsSound ==
    ASSUME NEW d, NEW e, Sound(d), Outlives(d, e)
    PROVE  Sound(e) /\ Keeps(d, e)
<1>1. Covered(e)
  BY DEF Covered, Sound, Outlives, Store!ActiveReal, Store!Stored
<1>2. Answered(e)
  BY DEF Answered, Sound, Outlives
<1> QED
  BY <1>1, <1>2 DEF Sound, Keeps, Outlives

\* What the clocks may do to a record.
Older(r) ==
    {r, [r EXCEPT !.state = "Failed", !.since = 0], [r EXCEPT !.since = 1],
     [r EXCEPT !.old = TRUE], [r EXCEPT !.old = TRUE, !.since = 2]}

LEMMA OlderIsRecord ==
    ASSUME NEW r \in Record, NEW s \in Older(r)
    PROVE  /\ s \in Record /\ s.real = r.real /\ s.proof = r.proof /\ s.key = r.key
           /\ r.old => s.old
<1>1. CASE s = r
  BY <1>1 DEF Record
<1>2. CASE s = [r EXCEPT !.state = "Failed", !.since = 0]
  <2>1. [r EXCEPT !.state = "Failed"] \in Record
    BY DEF Record
  <2>2. s = [[r EXCEPT !.state = "Failed"] EXCEPT !.since = 0]
    BY <1>2
  <2>3. \A t \in Record : [t EXCEPT !.since = 0] \in Record
    BY DEF Record
  <2>4. s \in Record
    BY <2>1, <2>2, <2>3
  <2> QED
    BY <1>2, <2>4 DEF Record
<1>3. CASE s = [r EXCEPT !.since = 1]
  BY <1>3 DEF Record
<1>4. CASE s = [r EXCEPT !.old = TRUE]
  BY <1>4 DEF Record
<1>5. CASE s = [r EXCEPT !.old = TRUE, !.since = 2]
  <2>1. [r EXCEPT !.old = TRUE] \in Record
    BY DEF Record
  <2>2. s = [[r EXCEPT !.old = TRUE] EXCEPT !.since = 2]
    BY <1>5
  <2>3. \A t \in Record : [t EXCEPT !.since = 2] \in Record
    BY DEF Record
  <2>4. s \in Record
    BY <2>1, <2>2, <2>3
  <2> QED
    BY <1>5, <2>4 DEF Record
<1> QED
  BY <1>1, <1>2, <1>3, <1>4, <1>5 DEF Older

\* purge_retained never takes the holder of the lease, nor the answer to a key
\* whose record stays.
LEMMA PurgedIsSound ==
    ASSUME NEW d, Sound(d)
    PROVE  Sound(Store!Purged(d)) /\ Keeps(d, Store!Purged(d))
<1> DEFINE S == Store!Stored(d) \ Store!Expired(d)
           f == Store!Restrict(d.lobbies, S)
           R == Store!ReplaysKept(d, f)
           e == Store!Purged(d)
<1>1. PICK T \in SUBSET Nat, K \in SUBSET Key : d.lobbies \in [T -> Record] /\ d.replays \in [K -> Nat]
  BY DEF Sound, Image
<1>2. f \in [S -> Record] /\ (\A l \in S : f[l] = d.lobbies[l]) /\ S \in SUBSET Nat
  BY <1>1 DEF Store!Restrict, Store!Stored
<1>3. /\ R \in SUBSET K /\ Store!Restrict(d.replays, R) \in [R -> Nat]
      /\ \A k \in R : Store!Restrict(d.replays, R)[k] = d.replays[k]
  BY <1>1 DEF Store!Restrict, Store!ReplaysKept
<1>4. e = [d EXCEPT !.lobbies = f, !.replays = Store!Restrict(d.replays, R)]
  BY DEF Store!Purged, Sound, Image
<1>5. e \in Image
  <2>1. f \in UNION {[D -> Record] : D \in SUBSET Nat}
    BY <1>2
  <2>2. Store!Restrict(d.replays, R) \in UNION {[D -> Nat] : D \in SUBSET Key}
    BY <1>1, <1>3
  <2> HIDE DEF f, R
  <2> QED
    BY <1>4, <2>1, <2>2 DEF Sound, Image
<1>6. /\ e.lease = d.lease /\ e.quarantined = d.quarantined /\ e.used = d.used
      /\ e.receipt = d.receipt /\ e.lobbies = f /\ e.replays = Store!Restrict(d.replays, R)
  BY <1>4 DEF Sound, Image
<1>7. d.quarantined \/ d.lease \subseteq S
  BY <1>1 DEF Sound, Covered, Store!ActiveReal, Store!Expired, Store!Stored
<1>8. \A l \in S : ~f[l].old => \A k \in DOMAIN d.replays :
          d.replays[k] = l => k \in R /\ Store!Restrict(d.replays, R)[k] = l
  BY <1>1, <1>2, <1>3 DEF Store!ReplaysKept
<1>9. Outlives(d, e)
  BY <1>2, <1>3, <1>5, <1>6, <1>7, <1>8 DEF Outlives, Store!Stored
<1> QED
  BY <1>9, OutlivingIsSound

\* The passing of time and of deadlines.
LEMMA TimeIsSound ==
    ASSUME NEW d, Sound(d), NEW f, DOMAIN f = Store!Stored(d), f = [l \in DOMAIN f |-> f[l]],
           \A l \in DOMAIN f : f[l] \in Older(d.lobbies[l])
    PROVE  Sound([d EXCEPT !.lobbies = f]) /\ Keeps(d, [d EXCEPT !.lobbies = f])
<1> DEFINE e == [d EXCEPT !.lobbies = f]
<1>1. PICK T \in SUBSET Nat : d.lobbies \in [T -> Record]
  BY DEF Sound, Image
<1>2. \A l \in T : /\ f[l] \in Record /\ f[l].real = d.lobbies[l].real
                   /\ f[l].proof = d.lobbies[l].proof /\ f[l].key = d.lobbies[l].key
                   /\ d.lobbies[l].old => f[l].old
  BY <1>1, OlderIsRecord DEF Store!Stored
<1>3. f \in [T -> Record] /\ DOMAIN f = T /\ DOMAIN d.lobbies = T
  BY <1>1, <1>2 DEF Store!Stored
<1>4. e \in Image
  BY <1>3 DEF Sound, Image
<1>5. /\ e.lease = d.lease /\ e.quarantined = d.quarantined /\ e.used = d.used
      /\ e.receipt = d.receipt /\ e.lobbies = f /\ e.replays = d.replays
  BY DEF Sound, Image
<1>6. d.quarantined \/ d.lease \subseteq T
  BY <1>3 DEF Sound, Covered, Store!ActiveReal, Store!Stored
<1>7. Outlives(d, e)
  BY <1>2, <1>3, <1>4, <1>5, <1>6 DEF Outlives, Store!Stored
<1> QED
  BY <1>7, OutlivingIsSound

LEMMA OverdueIsSound ==
    ASSUME NEW d, Sound(d), NEW late
    PROVE  Sound(Store!Overdue(d, late)) /\ Keeps(d, Store!Overdue(d, late))
<1> DEFINE f == [l \in DOMAIN d.lobbies |->
              IF l \in late /\ d.lobbies[l].state \in {"Provisioning", "Forming"}
              THEN [d.lobbies[l] EXCEPT !.state = "Failed", !.since = 0] ELSE d.lobbies[l]]
<1>1. /\ DOMAIN f = Store!Stored(d) /\ f = [l \in DOMAIN f |-> f[l]]
      /\ \A l \in DOMAIN f : f[l] \in Older(d.lobbies[l])
  BY DEF Store!Stored, Older
<1>2. Store!Overdue(d, late) = [d EXCEPT !.lobbies = f]
  BY DEF Store!Overdue, Sound, Image
<1> HIDE DEF f
<1> QED
  BY <1>1, <1>2, TimeIsSound

LEMMA LaterIsSound ==
    ASSUME NEW d, Sound(d), NEW e \in {Store!QuarterHourLater(d), Store!DayLater(d)}
    PROVE  Sound(e) /\ Keeps(d, e)
<1>1. PICK T \in SUBSET Nat : d.lobbies \in [T -> Record]
  BY DEF Sound, Image
<1>2. CASE e = Store!QuarterHourLater(d)
  <2> DEFINE f == [l \in DOMAIN d.lobbies |->
                IF d.lobbies[l].state \in {"Failed", "Destroyed"} /\ d.lobbies[l].since = 0
                THEN [d.lobbies[l] EXCEPT !.since = 1] ELSE d.lobbies[l]]
  <2>1. /\ DOMAIN f = Store!Stored(d) /\ f = [l \in DOMAIN f |-> f[l]]
        /\ \A l \in DOMAIN f : f[l] \in Older(d.lobbies[l])
    BY DEF Store!Stored, Older
  <2>2. e = [d EXCEPT !.lobbies = f]
    BY <1>2 DEF Store!QuarterHourLater, Sound, Image
  <2> HIDE DEF f
  <2> QED
    BY <2>1, <2>2, TimeIsSound
<1>3. CASE e = Store!DayLater(d)
  <2> DEFINE f == [l \in DOMAIN d.lobbies |->
                [d.lobbies[l] EXCEPT !.old = TRUE,
                     !.since = IF d.lobbies[l].state \in {"Failed", "Destroyed"} THEN 2 ELSE d.lobbies[l].since]]
  <2>1. /\ DOMAIN f = Store!Stored(d) /\ f = [l \in DOMAIN f |-> f[l]]
        /\ \A l \in DOMAIN f : f[l] \in Older(d.lobbies[l])
    <3>1. ASSUME NEW r \in Record
          PROVE  [r EXCEPT !.old = TRUE,
                           !.since = IF r.state \in {"Failed", "Destroyed"} THEN 2 ELSE r.since] \in Older(r)
      BY DEF Older, Record
    <3> QED
      BY <1>1, <3>1 DEF Store!Stored
  <2>2. e = [d EXCEPT !.lobbies = f]
    BY <1>3 DEF Store!DayLater, Sound, Image
  <2> HIDE DEF f
  <2> QED
    BY <2>1, <2>2, TimeIsSound
<1> QED
  BY <1>2, <1>3

\* The image create_in_data writes: the lease was free, the key unanswered.
LEMMA CreatedIsSound ==
    ASSUME NEW d, Sound(d), NEW k \in Key, NEW l \in Nat, NEW real \in BOOLEAN, NEW g \in Grant,
           k \notin DOMAIN d.replays, l \notin Store!Stored(d), real => Store!RealAllowed(d, g)
    PROVE  /\ Sound(Store!Created(d, k, l, real, g)) /\ Keeps(d, Store!Created(d, k, l, real, g))
           /\ real => IF d.receipt = "none" THEN g \notin d.used /\ g \in Store!Created(d, k, l, real, g).used
                      ELSE d.receipt # "consumed" /\ Store!Created(d, k, l, real, g).receipt = "consumed"
<1> DEFINE e == Store!Created(d, k, l, real, g)
           new == Store!NewRecord(k, real)
           lobbies == Store!Put(d.lobbies, l, new)
           replays == Store!Put(d.replays, k, l)
<1>1. PICK T \in SUBSET Nat, K \in SUBSET Key : d.lobbies \in [T -> Record] /\ d.replays \in [K -> Nat]
  BY DEF Sound, Image
<1>2. /\ new \in Record /\ new.real = real /\ new.key = k /\ new.proof = "none" /\ ~new.old
  BY DEF Store!NewRecord, Record
<1>3. /\ lobbies \in [T \cup {l} -> Record] /\ T \cup {l} \in SUBSET Nat /\ lobbies[l] = new
      /\ \A x \in T : x # l => lobbies[x] = d.lobbies[x]
  BY <1>1, <1>2 DEF Store!Put
<1>4. /\ replays \in [K \cup {k} -> Nat] /\ K \cup {k} \in SUBSET Key /\ replays[k] = l
      /\ \A x \in K : x # k => replays[x] = d.replays[x]
  BY <1>1 DEF Store!Put
<1> HIDE DEF new, lobbies, replays
<1>5. e = [d EXCEPT !.replays = replays, !.lease = IF real THEN {l} ELSE d.lease,
                    !.used = IF real /\ d.receipt = "none" THEN d.used \cup {g} ELSE d.used,
                    !.receipt = IF real /\ d.receipt = "installed" THEN "consumed" ELSE d.receipt,
                    !.lobbies = lobbies]
  BY DEF Store!Created, Sound, Image, replays, lobbies, new
<1>6. /\ e.lobbies = lobbies /\ e.replays = replays /\ e.quarantined = d.quarantined
      /\ e.lease = IF real THEN {l} ELSE d.lease
      /\ e.used = IF real /\ d.receipt = "none" THEN d.used \cup {g} ELSE d.used
      /\ e.receipt = IF real /\ d.receipt = "installed" THEN "consumed" ELSE d.receipt
      /\ e.grants = d.grants
      /\ e = [lobbies |-> e.lobbies, lease |-> e.lease, quarantined |-> e.quarantined,
              grants |-> e.grants, used |-> e.used, replays |-> e.replays, receipt |-> e.receipt]
  BY <1>5 DEF Sound, Image
<1>7. e \in Image
  <2>1. lobbies \in UNION {[D -> Record] : D \in SUBSET Nat}
    BY <1>3
  <2>2. replays \in UNION {[D -> Nat] : D \in SUBSET Key}
    BY <1>4
  <2>3. /\ d.lease \in SUBSET Nat /\ d.quarantined \in BOOLEAN /\ d.grants \in SUBSET Grant
        /\ d.used \in SUBSET Grant /\ d.receipt \in {"none", "installed", "consumed"}
    BY DEF Sound, Image
  <2>4. e.lease \in SUBSET Nat /\ e.used \in SUBSET Grant
        /\ e.receipt \in {"none", "installed", "consumed"}
    BY <1>6, <2>3
  <2> HIDE DEF e
  <2> QED
    BY <1>6, <2>1, <2>2, <2>3, <2>4 DEF Image
<1> HIDE DEF e
<1>8. Covered(e)
  <2>1. SUFFICES ASSUME ~d.quarantined PROVE e.lease = Store!ActiveReal(e)
    BY <1>6 DEF Covered
  <2>2. d.lease = Store!ActiveReal(d)
    BY <2>1 DEF Sound, Covered
  <2>3. \A x \in T : x # l => (x \in Store!ActiveReal(e) <=> x \in Store!ActiveReal(d))
    BY <1>1, <1>3, <1>6 DEF Store!ActiveReal, Store!Stored
  <2>4. Store!ActiveReal(e) \subseteq T \cup {l} /\ Store!ActiveReal(d) \subseteq T /\ l \notin T
    BY <1>1, <1>3, <1>6 DEF Store!ActiveReal, Store!Stored
  <2>5. l \in Store!ActiveReal(e) <=> real
    BY <1>2, <1>3, <1>6 DEF Store!ActiveReal, Store!Stored
  <2>6. real => d.lease = {}
    BY DEF Store!RealAllowed
  <2> QED
    BY <1>6, <2>2, <2>3, <2>4, <2>5, <2>6
<1>9. Answered(e)
  <2>1. l \notin T
    BY <1>1 DEF Store!Stored
  <2>2. \A x \in T : ~d.lobbies[x].old => d.lobbies[x].key \in K /\ d.replays[d.lobbies[x].key] = x
    BY <1>1 DEF Sound, Answered, Store!Stored
  <2>3. k \notin K /\ DOMAIN e.replays = K \cup {k} /\ DOMAIN e.lobbies = T \cup {l}
    BY <1>1, <1>3, <1>4, <1>6
  <2> QED
    BY <1>2, <1>3, <1>4, <1>6, <2>1, <2>2, <2>3 DEF Answered, Store!Stored
<1>10. real => IF d.receipt = "none" THEN g \notin d.used /\ g \in e.used
               ELSE d.receipt # "consumed" /\ e.receipt = "consumed"
  BY <1>6 DEF Store!RealAllowed
<1> QED
  BY <1>6, <1>7, <1>8, <1>9, <1>10 DEF Sound, Keeps, e

\* The image replace_in_data writes: the record keeps its kind, key and age.
LEMMA ReplacedIsSound ==
    ASSUME NEW d, Sound(d), NEW l \in Store!Stored(d), NEW r \in Record,
           r.real = d.lobbies[l].real, r.key = d.lobbies[l].key, r.old = d.lobbies[l].old
    PROVE  Sound(Store!Replaced(d, l, r)) /\ Keeps(d, Store!Replaced(d, l, r))
<1> DEFINE e == Store!Replaced(d, l, r)
           lobbies == [d.lobbies EXCEPT ![l] = r]
<1>1. PICK T \in SUBSET Nat : d.lobbies \in [T -> Record]
  BY DEF Sound, Image
<1>2. /\ lobbies \in [T -> Record] /\ l \in T /\ lobbies[l] = r
      /\ \A x \in T : x # l => lobbies[x] = d.lobbies[x]
  BY <1>1 DEF Store!Stored
<1> HIDE DEF lobbies
<1>3. /\ e.lobbies = lobbies /\ e.replays = d.replays
      /\ e.lease = IF r.proof # "none" THEN d.lease \ {l} ELSE d.lease
      /\ e.quarantined = (d.quarantined \/ (l \notin d.lease /\ r.real /\ r.proof = "none"))
      /\ e.used = d.used /\ e.receipt = d.receipt /\ e.grants = d.grants
      /\ e = [lobbies |-> e.lobbies, lease |-> e.lease, quarantined |-> e.quarantined,
              grants |-> e.grants, used |-> e.used, replays |-> e.replays, receipt |-> e.receipt]
  <2> DEFINE lease == IF r.proof # "none" THEN d.lease \ {l} ELSE d.lease
             quarantined == d.quarantined \/ (l \notin d.lease /\ r.real /\ r.proof = "none")
  <2>1. e = [d EXCEPT !.lobbies = lobbies, !.lease = lease, !.quarantined = quarantined]
    BY DEF Store!Replaced, Sound, Image, lobbies
  <2> HIDE DEF lease, quarantined, e
  <2>2. /\ e.lobbies = lobbies /\ e.replays = d.replays /\ e.lease = lease
        /\ e.used = d.used /\ e.receipt = d.receipt /\ e.grants = d.grants
    BY <2>1 DEF Sound, Image
  <2>3. e.quarantined = quarantined
    BY <2>1 DEF Sound, Image
  <2>4. e = [lobbies |-> e.lobbies, lease |-> e.lease, quarantined |-> e.quarantined,
             grants |-> e.grants, used |-> e.used, replays |-> e.replays, receipt |-> e.receipt]
    BY <2>1 DEF Sound, Image
  <2> QED
    BY <2>2, <2>3, <2>4 DEF lease, quarantined
<1> HIDE DEF e
<1>4. e \in Image
  <2>1. lobbies \in UNION {[D -> Record] : D \in SUBSET Nat}
    BY <1>2
  <2>2. /\ d.lease \in SUBSET Nat /\ d.quarantined \in BOOLEAN /\ d.grants \in SUBSET Grant
        /\ d.used \in SUBSET Grant /\ d.receipt \in {"none", "installed", "consumed"}
        /\ d.replays \in UNION {[D -> Nat] : D \in SUBSET Key}
    BY DEF Sound, Image
  <2>3. e.lease \in SUBSET Nat /\ e.quarantined \in BOOLEAN
    BY <1>3, <2>2
  <2> QED
    BY <1>3, <2>1, <2>2, <2>3 DEF Image
<1>5. Covered(e)
  <2>1. SUFFICES ASSUME ~e.quarantined PROVE e.lease = Store!ActiveReal(e)
    BY DEF Covered
  <2>2. d.lease = Store!ActiveReal(d)
    BY <1>3, <2>1 DEF Sound, Covered
  <2>3. \A x \in T : x # l => (x \in Store!ActiveReal(e) <=> x \in Store!ActiveReal(d))
    BY <1>1, <1>2, <1>3 DEF Store!ActiveReal, Store!Stored
  <2>4. Store!ActiveReal(e) \subseteq T /\ Store!ActiveReal(d) \subseteq T
    BY <1>1, <1>2, <1>3 DEF Store!ActiveReal, Store!Stored
  <2>5. /\ l \in Store!ActiveReal(e) <=> r.real /\ r.proof = "none"
        /\ l \in Store!ActiveReal(d) => r.real
    BY <1>1, <1>2, <1>3 DEF Store!ActiveReal, Store!Stored
  <2>6. l \in e.lease <=> l \in Store!ActiveReal(e)
    BY <1>3, <2>1, <2>2, <2>5
  <2> QED
    BY <1>3, <2>2, <2>3, <2>4, <2>6
<1>6. Answered(e)
  BY <1>1, <1>2, <1>3 DEF Sound, Answered, Store!Stored
<1> QED
  BY <1>3, <1>4, <1>5, <1>6 DEF Sound, Keeps, e

\* Grants, receipts and quarantines leave the records alone.
LEMMA MarkedIsSound ==
    ASSUME NEW d, Sound(d),
           NEW e, \/ \E g \in Grant : e = [d EXCEPT !.grants = @ \cup {g}]
                  \/ d.receipt = "none" /\ e = [d EXCEPT !.receipt = "installed"]
                  \/ e = [d EXCEPT !.quarantined = TRUE]
    PROVE  Sound(e) /\ Keeps(d, e)
<1> DEFINE Same == /\ e \in Image /\ e.lobbies = d.lobbies /\ e.replays = d.replays
                   /\ e.lease = d.lease /\ e.used = d.used
                   /\ (d.quarantined => e.quarantined)
                   /\ (e.receipt = d.receipt \/ d.receipt = "none")
<1>1. ASSUME NEW g \in Grant, e = [d EXCEPT !.grants = @ \cup {g}] PROVE Same
  BY <1>1 DEF Sound, Image
<1>2. ASSUME d.receipt = "none", e = [d EXCEPT !.receipt = "installed"] PROVE Same
  BY <1>2 DEF Sound, Image
<1>3. ASSUME e = [d EXCEPT !.quarantined = TRUE] PROVE Same
  BY <1>3 DEF Sound, Image
<1>4. Same
  BY <1>1, <1>2, <1>3
<1> QED
  BY <1>4 DEF Sound, Keeps, Covered, Answered, Store!ActiveReal, Store!Stored

\* Reopening a sound image quarantines nothing and changes no lease.
LEMMA NormalizedIsSound ==
    ASSUME NEW d, Sound(d)
    PROVE  /\ Sound(Store!Normalized(d)) /\ Keeps(d, Store!Normalized(d))
           /\ d.quarantined = Store!Normalized(d).quarantined
<1> DEFINE A == Store!ActiveReal(d)
<1>1. CASE d.quarantined = FALSE
  <2>1. d.lease = A
    BY <1>1 DEF Sound, Covered
  <2>2. Store!Normalized(d) = d
    BY <2>1 DEF Store!Normalized, Sound, Image
  <2> QED
    BY <2>2 DEF Keeps
<1>2. CASE d.quarantined = TRUE
  <2>1. PICK L : Store!Normalized(d) = [d EXCEPT !.lease = L] /\ L \in SUBSET Nat
    <3>1. A \in SUBSET Nat /\ d.lease \in SUBSET Nat /\ d = [d EXCEPT !.lease = d.lease]
      BY DEF Sound, Image, Store!ActiveReal, Store!Stored
    <3>2. CASE Store!Normalized(d) = [d EXCEPT !.lease = A]
      BY <3>1, <3>2
    <3>3. CASE Store!Normalized(d) = d
      BY <3>1, <3>3
    <3>4. CASE d.lease # A /\ Store!Normalized(d) =
                 [d EXCEPT !.quarantined = TRUE, !.lease = IF @ = {} THEN {CHOOSE l \in A : TRUE} ELSE @]
      <4> DEFINE M == IF d.lease = {} THEN {CHOOSE l \in A : TRUE} ELSE d.lease
      <4>1. M \in SUBSET Nat
        BY <3>1, <3>4
      <4>2. Store!Normalized(d) = [d EXCEPT !.lease = M]
        BY <1>2, <3>4 DEF Sound, Image
      <4> QED
        BY <4>1, <4>2
    <3> QED
      BY <3>2, <3>3, <3>4 DEF Store!Normalized
  <2> DEFINE e == [d EXCEPT !.lease = L]
  <2>2. e \in Image /\ e.quarantined /\ e.lobbies = d.lobbies /\ e.replays = d.replays
        /\ e.used = d.used /\ e.receipt = d.receipt
    BY <1>2, <2>1 DEF Sound, Image
  <2>3. Sound(e) /\ Keeps(d, e)
    BY <2>2 DEF Sound, Keeps, Covered, Answered, Store!Stored
  <2> QED
    BY <1>2, <2>1, <2>2, <2>3
<1> QED
  BY <1>1, <1>2 DEF Sound, Image

\* A write that succeeds, fails or is lost after the rename, of a sound image.
LEMMA CommitKeepsStore ==
    ASSUME StoreInv, NEW next, Sound(next), Keeps(memory, next), Store!Commit(next),
           UNCHANGED <<made, reached>>
    PROVE  StoreInv'
<1>1. /\ memory' \in {memory, next} /\ disk' \in {disk, next}
  BY DEF Store!Commit
<1>2. Sound(memory') /\ Sound(disk')
  BY <1>1 DEF StoreInv
<1>3. Paid(next)
  BY DEF StoreInv, Paid, Keeps
<1>4. Paid(memory)' /\ Paid(disk)'
  BY <1>1, <1>3 DEF StoreInv, Paid
<1> QED
  BY <1>2, <1>4 DEF StoreInv, Store!GrantReachesProviderOnce

LEMMA CreateKeepsStore ==
    ASSUME StoreBounds, StoreInv, NEW k \in Key, NEW real \in BOOLEAN, NEW g \in Grant,
           Store!Create(k, real, g)
    PROVE  StoreInv'
<1> DEFINE d == Store!Purged(memory)
           l == Store!LobbyIdFor(d, real)
           e == Store!Created(d, k, l, real, g)
           c == <<IF l = 0 THEN 0 ELSE g, made + 1>>
<1>1. Sound(d) /\ Keeps(memory, d) /\ made \in Nat
  BY PurgedIsSound DEF StoreInv
<1>2. l \in Nat /\ (l = 0 <=> real /\ d.receipt # "none")
  BY <1>1 DEF Store!LobbyIdFor
<1>3. Sound(e) /\ Keeps(d, e)
      /\ (real => IF d.receipt = "none" THEN g \notin d.used /\ g \in e.used
                  ELSE d.receipt # "consumed" /\ e.receipt = "consumed")
  BY <1>1, <1>2, CreatedIsSound DEF Store!Create
<1>4. Paid(d) /\ Paid(e)
  BY <1>1, <1>3 DEF StoreInv, Paid, Keeps
<1>5. \/ memory' = e /\ disk' = e /\ reached' = IF real THEN reached \cup {c} ELSE reached
      \/ memory' = memory /\ reached' = reached /\ disk' \in {disk, e}
  BY DEF Store!Create, Store!Committed
<1>6. made' = made + 1
  BY DEF Store!Create
<1> HIDE DEF d, l, e
<1>7. Sound(memory') /\ Sound(disk') /\ made' \in Nat
  BY <1>1, <1>3, <1>5, <1>6 DEF StoreInv
<1>8. CASE memory' = memory /\ reached' = reached /\ disk' \in {disk, e}
  <2>1. Paid(memory)' /\ Paid(disk)'
    BY <1>4, <1>8 DEF StoreInv, Paid
  <2> QED
    BY <1>7, <1>8, <2>1 DEF StoreInv, Store!GrantReachesProviderOnce
<1>9. CASE memory' = e /\ disk' = e /\ reached' = reached
  <2>1. Paid(memory)' /\ Paid(disk)'
    BY <1>4, <1>9 DEF Paid
  <2> QED
    BY <1>7, <1>9, <2>1 DEF StoreInv, Store!GrantReachesProviderOnce
<1>10. CASE real /\ memory' = e /\ disk' = e /\ reached' = reached \cup {c}
  <2>1. c[1] = (IF l = 0 THEN 0 ELSE g) /\ g # 0
    BY DEF StoreBounds
  <2>2. IF c[1] = 0 THEN e.receipt = "consumed" ELSE c[1] \in e.used
    BY <1>2, <1>3, <1>10, <2>1
  <2>3. Paid(memory)' /\ Paid(disk)'
    <3> HIDE DEF c
    <3> QED
      BY <1>4, <1>10, <2>2 DEF Paid
  <2>4. \A b \in reached : b[1] # c[1]
    BY <1>2, <1>3, <1>4, <1>10, <2>1 DEF Paid
  <2>5. Store!GrantReachesProviderOnce'
    <3> HIDE DEF c
    <3> QED
      BY <1>10, <2>4 DEF StoreInv, Store!GrantReachesProviderOnce
  <2> QED
    BY <1>7, <2>3, <2>5 DEF StoreInv
<1> QED
  BY <1>5, <1>8, <1>9, <1>10

\* A handler that replaces a record by one of the same kind, key and age.
LEMMA ReplaceKeepsStore ==
    ASSUME StoreInv, NEW l, NEW r, Store!Replace(l, r),
           l \in Store!Stored(memory) =>
               /\ r \in Record /\ r.real = memory.lobbies[l].real
               /\ r.key = memory.lobbies[l].key /\ r.old = memory.lobbies[l].old
    PROVE  StoreInv'
<1>1. l \in Store!Stored(memory) /\ Store!Commit(Store!Replaced(memory, l, r))
      /\ UNCHANGED <<made, reached>>
  BY DEF Store!Replace
<1>2. Sound(Store!Replaced(memory, l, r)) /\ Keeps(memory, Store!Replaced(memory, l, r))
  BY <1>1, ReplacedIsSound DEF StoreInv
<1> QED
  BY <1>1, <1>2, CommitKeepsStore

LEMMA StoreInvStep ==
    ASSUME StoreBounds, StoreInv, [Store!Next]_Store!vars
    PROVE  StoreInv'
<1>1. ASSUME NEW g \in Grant, Store!IssueGrant(g) PROVE StoreInv'
  BY <1>1, MarkedIsSound, CommitKeepsStore DEF StoreInv, Store!IssueGrant
<1>2. ASSUME NEW g \in Grant, NEW k \in Key, NEW real \in BOOLEAN, Store!Create(k, real, g)
      PROVE  StoreInv'
  BY <1>2, CreateKeepsStore
<1>3. CASE Store!InstallReceipt
  BY <1>3, MarkedIsSound, CommitKeepsStore DEF StoreInv, Store!InstallReceipt
<1>4. CASE Store!QuarantineRealCreation
  BY <1>4, MarkedIsSound, CommitKeepsStore DEF StoreInv, Store!QuarantineRealCreation
<1>5. CASE Store!CleanupExpired
  <2>1. PICK late : Store!Commit(Store!Overdue(Store!Purged(memory), late)) /\ UNCHANGED <<made, reached>>
    BY <1>5 DEF Store!CleanupExpired
  <2>2. Sound(Store!Purged(memory)) /\ Keeps(memory, Store!Purged(memory))
    BY PurgedIsSound DEF StoreInv
  <2>3. /\ Sound(Store!Overdue(Store!Purged(memory), late))
        /\ Keeps(Store!Purged(memory), Store!Overdue(Store!Purged(memory), late))
    BY <2>2, OverdueIsSound
  <2>4. Keeps(memory, Store!Overdue(Store!Purged(memory), late))
    BY <2>2, <2>3 DEF Keeps
  <2> QED
    BY <2>1, <2>3, <2>4, CommitKeepsStore
<1>6. CASE Store!Crash
  BY <1>6 DEF Store!Crash, StoreInv, Paid, Store!GrantReachesProviderOnce
<1>7. CASE Store!Open
  <2>1. /\ memory' = Store!Normalized(disk) /\ disk' = Store!Normalized(disk)
        /\ UNCHANGED <<made, reached>>
    BY <1>7 DEF Store!Open
  <2>2. Sound(Store!Normalized(disk)) /\ Keeps(disk, Store!Normalized(disk))
    BY NormalizedIsSound DEF StoreInv
  <2> QED
    BY <2>1, <2>2 DEF StoreInv, Paid, Keeps, Store!GrantReachesProviderOnce
<1>8. CASE Store!TimePasses
  <2>1. UNCHANGED <<made, reached>>
    BY <1>8 DEF Store!TimePasses
  <2>2. /\ Sound(memory') /\ Keeps(memory, memory') /\ Sound(disk') /\ Keeps(disk, disk')
    BY <1>8, LaterIsSound DEF Store!TimePasses, StoreInv
  <2> QED
    BY <2>1, <2>2 DEF StoreInv, Paid, Keeps, Store!GrantReachesProviderOnce
<1>9. ASSUME NEW l \in 0..MaxMade, Store!FinishCreate(l) \/ Store!Delete(l) \/ Store!Release(l)
      PROVE  StoreInv'
  <2> DEFINE r == memory.lobbies[l]
  <2>1. l \in Store!Stored(memory) => r \in Record
    BY DEF StoreInv, Sound, Image, Store!Stored
  <2>2. PICK s : /\ Store!Replace(l, s)
                 /\ \/ s \in {[r EXCEPT !.state = "Forming"], [r EXCEPT !.state = "Failed"],
                              [r EXCEPT !.state = "Failed",
                                        !.proof = IF r.real THEN "rejected" ELSE r.proof]}
                    \/ s = [r EXCEPT !.state = "Destroyed", !.since = 0,
                                     !.proof = IF r.proof = "absent" THEN r.proof ELSE "none"]
                    \/ s = [r EXCEPT !.proof = "absent"]
    BY <1>9 DEF Store!FinishCreate, Store!Delete, Store!Release
  <2>3. ASSUME r \in Record
        PROVE  s \in Record /\ s.real = r.real /\ s.key = r.key /\ s.old = r.old
    <3> DEFINE Kin(t) == t \in Record /\ t.real = r.real /\ t.key = r.key /\ t.old = r.old
    <3> HIDE DEF r
    <3>1. \A t \in Record, n \in {"Forming", "Failed", "Destroyed"} :
             Kin(t) => Kin([t EXCEPT !.state = n])
      BY DEF Record
    <3>2. \A t \in Record, p \in {"none", "rejected", "absent"} : Kin(t) => Kin([t EXCEPT !.proof = p])
      BY DEF Record
    <3>3. \A t \in Record : Kin(t) => Kin([t EXCEPT !.since = 0])
      BY DEF Record
    <3>4. Kin(r) /\ r.proof \in {"none", "rejected", "absent"}
      BY <2>3 DEF Record
    <3>5. CASE s \in {[r EXCEPT !.state = "Forming"], [r EXCEPT !.state = "Failed"]}
      BY <2>3, <3>1, <3>4, <3>5
    <3>6. CASE s = [r EXCEPT !.state = "Failed", !.proof = IF r.real THEN "rejected" ELSE r.proof]
      <4>1. s = [[r EXCEPT !.state = "Failed"] EXCEPT !.proof = IF r.real THEN "rejected" ELSE r.proof]
        BY <3>6
      <4>2. Kin([r EXCEPT !.state = "Failed"])
        BY <2>3, <3>1, <3>4
      <4> QED
        BY <3>2, <3>4, <4>1, <4>2
    <3>7. CASE s = [r EXCEPT !.state = "Destroyed", !.since = 0,
                             !.proof = IF r.proof = "absent" THEN r.proof ELSE "none"]
      <4> DEFINE t == [r EXCEPT !.state = "Destroyed"]
                 u == [t EXCEPT !.since = 0]
      <4>1. s = [u EXCEPT !.proof = IF r.proof = "absent" THEN r.proof ELSE "none"]
        BY <3>7
      <4>2. Kin(t)
        BY <2>3, <3>1, <3>4
      <4>3. Kin(u)
        BY <3>3, <4>2
      <4> QED
        BY <3>2, <3>4, <4>1, <4>3
    <3>8. CASE s = [r EXCEPT !.proof = "absent"]
      BY <2>3, <3>2, <3>4, <3>8
    <3> QED
      BY <2>2, <3>5, <3>6, <3>7, <3>8
  <2> QED
    BY <2>1, <2>2, <2>3, ReplaceKeepsStore
<1>10. CASE UNCHANGED Store!vars
  BY <1>10 DEF Store!vars, StoreInv, Paid, Store!GrantReachesProviderOnce
<1> QED
  BY <1>1, <1>2, <1>3, <1>4, <1>5, <1>6, <1>7, <1>8, <1>9, <1>10 DEF Store!Next

\* Through retries, purges, lost writes and restarts of the store, for any number of
\* keys, grants and records: a grant or a receipt pays for one creation at the
\* provider, whoever has no release proof holds the lease, a retry within a day finds
\* its lobby, and reopening what is on disk quarantines nothing (create_in_data,
\* replace_in_data, purge_retained, normalize_loaded_store).
THEOREM StoreIsSound == StoreBounds => (Store!Spec => []Store!StoreKeepsAdmission)
<1> SUFFICES ASSUME StoreBounds PROVE Store!Spec => []Store!StoreKeepsAdmission
  OBVIOUS
<1>1. Store!Init => StoreInv
  <2>1. Store!Empty \in Image /\ Store!Stored(Store!Empty) = {} /\ Store!Empty.lease = {}
    <3>1. <<>> \in [{} -> Record] /\ <<>> \in [{} -> Nat] /\ DOMAIN <<>> = {}
      OBVIOUS
    <3>2. /\ <<>> \in UNION {[S -> Record] : S \in SUBSET Nat}
          /\ <<>> \in UNION {[K -> Nat] : K \in SUBSET Key}
      BY <3>1
    <3> QED
      BY <3>1, <3>2 DEF Store!Empty, Image, Store!Stored
  <2>2. Sound(Store!Empty)
    BY <2>1 DEF Sound, Covered, Answered, Store!ActiveReal
  <2> QED
    BY <2>2 DEF Store!Init, StoreInv, Paid, Store!GrantReachesProviderOnce
<1>2. StoreInv /\ [Store!Next]_Store!vars => StoreInv'
  BY StoreInvStep
<1>3. StoreInv => Store!StoreKeepsAdmission
  <2> SUFFICES ASSUME StoreInv PROVE Store!StoreKeepsAdmission
    OBVIOUS
  <2>1. Store!LeaseCoversRealRecords
    BY DEF StoreInv, Sound, Covered, Store!LeaseCoversRealRecords
  <2>2. Store!RetryFindsItsLobby
    BY DEF StoreInv, Sound, Answered, Store!RetryFindsItsLobby
  <2>3. Store!ReopenKeepsAdmission
    BY NormalizedIsSound DEF StoreInv, Store!ReopenKeepsAdmission
  <2> QED
    BY <2>1, <2>2, <2>3 DEF StoreInv, Store!StoreKeepsAdmission
<1> QED
  BY <1>1, <1>2, <1>3, PTL DEF Store!Spec

-----------------------------------------------------------------------------
(* The documents: THEOREM SessionsStayBound.                                 *)

\* The records of the model have the fields of their first value.
IsPeer(p) ==
    p = [key |-> p.key, keyGeneration |-> p.keyGeneration, pinned |-> p.pinned,
         allowed |-> p.allowed, session |-> p.session, next |-> p.next, last |-> p.last]

IsService(s) ==
    s = [generation |-> s.generation, revision |-> s.revision, roster |-> s.roster,
         signer |-> s.signer, key |-> s.key, keyRevision |-> s.keyRevision,
         sequence |-> s.sequence, others |-> s.others]

\* Shapes and numbers.
BindingTypes ==
    /\ IsPeer(peer) /\ IsService(service)
    /\ keys \in Nat /\ latest \in Nat
    /\ peer.key \in Nat /\ peer.keyGeneration \in Nat /\ peer.next \in Nat /\ peer.last \in Nat
    /\ service.generation \in Nat /\ service.key \in Nat
    /\ \A r \in requests : r.key \in Nat
    /\ \A a \in answers : a.is.generation \in Nat /\ a.is.key \in Nat

\* Nothing names a key that was not drawn yet.
KeysAreDrawn ==
    /\ 0 < peer.key /\ peer.key <= keys /\ service.key <= keys
    /\ \A r \in requests : r.key <= keys
    /\ \A a \in answers : a.is.key <= keys

\* The service is never behind what it answered, and whatever names the rider's key
\* was answered after the key was drawn: it is of no earlier generation than the key,
\* nor than any session installed.
AnswersFollow ==
    /\ peer.session # Binding!NoSession => latest = peer.session.generation
    /\ latest <= service.generation /\ peer.keyGeneration <= service.generation
    /\ \A a \in answers :
          /\ a.is.generation <= service.generation
          /\ a.is.key = peer.key => peer.keyGeneration <= a.is.generation
                                    /\ latest <= a.is.generation

BindingInv == BindingTypes /\ KeysAreDrawn /\ AnswersFollow /\ Binding!InstalledIsBound

\* What an answer that carries the projection a may make of the rider's session:
\* the key stays or is drawn anew for a's generation, and the session stays, is
\* dropped or becomes the one of a, which names the key.
Moves(q, a) ==
    /\ IsPeer(q) /\ q.next \in Nat /\ q.last \in Nat
    /\ \/ q.key = peer.key /\ q.keyGeneration = peer.keyGeneration
       \/ q.key = keys + 1 /\ q.keyGeneration = a.generation
    /\ \/ /\ q.session = peer.session /\ q.key = peer.key /\ q.allowed = peer.allowed
          /\ q.next = peer.next /\ q.last = peer.last
       \/ q.session = Binding!NoSession
       \/ /\ q.session = Binding!Manifest(a) /\ q.session # peer.session
          /\ a.key = q.key /\ a.generation = q.keyGeneration /\ a.roster = q.allowed

LEMMA RebindDraws ==
    ASSUME IsPeer(peer), NEW signer, NEW g, NEW q, q = Binding!Rebind(peer, signer, g)
    PROVE  /\ IsPeer(q) /\ q.allowed = peer.allowed /\ q.next = peer.next /\ q.last = peer.last
           /\ \/ /\ q.key = peer.key /\ q.keyGeneration = peer.keyGeneration
                 /\ q.session = peer.session
              \/ /\ q.key = keys + 1 /\ q.keyGeneration = g /\ q.session = Binding!NoSession
BY DEF IsPeer, Binding!Rebind, Binding!Bind, Binding!Generate, Binding!NeedsKey

\* What a projection a makes of p: the session stays, is dropped or becomes a's own,
\* for p's key and generation, and only then starts its replay state afresh.
Installs(p, a, q) ==
    /\ IsPeer(q) /\ q.key = p.key /\ q.keyGeneration = p.keyGeneration
    /\ \/ /\ q.session = p.session /\ q.allowed = p.allowed
          /\ q.next = p.next /\ q.last = p.last
       \/ q.session = Binding!NoSession /\ q.next = p.next /\ q.last = p.last
       \/ /\ q.session = Binding!Manifest(a) /\ q.next = 1 /\ q.last = 0
          /\ a.key = q.key /\ a.generation = q.keyGeneration /\ a.roster = q.allowed
          /\ p.session # Binding!Manifest(a) \/ p.allowed # a.roster

LEMMA ProjectionInstalls ==
    ASSUME NEW p, IsPeer(p), NEW a
    PROVE  Installs(p, a, Binding!ApplyProjection(p, a))
<1> DEFINE q == Binding!ApplyProjection(p, a)
<1> SUFFICES Installs(p, a, q)
  OBVIOUS
<1> DEFINE c == Binding!ConfigureRoster(p, a.roster)
<1>1. \/ c = p
      \/ /\ IsPeer(c) /\ c.key = p.key /\ c.keyGeneration = p.keyGeneration
         /\ c.session = Binding!NoSession /\ c.next = p.next /\ c.last = p.last
         /\ p.allowed # a.roster
  BY DEF IsPeer, Binding!ConfigureRoster
<1>2. q = Binding!ConfigureSecure(c, a)
  BY DEF Binding!ApplyProjection
<1> HIDE DEF c, q
<1>3. IsPeer(c)
  BY <1>1
<1>4. \/ q = c
      \/ /\ Binding!Installable(c, a) /\ c.session # Binding!Manifest(a)
         /\ q = [c EXCEPT !.session = Binding!Manifest(a), !.next = 1, !.last = 0]
  BY <1>2 DEF Binding!ConfigureSecure
<1>5. CASE q = c
  BY <1>1, <1>5 DEF Installs
<1>6. CASE /\ Binding!Installable(c, a) /\ c.session # Binding!Manifest(a)
           /\ q = [c EXCEPT !.session = Binding!Manifest(a), !.next = 1, !.last = 0]
  <2>1. /\ IsPeer(q) /\ q.key = c.key /\ q.keyGeneration = c.keyGeneration /\ q.allowed = c.allowed
        /\ q.session = Binding!Manifest(a) /\ q.next = 1 /\ q.last = 0
    BY <1>3, <1>6 DEF IsPeer
  <2> QED
    BY <1>1, <1>6, <2>1 DEF Binding!Installable, Installs
<1> QED
  BY <1>4, <1>5, <1>6

LEMMA AnswerMoves ==
    ASSUME BindingInv, NEW a, a.key \in Nat, a.key <= keys,
           NEW p, \/ p = peer \/ \E signer : p = Binding!Rebind(peer, signer, a.generation),
           NEW q, q = p \/ q = Binding!ApplyProjection(p, a)
    PROVE  Moves(q, a)
<1>1. /\ IsPeer(p) /\ p.allowed = peer.allowed /\ p.next = peer.next /\ p.last = peer.last
      /\ \/ /\ p.key = peer.key /\ p.keyGeneration = peer.keyGeneration
            /\ p.session = peer.session
         \/ /\ p.key = keys + 1 /\ p.keyGeneration = a.generation /\ p.session = Binding!NoSession
  BY RebindDraws DEF BindingInv, BindingTypes
<1>2. Installs(p, a, q)
  <2>1. CASE q = p
    BY <1>1, <2>1 DEF Installs
  <2>2. CASE q = Binding!ApplyProjection(p, a)
    <3>1. IsPeer(p)
      BY <1>1
    <3> QED
      BY <2>2, <3>1, ProjectionInstalls
  <2> QED
    BY <2>1, <2>2
<1>3. q.next \in Nat /\ q.last \in Nat
  BY <1>1, <1>2 DEF BindingInv, BindingTypes, Installs
<1>4. CASE /\ q.session = Binding!Manifest(a) /\ a.key = q.key
           /\ p.session # Binding!Manifest(a) \/ p.allowed # a.roster
  <2>1. q.key = peer.key /\ p.session = peer.session
    BY <1>1, <1>2, <1>4 DEF BindingInv, BindingTypes, Installs
  <2>2. Binding!Manifest(a).roster = a.roster /\ Binding!Manifest(a) # Binding!NoSession
    <3>1. "key" \in DOMAIN Binding!Manifest(a) /\ "key" \notin DOMAIN Binding!NoSession
      BY DEF Binding!Manifest, Binding!NoSession
    <3> QED
      BY <3>1 DEF Binding!Manifest
  <2>3. q.session # peer.session
    BY <1>1, <1>4, <2>1, <2>2 DEF BindingInv, Binding!InstalledIsBound
  <2> QED
    BY <1>1, <1>2, <1>3, <1>4, <2>3 DEF Moves, Installs
<1> QED
  BY <1>1, <1>2, <1>3, <1>4 DEF Moves, Installs

\* A step of the client that moves its session keeps the invariant, never goes back
\* to an earlier generation and never restarts a session it has.
LEMMA MovesAreBound ==
    ASSUME BindingInv, NEW b \in answers, Moves(peer', b.is),
           UNCHANGED service, answers' \subseteq answers,
           keys' \in {keys, keys + 1}, peer'.key <= keys',
           \A r \in requests' : r \in requests \/ r.key = peer'.key,
           latest' = IF peer'.session = Binding!NoSession THEN latest ELSE peer'.session.generation
    PROVE  BindingInv' /\ Binding!GenerationMovesOn /\ Binding!ProjectionKeepsReplay
<1> DEFINE a == b.is
<1>1. a.generation \in Nat /\ a.key \in Nat /\ a.key <= keys /\ a.generation <= service.generation
  BY DEF BindingInv, BindingTypes, KeysAreDrawn, AnswersFollow
<1>2. /\ peer.key \in Nat /\ keys \in Nat /\ latest \in Nat /\ 0 < peer.key /\ peer.key <= keys
      /\ peer.keyGeneration \in Nat /\ service.generation \in Nat
      /\ keys' \in Nat /\ keys <= keys'
  BY DEF BindingInv, BindingTypes, KeysAreDrawn
<1>3. \/ peer'.key = peer.key /\ peer'.keyGeneration = peer.keyGeneration
      \/ peer'.key = keys + 1 /\ peer'.keyGeneration = a.generation
  BY DEF Moves
<1>4. Binding!InstalledIsBound'
  <2>1. CASE peer'.session = peer.session /\ peer'.key = peer.key /\ peer'.allowed = peer.allowed
    BY <1>2, <1>3, <2>1 DEF BindingInv, Binding!InstalledIsBound
  <2>2. CASE peer'.session = Binding!NoSession
    BY <2>2 DEF Binding!InstalledIsBound
  <2>3. CASE /\ peer'.session = Binding!Manifest(a)
             /\ a.key = peer'.key /\ a.generation = peer'.keyGeneration /\ a.roster = peer'.allowed
    BY <2>3 DEF Binding!InstalledIsBound, Binding!Manifest
  <2> QED
    BY <2>1, <2>2, <2>3 DEF Moves
<1>5. CASE /\ peer'.session = Binding!Manifest(a) /\ a.key = peer'.key
           /\ a.generation = peer'.keyGeneration /\ peer'.session # peer.session
  <2>1. peer'.key = peer.key /\ peer'.keyGeneration = peer.keyGeneration
    BY <1>1, <1>2, <1>3, <1>5
  <2>2. latest' = a.generation /\ latest <= a.generation /\ peer'.session.generation = a.generation
    <3>1. "key" \in DOMAIN Binding!Manifest(a) /\ "key" \notin DOMAIN Binding!NoSession
      BY DEF Binding!Manifest, Binding!NoSession
    <3>2. Binding!Manifest(a).generation = a.generation
      BY DEF Binding!Manifest
    <3>3. latest <= a.generation
      BY <1>5, <2>1 DEF BindingInv, AnswersFollow
    <3> QED
      BY <1>5, <3>1, <3>2, <3>3
  <2>3. AnswersFollow'
    BY <1>1, <1>2, <1>5, <2>1, <2>2 DEF BindingInv, AnswersFollow
  <2>4. KeysAreDrawn'
    BY <1>2, <2>1 DEF BindingInv, KeysAreDrawn, BindingTypes
  <2>5. BindingTypes'
    BY <1>1, <1>2, <2>1, <2>2 DEF BindingInv, BindingTypes, Moves
  <2> QED
    BY <1>4, <1>5, <2>2, <2>3, <2>4, <2>5
    DEF BindingInv, Binding!GenerationMovesOn, Binding!ProjectionKeepsReplay
<1>6. CASE \/ /\ peer'.session = peer.session /\ peer'.key = peer.key
              /\ peer'.next = peer.next /\ peer'.last = peer.last
           \/ peer'.session = Binding!NoSession
  <2>1. peer'.session # Binding!NoSession =>
            /\ peer'.session = peer.session /\ peer'.key = peer.key
            /\ peer'.session.generation = peer.keyGeneration
    BY <1>6 DEF BindingInv, Binding!InstalledIsBound
  <2>2. latest' = latest /\ (peer'.session # Binding!NoSession => latest = peer'.session.generation)
    BY <1>2, <2>1 DEF BindingInv, AnswersFollow
  <2>3. \A x \in answers : peer'.key = keys + 1 => x.is.key # peer'.key
    BY <1>2 DEF BindingInv, BindingTypes, KeysAreDrawn
  <2>4. AnswersFollow'
    BY <1>1, <1>2, <1>3, <2>2, <2>3 DEF BindingInv, AnswersFollow
  <2>5. KeysAreDrawn'
    BY <1>2, <1>3 DEF BindingInv, KeysAreDrawn, BindingTypes
  <2>6. BindingTypes'
    BY <1>1, <1>2, <1>3, <2>2 DEF BindingInv, BindingTypes, Moves
  <2>7. Binding!ProjectionKeepsReplay
    BY <1>6 DEF Binding!ProjectionKeepsReplay, BindingInv, BindingTypes
  <2> QED
    BY <1>2, <1>4, <2>2, <2>4, <2>5, <2>6, <2>7 DEF BindingInv, Binding!GenerationMovesOn
<1> QED
  BY <1>5, <1>6 DEF Moves

LEMMA ReceiveIsBound ==
    ASSUME BindingInv, NEW b \in answers, Binding!Receive(b)
    PROVE  BindingInv' /\ Binding!GenerationMovesOn /\ Binding!ProjectionKeepsReplay
<1> DEFINE a == b.is
<1>1. a.generation \in Nat /\ a.key \in Nat /\ a.key <= keys
  BY DEF BindingInv, BindingTypes, KeysAreDrawn
<1>2. /\ UNCHANGED service /\ answers' \subseteq answers
      /\ latest' = IF peer'.session = Binding!NoSession THEN latest ELSE peer'.session.generation
  BY DEF Binding!Receive
<1>3. peer.key \in Nat /\ keys \in Nat /\ peer.key <= keys
  BY DEF BindingInv, BindingTypes, KeysAreDrawn
<1>4. ASSUME NEW sh, NEW p, NEW forced, Binding!Send(sh, p, forced), Moves(p, a)
      PROVE  /\ Moves(peer', a) /\ keys' \in {keys, keys + 1} /\ peer'.key <= keys'
             /\ \A r \in requests' : r \in requests \/ r.key = peer'.key
  BY <1>3, <1>4 DEF Binding!Send, Binding!Registers, Moves
<1>5. ASSUME UNCHANGED <<requests, peer, keys>>
      PROVE  /\ Moves(peer', a) /\ keys' \in {keys, keys + 1} /\ peer'.key <= keys'
             /\ \A r \in requests' : r \in requests \/ r.key = peer'.key
  <2>1. Moves(peer, a)
    BY <1>1, AnswerMoves
  <2> QED
    BY <1>3, <1>5, <2>1
<1>6. /\ Moves(peer', a) /\ keys' \in {keys, keys + 1} /\ peer'.key <= keys'
      /\ \A r \in requests' : r \in requests \/ r.key = peer'.key
  <2>1. CASE Binding!LobbyUpdated(a)
    <3> DEFINE changed == a.generation # shell.generation \/ a.signer # shell.signer
               bound == IF changed THEN Binding!Rebind(peer, a.signer, a.generation) ELSE peer
    <3>1. Moves(Binding!ApplyProjection(bound, a), a)
      BY <1>1, AnswerMoves
    <3>2. \/ UNCHANGED <<requests, peer, keys>>
          \/ \E sh : Binding!Send(sh, Binding!ApplyProjection(bound, a), FALSE)
      BY <2>1 DEF Binding!LobbyUpdated
    <3> QED
      BY <1>4, <1>5, <3>1, <3>2
  <2>2. CASE Binding!Started(a)
    <3>1. Moves(Binding!Rebind(peer, shell.signer, a.generation), a)
      BY <1>1, AnswerMoves
    <3>2. \/ UNCHANGED <<requests, peer, keys>>
          \/ \E sh : Binding!Send(sh, Binding!Rebind(peer, shell.signer, a.generation), TRUE)
      BY <2>2 DEF Binding!Started
    <3> QED
      BY <1>4, <1>5, <3>1, <3>2
  <2>3. CASE Binding!Registered(a)
    <3>1. Moves(Binding!ApplyProjection(peer, a), a)
      BY <1>1, AnswerMoves
    <3>2. peer' = Binding!ApplyProjection(peer, a) /\ UNCHANGED <<requests, keys>>
      BY <2>3 DEF Binding!Registered
    <3>3. Binding!ApplyProjection(peer, a).key = peer.key
      BY ProjectionInstalls DEF BindingInv, BindingTypes, Installs
    <3> QED
      BY <1>3, <3>1, <3>2, <3>3
  <2> QED
    BY <2>1, <2>2, <2>3 DEF Binding!Receive
<1> HIDE DEF a
<1> QED
  BY <1>2, <1>6, MovesAreBound DEF a

\* What the service does leaves the client alone and never goes back.
LEMMA ServiceIsBound ==
    ASSUME BindingInv, UNCHANGED <<peer, keys, latest>>, IsService(service'),
           service'.generation \in Nat, service.generation <= service'.generation,
           service'.key \in Nat, service'.key <= keys,
           \A r \in requests' : r \in requests \/ r.key = peer.key,
           \A b \in answers' : \/ b \in answers
                               \/ b.is.generation = service'.generation /\ b.is.key = service'.key
    PROVE  BindingInv'
<1>1. /\ latest \in Nat /\ peer.keyGeneration \in Nat /\ service.generation \in Nat
      /\ peer.key \in Nat /\ keys \in Nat /\ peer.key <= keys
      /\ \A b \in answers : b.is.generation \in Nat
  BY DEF BindingInv, BindingTypes, KeysAreDrawn
<1>2. AnswersFollow'
  BY <1>1 DEF BindingInv, AnswersFollow
<1>3. KeysAreDrawn'
  BY <1>1 DEF BindingInv, KeysAreDrawn
<1>4. BindingTypes'
  BY <1>1 DEF BindingInv, BindingTypes
<1> QED
  BY <1>2, <1>3, <1>4 DEF BindingInv, Binding!InstalledIsBound

\* Every step keeps the invariant, never goes back to an earlier generation and
\* leaves the replay state of a session it keeps.
LEMMA BindingStep ==
    ASSUME BindingInv, [Binding!Next]_Binding!vars
    PROVE  BindingInv' /\ (Binding!GenerationMovesOn /\ Binding!ProjectionKeepsReplay)
<1> DEFINE Goal == BindingInv' /\ (Binding!GenerationMovesOn /\ Binding!ProjectionKeepsReplay)
<1>1. /\ IsPeer(peer) /\ IsService(service) /\ keys \in Nat /\ peer.key \in Nat /\ peer.key <= keys
      /\ service.generation \in Nat /\ service.key \in Nat /\ service.key <= keys
      /\ peer.next \in Nat /\ peer.last \in Nat /\ latest \in Nat
  BY DEF BindingInv, BindingTypes, KeysAreDrawn
<1>2. ASSUME UNCHANGED peer, BindingInv' PROVE Goal
  BY <1>1, <1>2
  DEF BindingInv, AnswersFollow, Binding!GenerationMovesOn, Binding!ProjectionKeepsReplay
<1>3. ASSUME NEW s, IsService(s) PROVE Binding!Projection(s).generation = s.generation
                                       /\ Binding!Projection(s).key = s.key
  BY DEF Binding!Projection
<1>4. CASE Binding!Poll
  <2>1. ASSUME NEW b \in answers', b \notin answers
        PROVE  b.is.generation = service'.generation /\ b.is.key = service'.key
    BY <1>1, <1>3, <1>4, <2>1 DEF Binding!Poll, Binding!Answer
  <2>2. BindingInv' /\ UNCHANGED peer
    BY <1>1, <1>4, <2>1, ServiceIsBound DEF Binding!Poll
  <2> QED
    BY <1>2, <2>2
<1>5. CASE Binding!RosterChanges \/ Binding!OthersRegister
  <2>1. /\ IsService(service') /\ service'.generation = service.generation
        /\ service'.key = service.key
    BY <1>1, <1>5 DEF Binding!RosterChanges, Binding!OthersRegister, IsService
  <2>2. UNCHANGED <<requests, answers, peer, keys, latest>>
    BY <1>5 DEF Binding!RosterChanges, Binding!OthersRegister
  <2>3. BindingInv'
    BY <1>1, <2>1, <2>2, ServiceIsBound
  <2> QED
    BY <1>2, <2>2, <2>3
<1>6. CASE Binding!Restart \/ \E pressed \in BOOLEAN : Binding!StartLobby(pressed)
  <2>1. /\ IsService(service') /\ service'.generation = service.generation + 1
        /\ service'.key = 0
    BY <1>1, <1>6 DEF Binding!Restart, Binding!StartLobby, IsService, Binding!NoKey
  <2>2. /\ UNCHANGED <<requests, peer, keys, latest>>
        /\ \A b \in answers' : b \in answers \/ b = Binding!Answer("Started", service')
    BY <1>6 DEF Binding!Restart, Binding!StartLobby
  <2>3. ASSUME NEW b \in answers', b \notin answers
        PROVE  b.is.generation = service'.generation /\ b.is.key = service'.key
    BY <1>3, <2>1, <2>2, <2>3 DEF Binding!Answer
  <2>4. BindingInv'
    BY <1>1, <2>1, <2>2, <2>3, ServiceIsBound
  <2> QED
    BY <1>2, <2>2, <2>4
<1>7. ASSUME NEW r \in requests, Binding!RegisterEndpoint(r) PROVE Goal
  <2>1. r.key \in Nat /\ r.key <= keys
    BY DEF BindingInv, BindingTypes, KeysAreDrawn
  <2>2. /\ IsService(service') /\ service'.generation = service.generation
        /\ service'.key \in {service.key, r.key}
    BY <1>1, <1>7 DEF Binding!RegisterEndpoint, IsService
  <2>3. /\ UNCHANGED <<peer, keys, latest>> /\ requests' \subseteq requests
        /\ \A b \in answers' : b \in answers \/ b = Binding!Answer("Registered", service')
    BY <1>7 DEF Binding!RegisterEndpoint
  <2>4. ASSUME NEW b \in answers', b \notin answers
        PROVE  b.is.generation = service'.generation /\ b.is.key = service'.key
    BY <1>3, <2>2, <2>3, <2>4 DEF Binding!Answer
  <2>5. BindingInv'
    BY <1>1, <2>1, <2>2, <2>3, <2>4, ServiceIsBound
  <2> QED
    BY <1>2, <2>3, <2>5
<1>8. CASE Binding!Renew
  <2>1. UNCHANGED <<service, answers, latest, peer, keys>>
    BY <1>1, <1>8 DEF Binding!Renew, Binding!Send
  <2>2. \A r \in requests' : r \in requests \/ r.key = peer.key
    BY <1>8 DEF Binding!Renew, Binding!Send, Binding!Registers
  <2>3. BindingInv'
    BY <1>1, <2>1, <2>2, ServiceIsBound
  <2> QED
    BY <1>2, <2>1, <2>3
<1>9. CASE Binding!Exchange
  <2>1. /\ IsPeer(peer') /\ peer'.next = peer.next + 1 /\ peer'.last = peer.last + 1
        /\ peer'.key = peer.key /\ peer'.keyGeneration = peer.keyGeneration
        /\ peer'.session = peer.session /\ peer'.allowed = peer.allowed
    BY <1>1, <1>9 DEF Binding!Exchange, IsPeer
  <2>2. UNCHANGED <<service, requests, answers, keys, latest>>
    BY <1>9 DEF Binding!Exchange
  <2>3. BindingTypes' /\ KeysAreDrawn'
    BY <1>1, <2>1, <2>2 DEF BindingInv, BindingTypes, KeysAreDrawn
  <2>4. AnswersFollow' /\ Binding!InstalledIsBound'
    BY <1>1, <2>1, <2>2 DEF BindingInv, AnswersFollow, Binding!InstalledIsBound
  <2>5. Binding!GenerationMovesOn
    BY <1>1, <2>1 DEF BindingInv, AnswersFollow, Binding!GenerationMovesOn
  <2>6. Binding!ProjectionKeepsReplay
    BY <1>1, <2>1 DEF Binding!ProjectionKeepsReplay
  <2> QED
    BY <2>3, <2>4, <2>5, <2>6 DEF BindingInv
<1>10. ASSUME NEW b \in answers, Binding!Receive(b) PROVE Goal
  BY <1>10, ReceiveIsBound
<1>11. ASSUME UNCHANGED Binding!vars PROVE Goal
  <2>1. UNCHANGED <<service, requests, answers, peer, keys, latest>>
    BY <1>11 DEF Binding!vars
  <2>2. BindingInv'
    BY <1>1, <2>1, ServiceIsBound
  <2> QED
    BY <1>2, <2>1, <2>2
<1> QED
  BY <1>4, <1>5, <1>6, <1>7, <1>8, <1>9, <1>10, <1>11 DEF Binding!Next

\* However many answers are under way and however late they come, a session is
\* installed only for the key the client holds, never goes back to an earlier
\* generation, and is never restarted by a further projection of itself
\* (generate_session_key, configure_secure_session, _on_lobby_updated).
THEOREM SessionsStayBound == Binding!Spec => Binding!SessionsAreBound
<1>1. Binding!Init => BindingInv
  BY DEF Binding!Init, BindingInv, BindingTypes, KeysAreDrawn, AnswersFollow, IsPeer, IsService,
         Binding!InstalledIsBound, Binding!NoSession, Binding!NoKey
<1>2. BindingInv /\ [Binding!Next]_Binding!vars =>
         BindingInv' /\ [/\ Binding!InstalledIsBound' /\ Binding!GenerationMovesOn
                        /\ Binding!ProjectionKeepsReplay]_Binding!vars
  BY BindingStep DEF BindingInv
<1> QED
  BY <1>1, <1>2, PTL DEF Binding!Spec, Binding!SessionsAreBound

-----------------------------------------------------------------------------
(* The match: THEOREMS ReadinessIsElected, GenerationHasOneKey, EpochsMoveOn.  *)

\* What the fields of a connectivity report are.
Measurement ==
    [direct : Nat, relay : Nat, derp : Nat, observed : Nat, median : Nat, worst : Nat,
     jitter : Nat, loss : Nat, upload : Nat, device : Nat]

\* Ids are numbers and 0 is nobody's.
MatchBounds ==
    /\ Player \subseteq Nat \ {0} /\ IsFiniteSet(Player)
    /\ Formed \subseteq SUBSET Player /\ Sample \subseteq Measurement

LEMMA SameCardinality == \A S : Match!Cardinality(S) = Cardinality(S)
BY DEF Match!Cardinality, Cardinality

\* Of finitely many players with a score each one has the highest score, and of those
\* the smallest id.
LEMMA GreatestExists ==
    ASSUME NEW S \in SUBSET Nat, IsFiniteSet(S), S # {}, NEW score \in [S -> Int]
    PROVE  \E p \in S : \A q \in S :
              p = q \/ score[p] > score[q] \/ (score[p] = score[q] /\ p < q)
<1>1. PICK n \in Nat : ExistsSurjection(1..n, S)
  BY FS_NatSurjection
<1>2. PICK f \in [1..n -> S] : \A p \in S : \E i \in 1..n : f[i] = p
  BY <1>1 DEF ExistsSurjection, Surjection
<1> DEFINE Ahead(p, q) == p = q \/ score[p] > score[q] \/ (score[p] = score[q] /\ p < q)
           Led(k) == \E i \in 1..k : \A j \in 1..k : Ahead(f[i], f[j])
           R == {ss \in Nat \X Nat : ss[1] < ss[2]}
           T == {k \in 1..n : ~Led(k)}
<1>3. \A p, q, r \in S : Ahead(p, q) /\ Ahead(q, r) => Ahead(p, r)
  OBVIOUS
<1>4. \A p, q \in S : Ahead(p, q) \/ Ahead(q, p)
  OBVIOUS
<1>5. \A p \in S : Ahead(p, p)
  OBVIOUS
<1> HIDE DEF Ahead
<1>6. CASE T = {}
  <2>1. n \in 1..n
    <3>1. 1..n # {}
      BY <1>2
    <3> QED
      BY <3>1
  <2>2. PICK i \in 1..n : \A j \in 1..n : Ahead(f[i], f[j])
    BY <1>6, <2>1
  <2>3. f[i] \in S /\ \A q \in S : Ahead(f[i], q)
    BY <1>2, <2>2
  <2> QED
    BY <2>3 DEF Ahead
<1>7. CASE T # {}
  <2>1. IsWellFoundedOn(R, Nat)
    BY NatLessThanWellFounded DEF OpToRel
  <2>2. PICK k \in T : \A i \in T : <<i, k>> \notin R
    <3> HIDE DEF R, T
    <3>1. T \subseteq Nat
      BY DEF T
    <3> QED
      BY <1>7, <2>1, <3>1, WFMin
  <2>3. k \in 1..n /\ ~Led(k)
    BY <2>2
  <2>4. k # 1
    <3>1. 1 \in 1..1 /\ \A j \in 1..1 : j = 1
      OBVIOUS
    <3>2. 1 \in 1..n => Ahead(f[1], f[1])
      BY <1>2, <1>5
    <3> QED
      BY <2>3, <3>1, <3>2
  <2>5. k - 1 \in 1..n /\ k - 1 \in Nat /\ k \in Nat
    BY <2>3, <2>4
  <2>6. Led(k - 1)
    <3>1. <<k - 1, k>> \in R
      BY <2>5
    <3>2. k - 1 \notin T
      BY <2>2, <3>1
    <3> QED
      BY <2>5, <3>2
  <2>7. PICK i \in 1..(k - 1) : \A j \in 1..(k - 1) : Ahead(f[i], f[j])
    BY <2>6
  <2>8. i \in 1..k /\ f[i] \in S /\ f[k] \in S
    BY <1>2, <2>3, <2>5, <2>7
  <2>9. CASE Ahead(f[i], f[k])
    <3>1. \A j \in 1..k : Ahead(f[i], f[j])
      BY <2>5, <2>7, <2>9
    <3> QED
      BY <2>3, <2>8, <3>1
  <2>10. CASE Ahead(f[k], f[i])
    <3>1. ASSUME NEW j \in 1..k PROVE Ahead(f[k], f[j])
      <4>1. CASE j = k
        BY <1>5, <2>8, <4>1
      <4>2. CASE j \in 1..(k - 1)
        <5>1. Ahead(f[i], f[j]) /\ f[j] \in S
          BY <1>2, <2>3, <2>5, <2>7, <4>2
        <5> QED
          BY <1>3, <2>8, <2>10, <5>1
      <4> QED
        BY <2>5, <4>1, <4>2
    <3>2. k \in 1..k
      BY <2>5, <2>3
    <3> QED
      BY <2>3, <3>1, <3>2
  <2> QED
    BY <1>4, <2>8, <2>9, <2>10
<1> QED
  BY <1>6, <1>7

LEMMA ScoresAreNumbers ==
    ASSUME NEW s \in Measurement, NEW peers \in Nat, peers > 0
    PROVE  Match!ScoreMeasurement(s, peers) \in Int
<1>1. \A v, m \in Nat : m > 0 =>
         Match!NormalizePositive(v, m) \in Int /\ Match!NormalizeInverse(v, m) \in Int
  BY DEF Match!NormalizePositive, Match!NormalizeInverse, Match!AtMost
<1>2. \A v, w \in Nat : Match!RelayPenalty(v, w, peers) \in Int
  BY DEF Match!RelayPenalty, Match!AtMost
<1>3. \A v, w \in Nat : Match!AtMost(v, w) \in Int
  BY DEF Match!AtMost
<1>4. /\ s.direct \in Nat /\ s.median \in Nat /\ s.worst \in Nat /\ s.jitter \in Nat
      /\ s.loss \in Nat /\ s.upload \in Nat /\ s.device \in Nat /\ s.derp \in Nat
      /\ s.relay \in Nat
  BY DEF Measurement
<1> DEFINE a == Match!NormalizePositive(s.direct, peers)
           b == Match!NormalizeInverse(s.median, 200)
           c == Match!NormalizeInverse(s.worst, 400)
           d == Match!NormalizeInverse(s.jitter, 50)
           e == Match!NormalizeInverse(s.loss, 10000)
           f == Match!NormalizePositive(s.upload, 20)
           g == Match!AtMost(s.device, 1000)
           x == Match!RelayPenalty(s.derp, 300, peers)
           y == Match!RelayPenalty(s.relay, 150, peers)
<1>5. /\ a \in Int /\ b \in Int /\ c \in Int /\ d \in Int /\ e \in Int /\ f \in Int
      /\ g \in Int /\ x \in Int /\ y \in Int
  BY <1>1, <1>2, <1>3, <1>4
<1>6. Match!ScoreMeasurement(s, peers) =
        Match!AtLeast(((270 * a + 230 * b + 140 * c + 90 * d + 90 * e + 90 * f + 90 * g) \div 1000)
                      - x - y, 0)
  BY DEF Match!ScoreMeasurement
<1> HIDE DEF a, b, c, d, e, f, g, x, y
<1> QED
  BY <1>5, <1>6 DEF Match!AtLeast

\* An election over rows that can all be scored has a winner among them.
LEMMA WinnerIsCandidate ==
    ASSUME NEW S \in SUBSET Nat, IsFiniteSet(S), S # {}, NEW size \in Nat, size >= 2,
           NEW m, DOMAIN m = S, NEW major,
           \A p \in S : /\ m[p].sample \in Measurement /\ m[p].fresh
                       /\ Match!ValidateForRoster(m[p].sample, size)
    PROVE  Match!Winner(m, major, size) \in S
<1> DEFINE scored == Match!Scored(m, size)
           eligible == Match!NormallyEligible(m, major, size)
           players == IF eligible = {} THEN scored ELSE eligible
<1>1. scored = S
  BY DEF Match!Scored
<1>2. players \subseteq S /\ players # {}
  BY <1>1 DEF Match!NormallyEligible
<1>3. IsFiniteSet(players)
  BY <1>2, FS_Subset
<1> HIDE DEF players
<1> DEFINE score == [p \in players |-> Match!ScoreMeasurement(m[p].sample, size - 1)]
<1>4. score \in [players -> Int]
  BY <1>2, ScoresAreNumbers
<1>5. players \in SUBSET Nat
  BY <1>2
<1>6. PICK p \in players : \A q \in players :
         p = q \/ score[p] > score[q] \/ (score[p] = score[q] /\ p < q)
  <2> HIDE DEF score
  <2> QED
    BY <1>2, <1>3, <1>4, <1>5, GreatestExists
<1>7. \A q \in players \ {p} : Match!Precedes(m, size, p, q)
  BY <1>6 DEF Match!Precedes
<1>8. Match!Best(m, size, players) \in players
  BY <1>7 DEF Match!Best
<1> QED
  BY <1>2, <1>8 DEF Match!Winner, players

-----------------------------------------------------------------------------
IsLobby(l) ==
    l = [state |-> l.state, roster |-> l.roster, revision |-> l.revision, reports |-> l.reports,
         measured |-> l.measured, fresh |-> l.fresh, settled |-> l.settled,
         election |-> l.election, locked |-> l.locked, epoch |-> l.epoch,
         generation |-> l.generation, silent |-> l.silent, received |-> l.received]

\* The shape and the numbers of a record.
Shaped(l) ==
    /\ IsLobby(l) /\ l.roster \subseteq Player /\ l.reports \in [Player -> Measurement]
    /\ l.epoch \in Nat /\ l.generation \in Nat /\ l.revision \in Nat \ {0}

\* Every report held is one of this roster, so it can be scored.
Scorable(l) ==
    \A p \in l.roster \cap l.measured :
        Match!ValidateForRoster(l.reports[p], Cardinality(l.roster))

\* An election covers the roster and the reports held.
Covers(e, l) ==
    /\ e.winner \in l.roster /\ DOMAIN e.matrix = l.roster /\ l.roster \subseteq l.measured
    /\ \A p \in l.roster : e.matrix[p].sample = l.reports[p]

\* Whoever rides in a match, its authority too, was a candidate at its start.
Locked(l) ==
    /\ l.roster \subseteq DOMAIN l.locked.matrix
    /\ l.election # Match!NoElection => l.election.winner \in DOMAIN l.locked.matrix

Fit(l) ==
    /\ Shaped(l) /\ Scorable(l)
    /\ l.election # Match!NoElection => l.election.winner \in l.roster
    /\ l.state = "Ready" => Covers(l.election, l)
    /\ l.state \in {"Starting", "InMatch"} => Locked(l)
    /\ l.generation > 0 => l.state \in {"Starting", "InMatch", "Closed"}

\* The record of the last election is the one installed.
Reigns ==
    /\ reign = [epoch |-> reign.epoch, election |-> reign.election]
    /\ reign.epoch \in Nat /\ reign.epoch <= lobby.epoch
    /\ lobby.election # Match!NoElection =>
          reign.epoch = lobby.epoch /\ reign.election = lobby.election

\* What is signed for the current generation is signed with the key held, unless a
\* restart could not move the match on; once a lobby is deleted that key is gone, and
\* nothing can be signed any more.
SignedOnce ==
    /\ \A m \in manifests : m.generation \in Nat /\ 0 < m.generation
                            /\ m.generation <= lobby.generation
    /\ Match!OneKeyPerGeneration
    /\ \/ lobby.generation \in unmoved
       \/ \A m \in manifests : m.generation = lobby.generation => m.key = key
       \/ lobby.state = "Closed" /\ endpoints = Match!NoEndpoints

MatchInv == Fit(lobby) /\ Reigns /\ SignedOnce

\* The fields that withdrawing or holding an election leaves alone.
Alike(l, n) ==
    /\ n.roster = l.roster /\ n.revision = l.revision /\ n.reports = l.reports
    /\ n.measured = l.measured /\ n.fresh = l.fresh /\ n.settled = l.settled
    /\ n.locked = l.locked /\ n.generation = l.generation /\ n.silent = l.silent

LEMMA AlikeIsShaped ==
    ASSUME NEW l, Shaped(l), Scorable(l), NEW n, IsLobby(n), Alike(l, n), n.epoch \in Nat
    PROVE  Shaped(n) /\ Scorable(n)
BY DEF Shaped, Scorable, Alike

LEMMA UnelectedIs ==
    ASSUME NEW l, IsLobby(l), NEW n, n = Match!Unelected(l)
    PROVE  /\ IsLobby(n) /\ Alike(l, n) /\ n.state = l.state /\ n.epoch = l.epoch
           /\ n.election = Match!NoElection
BY DEF IsLobby, Match!Unelected, Alike

LEMMA UnreadyIs ==
    ASSUME NEW l, IsLobby(l), NEW n, n = Match!Unready(l)
    PROVE  /\ IsLobby(n) /\ Alike(l, n) /\ n.epoch = l.epoch /\ n.election = l.election
           /\ n.received = l.received
           /\ n.state = IF l.state = "Ready" THEN "Forming" ELSE l.state
BY DEF IsLobby, Match!Unready, Alike

\* Maintenance withdraws the election of a lobby that is ready no more.
LEMMA MaintainedFits ==
    ASSUME NEW l, Fit(l), NEW n, n = Match!Maintained(l)
    PROVE  /\ Fit(n) /\ Alike(l, n) /\ n.epoch = l.epoch
           /\ n.election \in {l.election, Match!NoElection}
           /\ \/ n.state = l.state
              \/ l.state = "Ready" /\ n.state = "Forming"
           /\ n.state = "Ready" => Match!AllMeasurementsFresh(n)
<1>1. CASE n = l /\ (l.state = "Ready" => Match!AllMeasurementsFresh(l))
  BY <1>1 DEF Alike
<1>2. CASE l.state = "Ready" /\ n = [Match!Unelected(l) EXCEPT !.state = "Forming"]
  <2>1. IsLobby(Match!Unelected(l)) /\ Alike(l, Match!Unelected(l))
        /\ Match!Unelected(l).epoch = l.epoch /\ Match!Unelected(l).election = Match!NoElection
    BY UnelectedIs DEF Fit, Shaped
  <2>2. /\ IsLobby(n) /\ Alike(l, n) /\ n.epoch = l.epoch /\ n.election = Match!NoElection
        /\ n.state = "Forming"
    BY <1>2, <2>1 DEF IsLobby, Alike
  <2>3. Shaped(n) /\ Scorable(n)
    BY <2>2, AlikeIsShaped DEF Fit, Shaped
  <2> QED
    BY <1>2, <2>2, <2>3 DEF Fit, Alike
<1> QED
  BY <1>1, <1>2 DEF Match!Maintained

\* apply_election
LEMMA Applied ==
    ASSUME NEW l, Shaped(l), NEW e, e # Match!NoElection, NEW n, n = Match!ApplyElection(l, e)
    PROVE  /\ IsLobby(n) /\ Alike(l, n) /\ n.election = e
           /\ n.epoch = IF l.election = e THEN l.epoch ELSE l.epoch + 1
           /\ n.state = IF l.state = "Forming" /\ Match!AllMeasurementsFresh(l) THEN "Ready"
                        ELSE l.state
<1> DEFINE x == IF l.election = Match!NoElection \/ l.election # e THEN l.epoch + 1 ELSE l.epoch
           j == [l EXCEPT !.election = e]
           i == [j EXCEPT !.epoch = x]
<1>1. /\ IsLobby(i) /\ Alike(l, i) /\ i.election = e /\ i.state = l.state
      /\ i.epoch = IF l.election = e THEN l.epoch ELSE l.epoch + 1
  <2>1. x = IF l.election = e THEN l.epoch ELSE l.epoch + 1
    OBVIOUS
  <2> HIDE DEF x
  <2>2. IsLobby(j) /\ Alike(l, j) /\ j.election = e /\ j.state = l.state
    BY DEF Shaped, IsLobby, Alike
  <2> HIDE DEF j
  <2>3. IsLobby(i) /\ Alike(l, i) /\ i.election = e /\ i.state = l.state /\ i.epoch = x
    BY <2>2 DEF IsLobby, Alike
  <2> QED
    BY <2>1, <2>3
<1>2. n = IF l.state = "Forming" /\ Match!AllMeasurementsFresh(l)
          THEN [i EXCEPT !.state = "Ready"] ELSE i
  BY DEF Match!ApplyElection
<1> HIDE DEF i
<1> QED
  BY <1>1, <1>2 DEF IsLobby, Alike

\* recompute_authority withdraws the election or installs one over exactly the roster
\* and the reports held.
LEMMA Recomputed ==
    ASSUME MatchBounds, NEW l, Shaped(l), Scorable(l), NEW n, n = Match!RecomputeAuthority(l)
    PROVE  /\ Shaped(n) /\ Scorable(n) /\ Alike(l, n)
           /\ \/ /\ n.election = Match!NoElection /\ n.state = l.state /\ n.epoch = l.epoch
                 /\ ~Match!AllMeasurementsFresh(l)
              \/ /\ n.election # Match!NoElection /\ Covers(n.election, n)
                 /\ n.epoch = IF l.election = n.election THEN l.epoch ELSE l.epoch + 1
                 /\ n.state = IF l.state = "Forming" THEN "Ready" ELSE l.state
<1>1. CASE ~Match!AllMeasurementsFresh(l)
  <2>1. n = Match!Unelected(l)
    BY <1>1 DEF Match!RecomputeAuthority
  <2>2. /\ IsLobby(n) /\ Alike(l, n) /\ n.state = l.state /\ n.epoch = l.epoch
        /\ n.election = Match!NoElection
    BY <2>1, UnelectedIs DEF Shaped
  <2> QED
    BY <1>1, <2>2, AlikeIsShaped DEF Shaped
<1>2. CASE Match!AllMeasurementsFresh(l)
  <2> DEFINE size == Cardinality(l.roster)
             m == Match!Matrix(l)
             e == [winner |-> Match!Winner(m, ServiceMajor, size), matrix |-> m,
                   at |-> l.received]
  <2>1. n = Match!ApplyElection(l, e)
    BY <1>2, SameCardinality DEF Match!RecomputeAuthority
  <2>2. IsFiniteSet(l.roster) /\ size \in Nat /\ l.roster \in SUBSET Nat /\ size >= 2
    <3>1. IsFiniteSet(l.roster) /\ l.roster \in SUBSET Nat
      BY FS_Subset DEF Shaped, MatchBounds
    <3>2. size \in Nat
      BY <3>1, FS_CardinalityType
    <3> QED
      BY <1>2, <3>1, <3>2, SameCardinality DEF Match!AllMeasurementsFresh
  <2>3. l.roster # {}
    BY <2>2, FS_EmptySet
  <2>4. DOMAIN m = l.roster /\ \A p \in l.roster : m[p].sample = l.reports[p]
                                                  /\ m[p].fresh = (p \in l.fresh)
    BY DEF Match!Matrix
  <2>5. l.roster \subseteq l.measured /\ l.roster \subseteq l.fresh
    BY <1>2 DEF Match!AllMeasurementsFresh
  <2>6. \A p \in l.roster : /\ m[p].sample \in Measurement /\ m[p].fresh
                            /\ Match!ValidateForRoster(m[p].sample, size)
    BY <2>4, <2>5 DEF Shaped, Scorable
  <2>7. Match!Winner(m, ServiceMajor, size) \in l.roster
    <3> HIDE DEF m, size
    <3> QED
      BY <2>2, <2>3, <2>4, <2>6, WinnerIsCandidate
  <2>8. e.winner \in l.roster /\ e.matrix = m
    BY <2>7
  <2> HIDE DEF e, m
  <2>9. e # Match!NoElection
    <3>1. e.winner # 0
      BY <2>8 DEF MatchBounds, Shaped
    <3> QED
      BY <3>1 DEF Match!NoElection
  <2>10. /\ IsLobby(n) /\ Alike(l, n) /\ n.election = e
         /\ n.epoch = IF l.election = e THEN l.epoch ELSE l.epoch + 1
         /\ n.state = IF l.state = "Forming" THEN "Ready" ELSE l.state
    BY <1>2, <2>1, <2>9, Applied
  <2>11. n.epoch \in Nat
    BY <2>10 DEF Shaped
  <2>12. Shaped(n) /\ Scorable(n)
    BY <2>10, <2>11, AlikeIsShaped
  <2>13. Covers(e, n)
    BY <2>4, <2>5, <2>8, <2>10 DEF Covers, Alike
  <2> QED
    BY <2>9, <2>10, <2>12, <2>13
<1> QED
  BY <1>1, <1>2

\* What a request may make of the record: the election stays, is withdrawn or gives
\* way to one of the next epoch, and in a match only after a silence.
Advances(l, n) ==
    /\ Fit(n) /\ n.generation = l.generation /\ (l.state = "Closed" => n.state = "Closed")
    /\ \/ n.epoch = l.epoch /\ n.election \in {l.election, Match!NoElection}
       \/ /\ n.epoch = l.epoch + 1 /\ n.election # Match!NoElection
          /\ l.state = "InMatch" /\ n.state = "InMatch" => l.silent

LEMMA ReignMovesOn ==
    ASSUME MatchInv, Advances(lobby, lobby'),
           \/ UNCHANGED reign /\ lobby'.epoch = lobby.epoch
           \/ reign' = IF lobby'.election = Match!NoElection THEN reign
                       ELSE [epoch |-> lobby'.epoch, election |-> lobby'.election]
    PROVE  Reigns' /\ Match!EpochNamesOneElection /\ Match!SuccessionAfterSilence
<1>1. /\ lobby.epoch \in Nat /\ lobby'.epoch \in Nat /\ reign.epoch \in Nat
      /\ reign.epoch <= lobby.epoch
      /\ reign = [epoch |-> reign.epoch, election |-> reign.election]
  BY DEF MatchInv, Fit, Shaped, Reigns, Advances
<1>2. Match!SuccessionAfterSilence
  <2>1. lobby'.election = Match!NoElection => lobby'.election.winner = 0
    BY DEF Match!NoElection
  <2>2. lobby'.election # Match!NoElection => lobby'.election.winner \in lobby'.roster
    BY DEF Advances, Fit
  <2> QED
    BY <2>1, <2>2 DEF Advances, Match!SuccessionAfterSilence
<1>3. CASE lobby'.epoch = lobby.epoch /\ lobby'.election \in {lobby.election, Match!NoElection}
  <2>1. UNCHANGED reign
    BY <1>1, <1>3 DEF MatchInv, Reigns
  <2> QED
    BY <1>1, <1>2, <1>3, <2>1 DEF MatchInv, Reigns, Match!EpochNamesOneElection
<1>4. CASE lobby'.epoch = lobby.epoch + 1 /\ lobby'.election # Match!NoElection
  <2>1. reign' = [epoch |-> lobby'.epoch, election |-> lobby'.election]
    BY <1>1, <1>4
  <2> QED
    BY <1>1, <1>2, <1>4, <2>1 DEF Reigns, Match!EpochNamesOneElection
<1> QED
  BY <1>3, <1>4 DEF Advances

LEMMA SigningIsOnce ==
    ASSUME MatchInv, Advances(lobby, lobby'), UNCHANGED <<key, unmoved>>,
           manifests' = manifests \/ (Match!Signed(lobby', endpoints') /\ lobby'.revision > 0),
           endpoints' \in {endpoints, Match!NoEndpoints} \/ lobby.state # "Closed",
           lobby'.roster \subseteq Player
    PROVE  SignedOnce'
<1>1. lobby'.generation = lobby.generation /\ lobby.generation \in Nat
  BY DEF Advances, MatchInv, Fit, Shaped
<1>2. CASE manifests' = manifests
  BY <1>1, <1>2 DEF MatchInv, SignedOnce, Advances, Match!OneKeyPerGeneration
<1>3. CASE /\ manifests' = manifests \cup {[generation |-> lobby'.generation, key |-> key]}
           /\ Match!Secure(lobby', endpoints') /\ lobby'.generation > 0 /\ lobby'.revision > 0
  <2>1. endpoints' # Match!NoEndpoints
    <3>1. ASSUME endpoints' = Match!NoEndpoints PROVE FALSE
      <4>1. PICK p \in lobby'.roster : endpoints'[p] = lobby'.revision
        BY <1>3 DEF Match!Secure, Match!Projected
      <4>2. endpoints'[p] = 0
        BY <3>1 DEF Match!NoEndpoints
      <4> QED
        BY <1>3, <4>1, <4>2
    <3> QED
      BY <3>1
  <2>2. \/ lobby.generation \in unmoved
        \/ \A m \in manifests : m.generation = lobby.generation => m.key = key
    BY <2>1 DEF MatchInv, SignedOnce
  <2>3. \A m \in manifests' : m \in manifests \/ (m.generation = lobby'.generation /\ m.key = key)
    BY <1>3
  <2> QED
    BY <1>1, <1>3, <2>2, <2>3 DEF MatchInv, SignedOnce, Match!OneKeyPerGeneration
<1> QED
  BY <1>2, <1>3 DEF Match!Signed

\* The handlers that leave the generation and the key alone.
LEMMA AdvanceKeepsMatch ==
    ASSUME MatchInv, Advances(lobby, lobby'), UNCHANGED <<key, unmoved>>,
           \/ UNCHANGED reign /\ lobby'.epoch = lobby.epoch
           \/ Match!Recorded(lobby'),
           manifests' = manifests \/ Match!Signed(lobby', endpoints'),
           endpoints' \in {endpoints, Match!NoEndpoints} \/ lobby.state # "Closed"
    PROVE  MatchInv' /\ Match!EpochNamesOneElection /\ Match!SuccessionAfterSilence
<1>1. Reigns' /\ Match!EpochNamesOneElection /\ Match!SuccessionAfterSilence
  BY ReignMovesOn DEF Match!Recorded
<1>2. lobby'.revision > 0 /\ lobby'.roster \subseteq Player
  BY DEF Advances, Fit, Shaped
<1>3. SignedOnce'
  BY <1>2, SigningIsOnce
<1> QED
  BY <1>1, <1>3 DEF MatchInv, Advances

\* A lobby whose election is withdrawn and that is not ready any more.
LEMMA WithdrawnIs ==
    ASSUME NEW l, Fit(l), NEW u, u = Match!Unelected(Match!Unready(l))
    PROVE  /\ IsLobby(u) /\ Alike(l, u) /\ u.epoch = l.epoch /\ u.election = Match!NoElection
           /\ u.state = IF l.state = "Ready" THEN "Forming" ELSE l.state
<1> DEFINE r == Match!Unready(l)
<1>1. /\ IsLobby(r) /\ Alike(l, r) /\ r.epoch = l.epoch
      /\ r.state = IF l.state = "Ready" THEN "Forming" ELSE l.state
  BY UnreadyIs DEF Fit, Shaped
<1>2. u = Match!Unelected(r)
  OBVIOUS
<1> HIDE DEF r
<1>3. /\ IsLobby(u) /\ Alike(r, u) /\ u.epoch = r.epoch /\ u.election = Match!NoElection
      /\ u.state = r.state
  BY <1>1, <1>2, UnelectedIs
<1> QED
  BY <1>1, <1>3 DEF Alike

\* A record without an election fits as soon as its reports do.
LEMMA FormingFits ==
    ASSUME NEW l, Fit(l), NEW n, IsLobby(n), n.roster \subseteq Player, n.reports = l.reports,
           n.revision \in Nat \ {0}, n.epoch = l.epoch, n.generation = l.generation,
           n.election = Match!NoElection, n.locked = l.locked, Scorable(n),
           \/ n.state = "Forming" /\ l.state \in {"Forming", "Ready"}
           \/ n.state = l.state /\ l.state \in {"Forming", "InMatch"} /\ n.roster \subseteq l.roster
    PROVE  Advances(l, n)
<1>1. Shaped(n)
  BY DEF Fit, Shaped
<1>2. n.state \in {"Starting", "InMatch"} => Locked(n)
  BY DEF Fit, Locked
<1>3. n.generation > 0 => n.state \in {"Starting", "InMatch", "Closed"}
  BY DEF Fit
<1>4. Fit(n)
  BY <1>1, <1>2, <1>3 DEF Fit
<1> QED
  BY <1>4 DEF Advances

LEMMA JoinAdvances ==
    ASSUME MatchInv, MatchBounds, NEW p \in Player, Match!Join(p)
    PROVE  Advances(lobby, lobby') /\ lobby'.epoch = lobby.epoch
<1> DEFINE l == Match!Maintained(lobby)
           u == Match!Unelected(Match!Unready(l))
<1>1. /\ Fit(l) /\ Alike(lobby, l) /\ l.epoch = lobby.epoch
      /\ l.state = lobby.state \/ (lobby.state = "Ready" /\ l.state = "Forming")
  BY MaintainedFits DEF MatchInv
<1>2. /\ IsLobby(u) /\ Alike(l, u) /\ u.epoch = l.epoch /\ u.election = Match!NoElection
      /\ u.state = IF l.state = "Ready" THEN "Forming" ELSE l.state
  BY <1>1, WithdrawnIs
<1>3. l.state \in {"Forming", "Ready"}
  BY DEF Match!Join
<1>4. \/ lobby' = [Match!RosterChanged(l) EXCEPT !.roster = @ \cup {p}, !.settled = @ \ {p}]
      \/ lobby' = [u EXCEPT !.measured = @ \ {p}, !.fresh = @ \ {p}]
  BY DEF Match!Join
<1>5. lobby.revision \in Nat \ {0} /\ lobby.roster \subseteq Player
  BY DEF MatchInv, Fit, Shaped
<1>6. Match!RosterChanged(l) = [u EXCEPT !.revision = @ + 1, !.measured = {}, !.fresh = {}]
  BY DEF Match!RosterChanged
<1> HIDE DEF l, u
<1>7. CASE lobby' = [Match!RosterChanged(l) EXCEPT !.roster = @ \cup {p}, !.settled = @ \ {p}]
  <2> DEFINE b == [u EXCEPT !.revision = @ + 1]
             d == [b EXCEPT !.measured = {}]
             c == [d EXCEPT !.fresh = {}]
  <2>1. /\ IsLobby(b) /\ b.revision = lobby.revision + 1
        /\ b.roster = lobby.roster /\ b.reports = lobby.reports /\ b.locked = lobby.locked
        /\ b.generation = lobby.generation /\ b.epoch = lobby.epoch
        /\ b.election = Match!NoElection /\ b.state = "Forming"
    BY <1>1, <1>2, <1>3 DEF IsLobby, Alike
  <2>2. lobby' = [c EXCEPT !.roster = @ \cup {p}, !.settled = @ \ {p}]
    BY <1>6, <1>7
  <2> HIDE DEF b
  <2>3. /\ IsLobby(c) /\ c.revision = lobby.revision + 1 /\ c.measured = {}
        /\ c.roster = lobby.roster /\ c.reports = lobby.reports /\ c.locked = lobby.locked
        /\ c.generation = lobby.generation /\ c.epoch = lobby.epoch
        /\ c.election = Match!NoElection /\ c.state = "Forming"
    <3>1. /\ IsLobby(d) /\ d.revision = b.revision /\ d.measured = {} /\ d.roster = b.roster
          /\ d.reports = b.reports /\ d.locked = b.locked /\ d.generation = b.generation
          /\ d.epoch = b.epoch /\ d.election = b.election /\ d.state = b.state
      BY <2>1 DEF IsLobby
    <3> HIDE DEF d
    <3>2. /\ IsLobby(c) /\ c.revision = d.revision /\ c.measured = {} /\ c.roster = d.roster
          /\ c.reports = d.reports /\ c.locked = d.locked /\ c.generation = d.generation
          /\ c.epoch = d.epoch /\ c.election = d.election /\ c.state = d.state
      BY <3>1 DEF IsLobby
    <3> QED
      BY <2>1, <3>1, <3>2
  <2> HIDE DEF c
  <2>4. /\ IsLobby(lobby') /\ lobby'.revision = lobby.revision + 1 /\ lobby'.measured = {}
        /\ lobby'.roster = lobby.roster \cup {p} /\ lobby'.reports = lobby.reports
        /\ lobby'.locked = lobby.locked /\ lobby'.generation = lobby.generation
        /\ lobby'.epoch = lobby.epoch /\ lobby'.election = Match!NoElection
        /\ lobby'.state = "Forming"
    BY <2>2, <2>3 DEF IsLobby
  <2>5. Scorable(lobby') /\ lobby'.revision \in Nat \ {0} /\ lobby'.roster \subseteq Player
    BY <1>5, <2>4 DEF Scorable
  <2> QED
    BY <1>1, <1>3, <2>4, <2>5, FormingFits DEF MatchInv
<1>8. CASE lobby' = [u EXCEPT !.measured = @ \ {p}, !.fresh = @ \ {p}]
  <2>1. /\ IsLobby(lobby') /\ lobby'.revision = lobby.revision
        /\ lobby'.measured \subseteq lobby.measured
        /\ lobby'.roster = lobby.roster /\ lobby'.reports = lobby.reports
        /\ lobby'.locked = lobby.locked /\ lobby'.generation = lobby.generation
        /\ lobby'.epoch = lobby.epoch /\ lobby'.election = Match!NoElection
        /\ lobby'.state = "Forming"
    BY <1>1, <1>2, <1>3, <1>8 DEF IsLobby, Alike
  <2>2. Scorable(lobby')
    BY <2>1 DEF MatchInv, Fit, Scorable
  <2> QED
    BY <1>1, <1>3, <1>5, <2>1, <2>2, FormingFits DEF MatchInv
<1> QED
  BY <1>4, <1>7, <1>8

LEMMA LeaveAdvances ==
    ASSUME MatchInv, NEW p \in Player, Match!Leave(p)
    PROVE  Advances(lobby, lobby') /\ lobby'.epoch = lobby.epoch
<1> DEFINE l == Match!Maintained(lobby)
           u == Match!Unelected(Match!Unready(l))
<1>1. /\ Fit(l) /\ Alike(lobby, l) /\ l.epoch = lobby.epoch
      /\ l.state = lobby.state \/ (lobby.state = "Ready" /\ l.state = "Forming")
  BY MaintainedFits DEF MatchInv
<1>2. /\ IsLobby(u) /\ Alike(l, u) /\ u.epoch = l.epoch /\ u.election = Match!NoElection
      /\ u.state = IF l.state = "Ready" THEN "Forming" ELSE l.state
  BY <1>1, WithdrawnIs
<1>3. l.state \in {"Forming", "Ready", "InMatch"}
  BY DEF Match!Leave
<1>4. lobby' = [u EXCEPT !.roster = @ \ {p}, !.revision = @ + 1, !.measured = {}, !.fresh = {}]
  BY DEF Match!Leave
<1>5. lobby.revision \in Nat \ {0} /\ lobby.roster \subseteq Player
  BY DEF MatchInv, Fit, Shaped
<1> HIDE DEF l, u
<1> DEFINE b == [u EXCEPT !.roster = @ \ {p}]
           c == [b EXCEPT !.revision = @ + 1]
<1>6. /\ IsLobby(c) /\ c.revision = lobby.revision + 1
      /\ c.roster = lobby.roster \ {p} /\ c.reports = lobby.reports /\ c.locked = lobby.locked
      /\ c.generation = lobby.generation /\ c.epoch = lobby.epoch
      /\ c.election = Match!NoElection /\ c.state = u.state
  <2>1. /\ IsLobby(b) /\ b.revision = lobby.revision
        /\ b.roster = lobby.roster \ {p} /\ b.reports = lobby.reports /\ b.locked = lobby.locked
        /\ b.generation = lobby.generation /\ b.epoch = lobby.epoch
        /\ b.election = Match!NoElection /\ b.state = u.state
    BY <1>1, <1>2 DEF IsLobby, Alike
  <2> HIDE DEF b
  <2> QED
    BY <2>1 DEF IsLobby
<1>7. lobby' = [c EXCEPT !.measured = {}, !.fresh = {}]
  BY <1>4
<1> HIDE DEF c
<1>8. /\ IsLobby(lobby') /\ lobby'.revision = lobby.revision + 1 /\ lobby'.measured = {}
      /\ lobby'.roster = lobby.roster \ {p} /\ lobby'.reports = lobby.reports
      /\ lobby'.locked = lobby.locked /\ lobby'.generation = lobby.generation
      /\ lobby'.epoch = lobby.epoch /\ lobby'.election = Match!NoElection
      /\ lobby'.state = u.state
  BY <1>6, <1>7 DEF IsLobby
<1>9. /\ Scorable(lobby') /\ lobby'.revision \in Nat \ {0}
      /\ lobby'.roster \subseteq Player /\ lobby'.roster \subseteq lobby.roster
  BY <1>5, <1>8 DEF Scorable
<1> QED
  BY <1>1, <1>2, <1>3, <1>8, <1>9, FormingFits DEF MatchInv

LEMMA SubmitAdvances ==
    ASSUME MatchInv, MatchBounds, NEW p \in Player, NEW x \in Sample, Match!SubmitMeasurements(p, x)
    PROVE  Advances(lobby, lobby')
<1> DEFINE l == Match!Maintained(lobby)
           u == Match!Unready(l)
           v == [u EXCEPT !.reports[p] = x]
           y == [v EXCEPT !.measured = @ \cup {p}]
           w == [y EXCEPT !.fresh = @ \cup {p}]
           saved == [w EXCEPT !.received = @ + 1]
<1>1. /\ Fit(l) /\ Alike(lobby, l) /\ l.epoch = lobby.epoch
      /\ l.election \in {lobby.election, Match!NoElection}
      /\ l.state = lobby.state \/ (lobby.state = "Ready" /\ l.state = "Forming")
  BY MaintainedFits DEF MatchInv
<1>2. /\ IsLobby(u) /\ Alike(l, u) /\ u.epoch = l.epoch /\ u.election = l.election
      /\ u.state = IF l.state = "Ready" THEN "Forming" ELSE l.state
  BY <1>1, UnreadyIs DEF Fit, Shaped
<1>3. /\ l.state \in {"Forming", "Ready", "InMatch"} /\ p \in l.roster
      /\ Match!ValidateForRoster(x, Cardinality(l.roster))
      /\ lobby' = IF saved.state = "InMatch" THEN saved ELSE Match!RecomputeAuthority(saved)
  BY SameCardinality DEF Match!SubmitMeasurements
<1>4. x \in Measurement
  BY DEF MatchBounds
<1> HIDE DEF l, u
<1>5. Shaped(u) /\ Scorable(u)
  <2>1. Shaped(l) /\ Scorable(l) /\ u.epoch \in Nat
    BY <1>1, <1>2 DEF Fit, Shaped
  <2> QED
    BY <1>2, <2>1, AlikeIsShaped
<1>6. /\ IsLobby(v) /\ v.reports = [u.reports EXCEPT ![p] = x] /\ v.roster = u.roster
      /\ v.revision = u.revision /\ v.measured = u.measured /\ v.epoch = u.epoch
      /\ v.generation = u.generation /\ v.election = u.election /\ v.state = u.state
      /\ v.locked = u.locked /\ v.silent = u.silent
  BY <1>5 DEF IsLobby, Shaped
<1> HIDE DEF v
<1>7. /\ IsLobby(w) /\ w.reports = v.reports /\ w.roster = v.roster
      /\ w.revision = v.revision /\ w.measured = u.measured \cup {p} /\ w.epoch = v.epoch
      /\ w.generation = v.generation /\ w.election = v.election /\ w.state = v.state
      /\ w.locked = v.locked /\ w.silent = v.silent
  <2>1. /\ IsLobby(y) /\ y.reports = v.reports /\ y.roster = v.roster
        /\ y.revision = v.revision /\ y.measured = u.measured \cup {p} /\ y.epoch = v.epoch
        /\ y.generation = v.generation /\ y.election = v.election /\ y.state = v.state
        /\ y.locked = v.locked /\ y.silent = v.silent
    BY <1>6 DEF IsLobby
  <2> HIDE DEF y
  <2> QED
    BY <2>1 DEF IsLobby
<1> HIDE DEF w
<1>8. /\ IsLobby(saved) /\ saved.reports = [u.reports EXCEPT ![p] = x]
      /\ saved.roster = u.roster /\ saved.revision = u.revision
      /\ saved.measured = u.measured \cup {p} /\ saved.epoch = u.epoch
      /\ saved.generation = u.generation /\ saved.election = u.election
      /\ saved.state = u.state /\ saved.locked = u.locked /\ saved.silent = u.silent
  <2>1. /\ IsLobby(saved) /\ saved.reports = w.reports /\ saved.roster = w.roster
        /\ saved.revision = w.revision /\ saved.measured = w.measured
        /\ saved.epoch = w.epoch /\ saved.generation = w.generation
        /\ saved.election = w.election /\ saved.state = w.state
        /\ saved.locked = w.locked /\ saved.silent = w.silent
    BY <1>7 DEF IsLobby
  <2> HIDE DEF saved
  <2> QED
    BY <1>6, <1>7, <2>1
<1> HIDE DEF saved
<1>9. Shaped(saved)
  BY <1>4, <1>5, <1>8 DEF Shaped
<1>10. Scorable(saved)
  <2> SUFFICES ASSUME NEW q \in saved.roster \cap saved.measured
               PROVE  Match!ValidateForRoster(saved.reports[q], Cardinality(saved.roster))
    BY DEF Scorable
  <2>1. saved.roster = l.roster /\ q \in Player
    BY <1>2, <1>5, <1>8 DEF Alike, Shaped
  <2>2. CASE q = p
    <3>1. saved.reports[q] = x
      BY <1>5, <1>8, <2>1, <2>2 DEF Shaped
    <3> QED
      BY <1>3, <2>1, <3>1
  <2>3. CASE q # p
    <3>1. saved.reports[q] = u.reports[q] /\ q \in u.roster \cap u.measured
      BY <1>5, <1>8, <2>1, <2>3 DEF Shaped
    <3> QED
      BY <1>5, <1>8, <3>1 DEF Scorable
  <2> QED
    BY <2>2, <2>3
<1>11. /\ saved.generation = lobby.generation /\ saved.epoch = lobby.epoch
       /\ saved.election \in {lobby.election, Match!NoElection}
       /\ saved.state # "Ready" /\ lobby.state # "Closed" /\ lobby.epoch \in Nat
       /\ saved.state = IF lobby.state = "Ready" THEN "Forming" ELSE lobby.state
       /\ saved.roster = l.roster /\ saved.locked = l.locked /\ saved.election = l.election
  BY <1>1, <1>2, <1>3, <1>8 DEF Alike, MatchInv, Fit, Shaped
<1>12. CASE saved.state = "InMatch"
  <2>1. Fit(lobby')
    BY <1>1, <1>2, <1>3, <1>9, <1>10, <1>11, <1>12 DEF Fit, Locked
  <2> QED
    BY <1>3, <1>11, <1>12, <2>1 DEF Advances
<1>13. CASE saved.state # "InMatch"
  <2>1. lobby' = Match!RecomputeAuthority(saved) /\ saved.state = "Forming"
    BY <1>2, <1>3, <1>8, <1>13
  <2>2. /\ Shaped(lobby') /\ Scorable(lobby') /\ Alike(saved, lobby')
        /\ \/ /\ lobby'.election = Match!NoElection /\ lobby'.state = saved.state
              /\ lobby'.epoch = saved.epoch
           \/ /\ lobby'.election # Match!NoElection /\ Covers(lobby'.election, lobby')
              /\ lobby'.epoch = IF saved.election = lobby'.election
                                THEN saved.epoch ELSE saved.epoch + 1
              /\ lobby'.state = IF saved.state = "Forming" THEN "Ready" ELSE saved.state
    BY <1>9, <1>10, <2>1, Recomputed
  <2>3. lobby'.generation = lobby.generation /\ lobby'.generation = 0
    <3>1. l.generation = lobby.generation /\ l.state # "InMatch" /\ l.generation \in Nat
      BY <1>1, <1>2, <1>8, <1>13 DEF Alike, Fit, Shaped
    <3> QED
      BY <1>1, <1>3, <1>11, <2>2, <3>1 DEF Alike, Fit
  <2>4. Fit(lobby')
    BY <2>1, <2>2, <2>3 DEF Fit, Covers
  <2> QED
    BY <1>11, <2>1, <2>2, <2>3, <2>4 DEF Advances
<1> QED
  BY <1>12, <1>13

LEMMA ElectAdvances ==
    ASSUME MatchInv, MatchBounds, Match!ElectLobbyAuthority
    PROVE  Advances(lobby, lobby')
<1> DEFINE l == Match!Maintained(lobby)
<1>1. /\ Fit(l) /\ Alike(lobby, l) /\ l.epoch = lobby.epoch
      /\ l.election \in {lobby.election, Match!NoElection}
      /\ l.state = lobby.state \/ (lobby.state = "Ready" /\ l.state = "Forming")
  BY MaintainedFits DEF MatchInv
<1>2. /\ l.state \in {"Forming", "Ready", "InMatch"} /\ lobby'.election # Match!NoElection
      /\ lobby' = IF l.state # "InMatch" /\ l.election = Match!NoElection
                  THEN Match!RecomputeAuthority(l) ELSE l
  BY DEF Match!ElectLobbyAuthority
<1> HIDE DEF l
<1>3. CASE lobby' = l
  BY <1>1, <1>3 DEF Advances, Alike
<1>4. CASE lobby' = Match!RecomputeAuthority(l) /\ l.state # "InMatch"
           /\ l.election = Match!NoElection
  <2>1. /\ Shaped(lobby') /\ Scorable(lobby') /\ Alike(l, lobby')
        /\ Covers(lobby'.election, lobby') /\ lobby'.epoch = l.epoch + 1
        /\ lobby'.state = IF l.state = "Forming" THEN "Ready" ELSE l.state
    BY <1>1, <1>2, <1>4, Recomputed DEF Fit
  <2>2. lobby'.generation = lobby.generation /\ ~(lobby'.generation > 0)
    BY <1>1, <1>2, <1>4, <2>1 DEF Alike, Fit, Shaped
  <2>3. Fit(lobby')
    BY <1>2, <1>4, <2>1, <2>2 DEF Fit, Covers
  <2> QED
    BY <1>1, <1>2, <1>4, <2>1, <2>2, <2>3 DEF Advances
<1> QED
  BY <1>2, <1>3, <1>4

\* A successor has the election of the next epoch among the candidates of the start.
LEMMA SuccessorAdvances ==
    ASSUME MatchInv, MatchBounds, NEW p \in Player, Match!SuccessorHeartbeat(p)
    PROVE  Advances(lobby, lobby') /\ Match!Recorded(lobby')
<1> DEFINE l == Match!Maintained(lobby)
<1>1. /\ Fit(l) /\ Alike(lobby, l) /\ l.epoch = lobby.epoch
      /\ l.state = lobby.state \/ (lobby.state = "Ready" /\ l.state = "Forming")
  BY MaintainedFits DEF MatchInv
<1>2. PICK survivors \in SUBSET DOMAIN l.locked.matrix :
         /\ Match!ClaimAllowed(l, p, survivors)
         /\ \E e \in {Match!SuccessorElection(l, survivors)} :
               LET n == Match!ApplyElection(l, e)
               IN  /\ e.winner = p /\ n.epoch = l.epoch + 1 /\ n.epoch <= MaxEpoch
                   /\ lobby' = [n EXCEPT !.silent = FALSE] /\ Match!Recorded(n)
  BY DEF Match!SuccessorHeartbeat
<1> DEFINE e == Match!SuccessorElection(l, survivors)
           n == Match!ApplyElection(l, e)
<1>3. /\ e.winner = p /\ n.epoch = l.epoch + 1
      /\ lobby' = [n EXCEPT !.silent = FALSE] /\ Match!Recorded(n)
  BY <1>2
<1>4. /\ l.state = "InMatch" /\ l.silent /\ p \in l.roster /\ p \in DOMAIN l.locked.matrix
  BY <1>2 DEF Match!ClaimAllowed
<1> HIDE DEF l, e
<1>5. e # Match!NoElection
  <2>1. e.winner # 0
    BY <1>3 DEF MatchBounds
  <2> QED
    BY <2>1 DEF Match!NoElection
<1>6. /\ IsLobby(n) /\ Alike(l, n) /\ n.election = e /\ n.state = "InMatch"
  BY <1>1, <1>4, <1>5, Applied DEF Fit
<1> HIDE DEF n
<1>7. /\ IsLobby(lobby') /\ lobby'.roster = l.roster /\ lobby'.revision = l.revision
      /\ lobby'.reports = l.reports /\ lobby'.measured = l.measured
      /\ lobby'.locked = l.locked /\ lobby'.generation = l.generation
      /\ lobby'.epoch = n.epoch /\ lobby'.election = n.election /\ lobby'.state = "InMatch"
  BY <1>3, <1>6 DEF IsLobby, Alike
<1>8. Shaped(lobby') /\ Scorable(lobby')
  BY <1>1, <1>3, <1>7 DEF Fit, Shaped, Scorable
<1>9. Fit(lobby')
  BY <1>1, <1>3, <1>4, <1>6, <1>7, <1>8 DEF Fit, Locked
<1>10. Match!Recorded(lobby')
  BY <1>3, <1>7 DEF Match!Recorded
<1> QED
  BY <1>1, <1>3, <1>4, <1>5, <1>6, <1>7, <1>9, <1>10 DEF Advances, Alike

\* The handlers that hold no election and leave the roster and its reports alone.
LEMMA PlainAdvances ==
    ASSUME MatchInv, NEW n, IsLobby(n), n.roster = lobby.roster, n.revision = lobby.revision,
           n.reports = lobby.reports, n.measured = lobby.measured, n.locked = lobby.locked,
           n.epoch = lobby.epoch, n.generation = lobby.generation,
           n.election \in {lobby.election, Match!NoElection},
           \/ n.state = lobby.state /\ n.election = lobby.election
           \/ n.state = "InMatch" /\ lobby.state \in {"Starting", "InMatch"}
           \/ n.state = "Closed"
    PROVE  Advances(lobby, n)
<1>1. Shaped(n) /\ Scorable(n)
  BY DEF MatchInv, Fit, Shaped, Scorable
<1>2. n.state = "Ready" => Covers(n.election, n)
  BY DEF MatchInv, Fit, Covers
<1>3. n.state \in {"Starting", "InMatch"} => Locked(n)
  BY DEF MatchInv, Fit, Locked
<1>4. Fit(n)
  BY <1>1, <1>2, <1>3 DEF MatchInv, Fit
<1> QED
  BY <1>4 DEF Advances

LEMMA OthersAdvance ==
    ASSUME MatchInv,
           \/ Match!CurrentHeartbeat \/ Match!SubmitResults \/ Match!TimeOut \/ Match!Settle
           \/ Match!FallSilent \/ Match!RegistrationsExpire
           \/ \E p \in Player : Match!RegisterSessionEndpoint(p) \/ Match!GoStale(p)
    PROVE  Advances(lobby, lobby') /\ lobby'.epoch = lobby.epoch
<1> DEFINE l == Match!Maintained(lobby)
<1>1. /\ Fit(l) /\ Alike(lobby, l) /\ l.epoch = lobby.epoch
      /\ l.election \in {lobby.election, Match!NoElection}
      /\ l.state = lobby.state \/ (lobby.state = "Ready" /\ l.state = "Forming")
  BY MaintainedFits DEF MatchInv
<1>2. IsLobby(lobby) /\ IsLobby(l)
  BY <1>1 DEF MatchInv, Fit, Shaped
<1>3. CASE Match!CurrentHeartbeat
  <2>1. /\ l.state \in {"Starting", "InMatch"}
        /\ lobby' = [l EXCEPT !.state = "InMatch", !.silent = FALSE]
    BY <1>3 DEF Match!CurrentHeartbeat
  <2> HIDE DEF l
  <2> DEFINE m == [l EXCEPT !.state = "InMatch"]
  <2>2. /\ IsLobby(m) /\ Alike(l, m) /\ m.epoch = l.epoch /\ m.election = l.election
        /\ m.state = "InMatch"
    BY <1>2 DEF IsLobby, Alike
  <2>3. lobby' = [m EXCEPT !.silent = FALSE]
    BY <2>1
  <2> HIDE DEF m
  <2>4. /\ IsLobby(lobby') /\ lobby'.roster = lobby.roster /\ lobby'.revision = lobby.revision
        /\ lobby'.reports = lobby.reports /\ lobby'.measured = lobby.measured
        /\ lobby'.locked = lobby.locked /\ lobby'.epoch = lobby.epoch
        /\ lobby'.generation = lobby.generation /\ lobby'.election = l.election
        /\ lobby'.state = "InMatch"
    BY <1>1, <2>2, <2>3 DEF IsLobby, Alike
  <2> QED
    BY <1>1, <2>1, <2>4, PlainAdvances
<1>4. CASE Match!SubmitResults
  <2>1. lobby' = [l EXCEPT !.state = "Closed"]
    BY <1>4 DEF Match!SubmitResults
  <2> HIDE DEF l
  <2>2. /\ IsLobby(lobby') /\ Alike(l, lobby') /\ lobby'.epoch = l.epoch
        /\ lobby'.election = l.election /\ lobby'.state = "Closed"
    BY <1>2, <2>1 DEF IsLobby, Alike
  <2> QED
    BY <1>1, <2>2, PlainAdvances DEF Alike
<1>5. CASE Match!TimeOut
  <2>1. lobby' = [Match!Unelected(lobby) EXCEPT !.state = "Closed"]
    BY <1>5 DEF Match!TimeOut
  <2> DEFINE u == Match!Unelected(lobby)
  <2>2. IsLobby(u) /\ Alike(lobby, u) /\ u.epoch = lobby.epoch /\ u.election = Match!NoElection
    BY <1>2, UnelectedIs
  <2> HIDE DEF u
  <2>3. /\ IsLobby(lobby') /\ Alike(u, lobby') /\ lobby'.epoch = u.epoch
        /\ lobby'.election = u.election /\ lobby'.state = "Closed"
    BY <2>1, <2>2 DEF IsLobby, Alike, u
  <2> QED
    BY <2>2, <2>3, PlainAdvances DEF Alike
<1>6. CASE Match!Settle \/ Match!FallSilent \/ \E p \in Player : Match!GoStale(p)
  <2>1. \/ \E S : lobby' = [lobby EXCEPT !.settled = S]
        \/ lobby' = [lobby EXCEPT !.silent = TRUE]
        \/ \E S : lobby' = [lobby EXCEPT !.fresh = S]
    BY <1>6 DEF Match!Settle, Match!FallSilent, Match!GoStale
  <2>2. /\ IsLobby(lobby') /\ lobby'.roster = lobby.roster /\ lobby'.revision = lobby.revision
        /\ lobby'.reports = lobby.reports /\ lobby'.measured = lobby.measured
        /\ lobby'.locked = lobby.locked /\ lobby'.epoch = lobby.epoch
        /\ lobby'.generation = lobby.generation /\ lobby'.election = lobby.election
        /\ lobby'.state = lobby.state
    BY <1>2, <2>1 DEF IsLobby
  <2> QED
    BY <2>2, PlainAdvances
<1>7. CASE Match!RegistrationsExpire \/ \E p \in Player : Match!RegisterSessionEndpoint(p)
  <2>1. lobby' = lobby
    BY <1>7 DEF Match!RegistrationsExpire, Match!RegisterSessionEndpoint
  <2> QED
    BY <1>2, <2>1, PlainAdvances
<1> QED
  BY <1>3, <1>4, <1>5, <1>6, <1>7

\* Starting locks the election and opens a generation nothing was signed for.
LEMMA StartKeepsMatch ==
    ASSUME MatchInv, Match!StartLobby
    PROVE  MatchInv' /\ Match!EpochNamesOneElection /\ Match!SuccessionAfterSilence
<1> DEFINE l == Match!Maintained(lobby)
           a == [l EXCEPT !.locked = l.election]
           b == [a EXCEPT !.generation = @ + 1]
           c == [b EXCEPT !.state = "Starting"]
<1>1. /\ Fit(l) /\ Alike(lobby, l) /\ l.epoch = lobby.epoch
      /\ l.election \in {lobby.election, Match!NoElection}
      /\ l.state = lobby.state \/ (lobby.state = "Ready" /\ l.state = "Forming")
  BY MaintainedFits DEF MatchInv
<1>2. /\ l.state = "Ready" /\ l.election # Match!NoElection
      /\ lobby' = [c EXCEPT !.silent = FALSE]
      /\ UNCHANGED <<key, unmoved, reign, manifests>>
  BY DEF Match!StartLobby, Match!Startable
<1> HIDE DEF l
<1>3. /\ IsLobby(a) /\ a.roster = l.roster /\ a.revision = l.revision /\ a.reports = l.reports
      /\ a.measured = l.measured /\ a.epoch = l.epoch /\ a.election = l.election
      /\ a.generation = l.generation /\ a.locked = l.election
  BY <1>1 DEF Fit, Shaped, IsLobby
<1> HIDE DEF a
<1>4. /\ IsLobby(b) /\ b.roster = a.roster /\ b.revision = a.revision /\ b.reports = a.reports
      /\ b.measured = a.measured /\ b.epoch = a.epoch /\ b.election = a.election
      /\ b.generation = a.generation + 1 /\ b.locked = a.locked
  BY <1>3 DEF IsLobby
<1> HIDE DEF b
<1>5. /\ IsLobby(c) /\ c.roster = b.roster /\ c.revision = b.revision /\ c.reports = b.reports
      /\ c.measured = b.measured /\ c.epoch = b.epoch /\ c.election = b.election
      /\ c.generation = b.generation /\ c.locked = b.locked /\ c.state = "Starting"
  BY <1>4 DEF IsLobby
<1> HIDE DEF c
<1>6. /\ IsLobby(lobby') /\ lobby'.roster = c.roster /\ lobby'.revision = c.revision
      /\ lobby'.reports = c.reports /\ lobby'.measured = c.measured /\ lobby'.epoch = c.epoch
      /\ lobby'.election = c.election /\ lobby'.generation = c.generation
      /\ lobby'.locked = c.locked /\ lobby'.state = "Starting"
  BY <1>2, <1>5 DEF IsLobby
<1>7. /\ lobby'.roster = l.roster /\ lobby'.revision = l.revision /\ lobby'.reports = l.reports
      /\ lobby'.measured = l.measured /\ lobby'.epoch = lobby.epoch
      /\ lobby'.election = l.election /\ l.election = lobby.election
      /\ lobby'.generation = lobby.generation + 1 /\ lobby'.locked = l.election
  BY <1>1, <1>2, <1>3, <1>4, <1>5, <1>6 DEF Alike
<1>8. Covers(l.election, l) /\ lobby.generation \in Nat
  BY <1>1, <1>2 DEF Fit, Shaped, MatchInv
<1>9. Fit(lobby')
  <2>1. Shaped(lobby') /\ Scorable(lobby')
    BY <1>1, <1>6, <1>7, <1>8 DEF Fit, Shaped, Scorable
  <2>2. Locked(lobby')
    BY <1>7, <1>8 DEF Covers, Locked
  <2> QED
    BY <1>6, <1>7, <1>8, <2>1, <2>2 DEF Fit, Covers
<1>10. Reigns' /\ Match!EpochNamesOneElection
  BY <1>2, <1>7 DEF MatchInv, Reigns, Match!EpochNamesOneElection
<1>11. SignedOnce'
  <2>1. lobby'.generation \in Nat
        /\ \A m \in manifests : /\ m.generation \in Nat /\ 0 < m.generation
                                 /\ m.generation < lobby'.generation
    BY <1>7, <1>8 DEF MatchInv, SignedOnce
  <2> QED
    BY <1>2, <2>1 DEF MatchInv, SignedOnce, Match!OneKeyPerGeneration
<1>12. Match!SuccessionAfterSilence
  BY <1>6 DEF Match!SuccessionAfterSilence
<1> QED
  BY <1>9, <1>10, <1>11, <1>12 DEF MatchInv

\* A deleted lobby has lost its key and its registrations.
LEMMA DeleteKeepsMatch ==
    ASSUME MatchInv, Match!DeleteLobby
    PROVE  MatchInv' /\ Match!EpochNamesOneElection /\ Match!SuccessionAfterSilence
<1> DEFINE l == Match!Maintained(lobby)
<1>1. /\ Fit(l) /\ Alike(lobby, l) /\ l.epoch = lobby.epoch
      /\ l.election \in {lobby.election, Match!NoElection}
  BY MaintainedFits DEF MatchInv
<1>2. /\ lobby.state # "Closed" /\ lobby' = [l EXCEPT !.state = "Closed"]
      /\ endpoints' = Match!NoEndpoints /\ UNCHANGED <<unmoved, reign, manifests>>
  BY DEF Match!DeleteLobby
<1> HIDE DEF l
<1>3. /\ IsLobby(lobby') /\ Alike(l, lobby') /\ lobby'.epoch = l.epoch
      /\ lobby'.election = l.election /\ lobby'.state = "Closed"
  BY <1>1, <1>2 DEF IsLobby, Alike, Fit, Shaped
<1>4. Advances(lobby, lobby')
  BY <1>1, <1>3, PlainAdvances DEF Alike
<1>5. Reigns' /\ Match!EpochNamesOneElection /\ Match!SuccessionAfterSilence
  BY <1>1, <1>2, <1>3, <1>4, ReignMovesOn
<1>6. SignedOnce'
  <2>1. lobby'.generation = lobby.generation
    BY <1>4 DEF Advances
  <2>2. Match!OneKeyPerGeneration'
    BY <1>2, <2>1 DEF MatchInv, SignedOnce, Match!OneKeyPerGeneration
  <2> QED
    BY <1>2, <1>3, <2>1, <2>2 DEF MatchInv, SignedOnce
<1> QED
  BY <1>4, <1>5, <1>6 DEF MatchInv, Advances

\* A restart loses the key: the running match moves to a generation of its own, or its
\* generation is recorded as one it could not move on from.
LEMMA RestartKeepsMatch ==
    ASSUME MatchInv, NEW saved \in BOOLEAN, Match!Restart(saved)
    PROVE  MatchInv' /\ Match!EpochNamesOneElection /\ Match!SuccessionAfterSilence
<1>1. /\ lobby.state # "Closed"
      /\ unmoved' = IF saved THEN unmoved ELSE unmoved \cup {lobby.generation}
      /\ lobby' = IF saved THEN Match!RestartedGeneration(lobby) ELSE lobby
      /\ UNCHANGED <<reign, manifests>>
  BY DEF Match!Restart
<1>2. /\ Shaped(lobby) /\ lobby.generation \in Nat
      /\ lobby.generation > 0 => lobby.state \in {"Starting", "InMatch"}
  BY <1>1 DEF MatchInv, Fit, Shaped
<1>3. CASE lobby' = lobby
  <2>1. Fit(lobby') /\ Reigns'
    BY <1>1, <1>3 DEF MatchInv, Reigns
  <2>2. saved => manifests = {}
    <3>1. ASSUME saved PROVE lobby.generation = 0
      <4>1. ASSUME lobby.generation > 0 PROVE FALSE
        <5>1. lobby' = [lobby EXCEPT !.generation = @ + 1]
          BY <1>1, <1>2, <3>1, <4>1 DEF Match!RestartedGeneration
        <5>2. lobby'.generation = lobby.generation + 1
          BY <1>2, <5>1 DEF Shaped, IsLobby
        <5> QED
          BY <1>2, <1>3, <5>2
      <4> QED
        BY <1>2, <4>1
    <3> QED
      BY <3>1 DEF MatchInv, SignedOnce
  <2>3. SignedOnce'
    BY <1>1, <1>3, <2>2 DEF MatchInv, SignedOnce, Match!OneKeyPerGeneration
  <2> QED
    BY <1>1, <1>3, <2>1, <2>3
    DEF MatchInv, Match!EpochNamesOneElection, Match!SuccessionAfterSilence
<1>4. CASE lobby' = [lobby EXCEPT !.generation = @ + 1]
           /\ lobby.state \in {"Starting", "InMatch"}
  <2>1. /\ IsLobby(lobby') /\ lobby'.generation = lobby.generation + 1
        /\ lobby'.roster = lobby.roster /\ lobby'.revision = lobby.revision
        /\ lobby'.reports = lobby.reports /\ lobby'.measured = lobby.measured
        /\ lobby'.locked = lobby.locked /\ lobby'.epoch = lobby.epoch
        /\ lobby'.election = lobby.election /\ lobby'.state = lobby.state
    BY <1>2, <1>4 DEF Shaped, IsLobby
  <2>2. Shaped(lobby') /\ Scorable(lobby') /\ Locked(lobby')
    BY <1>2, <1>4, <2>1 DEF MatchInv, Fit, Shaped, Scorable, Locked
  <2>3. Fit(lobby')
    BY <1>4, <2>1, <2>2 DEF MatchInv, Fit
  <2>4. Reigns'
    BY <1>1, <2>1 DEF MatchInv, Reigns
  <2>5. SignedOnce'
    <3>1. lobby'.generation \in Nat
          /\ \A m \in manifests : /\ m.generation \in Nat /\ 0 < m.generation
                                   /\ m.generation < lobby'.generation
      BY <1>2, <2>1 DEF MatchInv, SignedOnce
    <3>2. \A g : g \in unmoved => g \in unmoved'
      BY <1>1
    <3> QED
      BY <1>1, <3>1, <3>2 DEF MatchInv, SignedOnce, Match!OneKeyPerGeneration
  <2> QED
    BY <1>1, <2>1, <2>3, <2>4, <2>5
    DEF MatchInv, Match!EpochNamesOneElection, Match!SuccessionAfterSilence
<1> QED
  BY <1>1, <1>3, <1>4 DEF Match!RestartedGeneration

LEMMA MatchStep ==
    ASSUME MatchBounds, MatchInv, [Match!Next]_Match!vars
    PROVE  MatchInv' /\ (Match!EpochNamesOneElection /\ Match!SuccessionAfterSilence)
<1> DEFINE Goal == MatchInv' /\ (Match!EpochNamesOneElection /\ Match!SuccessionAfterSilence)
<1>1. ASSUME NEW p \in Player, Match!Join(p) PROVE Goal
  <2>1. UNCHANGED <<endpoints, key, unmoved, reign, manifests>>
    BY <1>1 DEF Match!Join
  <2> QED
    BY <1>1, <2>1, JoinAdvances, AdvanceKeepsMatch
<1>2. ASSUME NEW p \in Player, Match!Leave(p) PROVE Goal
  <2>1. UNCHANGED <<key, unmoved, reign, manifests>> /\ endpoints' = Match!NoEndpoints
    BY <1>2 DEF Match!Leave
  <2> QED
    BY <1>2, <2>1, LeaveAdvances, AdvanceKeepsMatch
<1>3. ASSUME NEW p \in Player, NEW x \in Sample, Match!SubmitMeasurements(p, x) PROVE Goal
  <2>1. UNCHANGED <<endpoints, key, unmoved, manifests>> /\ Match!Recorded(lobby')
    BY <1>3 DEF Match!SubmitMeasurements
  <2> QED
    BY <1>3, <2>1, SubmitAdvances, AdvanceKeepsMatch
<1>4. CASE Match!ElectLobbyAuthority
  <2>1. UNCHANGED <<endpoints, key, unmoved, manifests>> /\ Match!Recorded(lobby')
    BY <1>4 DEF Match!ElectLobbyAuthority
  <2> QED
    BY <1>4, <2>1, ElectAdvances, AdvanceKeepsMatch
<1>5. ASSUME NEW p \in Player, Match!SuccessorHeartbeat(p) PROVE Goal
  <2>1. UNCHANGED <<endpoints, key, unmoved, manifests>>
    BY <1>5 DEF Match!SuccessorHeartbeat
  <2> QED
    BY <1>5, <2>1, SuccessorAdvances, AdvanceKeepsMatch
<1>6. ASSUME NEW p \in Player, Match!RegisterSessionEndpoint(p) PROVE Goal
  <2>1. /\ UNCHANGED <<lobby, key, unmoved, reign>> /\ lobby.state # "Closed"
        /\ Match!Signed(lobby, endpoints')
    BY <1>6 DEF Match!RegisterSessionEndpoint
  <2>2. Match!Signed(lobby', endpoints')
    BY <2>1
  <2> QED
    BY <1>6, <2>1, <2>2, OthersAdvance, AdvanceKeepsMatch
<1>7. CASE Match!GetLobby
  <2>1. /\ UNCHANGED <<endpoints, key, unmoved, reign>>
        /\ lobby' = Match!Maintained(lobby) /\ Match!Signed(lobby', endpoints')
    BY <1>7 DEF Match!GetLobby
  <2>2. Advances(lobby, lobby') /\ lobby'.epoch = lobby.epoch
    <3>1. /\ Fit(lobby') /\ Alike(lobby, lobby') /\ lobby'.epoch = lobby.epoch
          /\ lobby'.election \in {lobby.election, Match!NoElection}
          /\ lobby'.state = lobby.state \/ (lobby.state = "Ready" /\ lobby'.state = "Forming")
      BY <2>1, MaintainedFits DEF MatchInv
    <3> QED
      BY <3>1 DEF Advances, Alike
  <2> QED
    BY <2>1, <2>2, AdvanceKeepsMatch
<1>8. CASE \/ Match!CurrentHeartbeat \/ Match!SubmitResults \/ Match!TimeOut \/ Match!Settle
           \/ Match!FallSilent \/ Match!RegistrationsExpire \/ \E p \in Player : Match!GoStale(p)
  <2>1. /\ UNCHANGED <<key, unmoved, reign, manifests>>
        /\ endpoints' \in {endpoints, Match!NoEndpoints}
    BY <1>8 DEF Match!CurrentHeartbeat, Match!SubmitResults, Match!TimeOut, Match!Settle,
                Match!FallSilent, Match!RegistrationsExpire, Match!GoStale
  <2> QED
    BY <1>8, <2>1, OthersAdvance, AdvanceKeepsMatch
<1>9. CASE UNCHANGED Match!vars
  BY <1>9 DEF Match!vars, MatchInv, Reigns, SignedOnce, Match!OneKeyPerGeneration,
              Match!EpochNamesOneElection, Match!SuccessionAfterSilence
<1> QED
  BY <1>1, <1>2, <1>3, <1>4, <1>5, <1>6, <1>7, <1>8, <1>9, StartKeepsMatch, DeleteKeepsMatch,
     RestartKeepsMatch DEF Match!Next

LEMMA MatchStarts == ASSUME MatchBounds, Match!Init PROVE MatchInv
<1>1. PICK roster \in Formed :
        lobby = [state |-> "Forming", roster |-> roster, revision |-> 1 + Cardinality(roster),
                 reports |-> [p \in Player |-> Match!NoReport], measured |-> {}, fresh |-> {},
                 settled |-> {}, election |-> Match!NoElection, locked |-> Match!NoElection,
                 epoch |-> 0, generation |-> 0, silent |-> FALSE, received |-> 0]
  BY SameCardinality DEF Match!Init
<1>2. IsFiniteSet(roster) /\ roster \subseteq Player
  BY FS_Subset DEF MatchBounds
<1>3. Cardinality(roster) \in Nat
  BY <1>2, FS_CardinalityType
<1>4. [p \in Player |-> Match!NoReport] \in [Player -> Measurement]
  BY DEF Match!NoReport, Measurement
<1>5. Shaped(lobby)
  BY <1>1, <1>2, <1>3, <1>4 DEF Shaped, IsLobby
<1>6. Fit(lobby)
  BY <1>1, <1>5 DEF Fit, Scorable
<1>7. Reigns /\ SignedOnce
  BY <1>1 DEF Match!Init, Reigns, SignedOnce, Match!OneKeyPerGeneration
<1> QED
  BY <1>6, <1>7 DEF MatchInv

LEMMA MatchHolds ==
    ASSUME MatchInv
    PROVE  Match!ReadyIsElected /\ Match!MatchKeepsItsMatrix /\ Match!OneKeyPerGeneration
<1>1. Match!ReadyIsElected
  BY DEF MatchInv, Fit, Covers, Match!ReadyIsElected
<1>2. Match!MatchKeepsItsMatrix
  BY DEF MatchInv, Fit, Locked, Match!MatchKeepsItsMatrix
<1>3. Match!OneKeyPerGeneration
  BY DEF MatchInv, SignedOnce, Match!OneKeyPerGeneration
<1> QED
  BY <1>1, <1>2, <1>3

\* However joins, leaves, stale reports and silences interleave, for any players and
\* reports: a lobby that is READY has an election over exactly its roster and the
\* reports it holds, won by one of them, and in a match everybody, the authority
\* included, was a candidate at its start (recompute_authority, start_lobby).
THEOREM ReadinessIsElected ==
    MatchBounds => (Match!Spec => [](Match!ReadyIsElected /\ Match!MatchKeepsItsMatrix))
<1> SUFFICES ASSUME MatchBounds PROVE Match!Spec => [](Match!ReadyIsElected /\ Match!MatchKeepsItsMatrix)
  OBVIOUS
<1>1. Match!Init => MatchInv
  BY MatchStarts
<1>2. MatchInv /\ [Match!Next]_Match!vars =>
         MatchInv' /\ [Match!EpochNamesOneElection /\ Match!SuccessionAfterSilence]_Match!vars
  BY MatchStep
<1>3. MatchInv => Match!ReadyIsElected /\ Match!MatchKeepsItsMatrix
  BY MatchHolds
<1> QED
  BY <1>1, <1>2, <1>3, PTL DEF Match!Spec

\* Through starts, restarts, registrations and deletions, for any players: all manifests
\* of one generation of a match are signed by one key, unless a restart could not store
\* the move out of that generation (reconcile_startup, session_projection).
THEOREM GenerationHasOneKey == MatchBounds => (Match!Spec => []Match!OneKeyPerGeneration)
<1> SUFFICES ASSUME MatchBounds PROVE Match!Spec => []Match!OneKeyPerGeneration
  OBVIOUS
<1>1. Match!Init => MatchInv
  BY MatchStarts
<1>2. MatchInv /\ [Match!Next]_Match!vars =>
         MatchInv' /\ [Match!EpochNamesOneElection /\ Match!SuccessionAfterSilence]_Match!vars
  BY MatchStep
<1>3. MatchInv => Match!OneKeyPerGeneration
  BY MatchHolds
<1> QED
  BY <1>1, <1>2, <1>3, PTL DEF Match!Spec

\* An authority epoch names one election, and within a match the authority changes only
\* after its silence, to a member, in the next epoch (apply_election,
\* authority_heartbeat).
THEOREM EpochsMoveOn ==
    MatchBounds => (Match!Spec =>
        [][Match!EpochNamesOneElection /\ Match!SuccessionAfterSilence]_Match!vars)
<1> SUFFICES ASSUME MatchBounds PROVE Match!Spec => [][Match!EpochNamesOneElection /\ Match!SuccessionAfterSilence]_Match!vars
  OBVIOUS
<1>1. Match!Init => MatchInv
  BY MatchStarts
<1>2. MatchInv /\ [Match!Next]_Match!vars =>
         MatchInv' /\ [Match!EpochNamesOneElection /\ Match!SuccessionAfterSilence]_Match!vars
  BY MatchStep
<1> QED
  BY <1>1, <1>2, PTL DEF Match!Spec

-----------------------------------------------------------------------------
(* The network view: THEOREM CountsAreTrue.                                  *)

\* A window is a number of milliseconds, and a failure is told from an answer.
InspectionBounds == DeviceWindow \in Nat /\ "none" \notin Failure /\ "count" \notin Failure

IsRecord(r) ==
    r = [mode |-> r.mode, lifecycle |-> r.lifecycle, identity |-> r.identity,
         requested |-> r.requested, acknowledged |-> r.acknowledged, absent |-> r.absent,
         roster |-> r.roster, reports |-> r.reports, election |-> r.election,
         heartbeat |-> r.heartbeat, gated |-> r.gated, abandoned |-> r.abandoned]

Observation ==
    [count : {0, 1}, succeeded : Nat, failed : Nat, failure : {"none"} \cup Failure,
     asked : Nat, taken : Nat]

Polled == [began : Nat, asked : Nat, answer : {"none", "count"} \cup Failure, taken : Nat]

\* A refresh was called before it asked, and asked before it was answered; with the
\* lock, it asks after a teardown was requested.
PollIsLater ==
    poll # Inspection!NoPoll =>
        /\ 0 < poll.began /\ poll.began <= poll.asked /\ poll.asked <= clock
        /\ poll.answer # "none" => poll.asked <= poll.taken /\ poll.taken <= clock
        /\ stored.requested # 0 => stored.gated \/ poll.asked >= stored.requested

CacheIsOrdered ==
    cache.succeeded # 0 =>
        /\ cache.succeeded <= cache.asked /\ cache.asked <= cache.taken
        /\ cache.taken <= clock

WaitersAreEarlier == \A t \in waiting : t \in Nat /\ 0 < t /\ t <= clock

\* Nothing is observed before the network exists.
Unborn ==
    stored.lifecycle \in {"Reserved", "Creating"} =>
        poll = Inspection!NoPoll /\ cache.succeeded = 0

InspectionInv ==
    /\ IsRecord(stored) /\ stored.requested \in Nat /\ stored.requested <= clock
    /\ cache \in Observation /\ poll \in Polled /\ clock \in Nat \ {0}
    /\ WaitersAreEarlier /\ PollIsLater /\ CacheIsOrdered /\ Unborn /\ Inspection!NothingOutlivesTeardown

\* The writes that are no cleanup: the time of a request stays, or it is that of a
\* creation that failed or of a policy gate.
LEMMA WriteKeeps ==
    ASSUME InspectionInv, NEW r, Inspection!Writes(r), IsRecord(r),
           r.lifecycle \in {"Reserved", "Creating"} =>
               stored.lifecycle \in {"Reserved", "Creating"},
           r.gated = stored.gated \/ r.gated = TRUE,
           \/ r.requested = stored.requested /\ r.gated = stored.gated
           \/ r.requested = clock /\ (r.gated = TRUE \/ stored.lifecycle = "Creating")
    PROVE  InspectionInv'
<1>1. stored' = r /\ UNCHANGED <<cache, waiting, poll, teardown, clock>>
  BY DEF Inspection!Writes
<1>2. CASE r.requested = stored.requested /\ r.gated = stored.gated
  BY <1>1, <1>2 DEF InspectionInv, WaitersAreEarlier, PollIsLater, CacheIsOrdered, Unborn,
                    Inspection!NothingOutlivesTeardown, Inspection!None
<1>3. CASE r.requested = clock /\ r.gated = TRUE
  BY <1>1, <1>3 DEF InspectionInv, WaitersAreEarlier, PollIsLater, CacheIsOrdered, Unborn,
                    Inspection!NothingOutlivesTeardown, Inspection!None
<1>4. CASE r.requested = clock /\ stored.lifecycle = "Creating"
  BY <1>1, <1>4 DEF InspectionInv, WaitersAreEarlier, PollIsLater, CacheIsOrdered, Unborn,
                    Inspection!NothingOutlivesTeardown, Inspection!None
<1> QED
  BY <1>2, <1>3, <1>4

LEMMA CreationKeeps ==
    ASSUME InspectionInv, Inspection!CreateLobby \/ Inspection!MintFails PROVE InspectionInv'
<1>1. PICK r : /\ Inspection!Writes(r)
               /\ \/ r = [stored EXCEPT !.lifecycle = "Creating"] /\ stored.lifecycle = "Reserved"
                  \/ \E x \in {"CreateRejected", "CreateUnknown", "ManualRemediation"} :
                        r = [stored EXCEPT !.lifecycle = x]
                  \/ \E x \in {"Active", "ManualRemediation"} :
                        r = [stored EXCEPT !.lifecycle = x, !.identity = clock]
                  \/ /\ stored.lifecycle = "Creating"
                     /\ r = [stored EXCEPT !.lifecycle = "CleanupPending", !.identity = clock,
                                           !.requested = clock]
                  \/ /\ stored.lifecycle = "Creating"
                     /\ r = [stored EXCEPT !.lifecycle = "VerifyingAbsence", !.identity = clock,
                                           !.requested = clock, !.acknowledged = clock]
                  \/ r = [stored EXCEPT !.lifecycle = "CleanupPending", !.abandoned = TRUE]
                  \/ r = [stored EXCEPT !.lifecycle = "CleanupPending", !.requested = clock,
                                        !.gated = TRUE]
                  \/ r = [stored EXCEPT !.lifecycle = "VerifyingAbsence", !.requested = clock,
                                        !.acknowledged = clock, !.gated = TRUE]
  BY DEF Inspection!CreateLobby, Inspection!MintFails
<1>2. IsRecord(stored)
  BY DEF InspectionInv
<1>3. /\ IsRecord(r)
      /\ r.lifecycle \in {"Reserved", "Creating"} => stored.lifecycle \in {"Reserved", "Creating"}
      /\ \/ r.requested = stored.requested /\ r.gated = stored.gated
         \/ r.requested = clock /\ r.gated = TRUE
         \/ r.requested = clock /\ r.gated = stored.gated /\ stored.lifecycle = "Creating"
  BY <1>1, <1>2 DEF IsRecord
<1> QED
  BY <1>1, <1>3, WriteKeeps

LEMMA OtherWritesKeep ==
    ASSUME InspectionInv,
           \/ Inspection!Heartbeat \/ Inspection!AccessLost \/ Inspection!ReconcileAbsence
           \/ \E p \in Member : \/ Inspection!LeaveLobby(p)
                                \/ \E s \in Report : Inspection!SubmitMeasurements(p, s)
    PROVE  InspectionInv'
<1>1. IsRecord(stored)
  BY DEF InspectionInv
<1>2. ASSUME NEW r, Inspection!Writes(r), IsRecord(r), r.requested = stored.requested,
             r.gated = stored.gated,
             r.lifecycle = stored.lifecycle \/ r.lifecycle \in {"ManualRemediation", "DedicatedAbsent"}
      PROVE  InspectionInv'
  BY <1>2, WriteKeeps
<1>3. CASE Inspection!Heartbeat
  <2> DEFINE r == [stored EXCEPT !.heartbeat = clock]
  <2>1. /\ Inspection!Writes(r) /\ IsRecord(r) /\ r.requested = stored.requested
        /\ r.gated = stored.gated /\ r.lifecycle = stored.lifecycle
    BY <1>1, <1>3 DEF Inspection!Heartbeat, IsRecord
  <2> QED
    BY <1>2, <2>1
<1>4. CASE Inspection!AccessLost \/ Inspection!ReconcileAbsence
  <2>1. PICK r : /\ Inspection!Writes(r)
                 /\ \/ \E x \in {"ManualRemediation", "DedicatedAbsent"} :
                          r = [stored EXCEPT !.lifecycle = x]
                    \/ \E t : r = [stored EXCEPT !.absent = t]
    BY <1>4 DEF Inspection!AccessLost, Inspection!ReconcileAbsence
  <2>2. /\ IsRecord(r) /\ r.requested = stored.requested /\ r.gated = stored.gated
        /\ \/ r.lifecycle = stored.lifecycle
           \/ r.lifecycle \in {"ManualRemediation", "DedicatedAbsent"}
    BY <1>1, <2>1 DEF IsRecord
  <2> QED
    BY <1>2, <2>1, <2>2
<1>5. ASSUME NEW p \in Member, Inspection!LeaveLobby(p) PROVE InspectionInv'
  <2> DEFINE r == Inspection!Left(stored, p)
  <2>1. PICK R, S, t : r = [[stored EXCEPT !.roster = R, !.reports = S] EXCEPT !.election = t]
    BY DEF Inspection!Left
  <2>2. Inspection!Writes(r)
    BY <1>5 DEF Inspection!LeaveLobby
  <2> HIDE DEF r
  <2> DEFINE a == [stored EXCEPT !.roster = R]
             b == [a EXCEPT !.reports = S]
  <2>3. /\ IsRecord(a) /\ a.requested = stored.requested
        /\ a.gated = stored.gated /\ a.lifecycle = stored.lifecycle
    BY <1>1 DEF IsRecord
  <2>4. r = [b EXCEPT !.election = t]
    BY <1>1, <2>1 DEF IsRecord
  <2> HIDE DEF a
  <2>5. /\ IsRecord(b) /\ b.requested = stored.requested
        /\ b.gated = stored.gated /\ b.lifecycle = stored.lifecycle
    BY <2>3 DEF IsRecord
  <2> HIDE DEF b
  <2>6. /\ IsRecord(r) /\ r.requested = stored.requested
        /\ r.gated = stored.gated /\ r.lifecycle = stored.lifecycle
    BY <2>4, <2>5 DEF IsRecord
  <2> QED
    BY <1>2, <2>2, <2>6
<1>6. ASSUME NEW p \in Member, NEW s \in Report, Inspection!SubmitMeasurements(p, s)
      PROVE  InspectionInv'
  <2> DEFINE r == [stored EXCEPT !.reports[p] = [s EXCEPT !.at = clock], !.election = clock]
  <2>1. Inspection!Writes(r)
    BY <1>6 DEF Inspection!SubmitMeasurements
  <2>2. PICK S : r = [stored EXCEPT !.reports = S, !.election = clock]
    OBVIOUS
  <2> HIDE DEF r
  <2>3. /\ IsRecord(r) /\ r.requested = stored.requested
        /\ r.gated = stored.gated /\ r.lifecycle = stored.lifecycle
    BY <1>1, <2>2 DEF IsRecord
  <2> QED
    BY <1>2, <2>1, <2>3
<1> QED
  BY <1>3, <1>4, <1>5, <1>6

\* The first cleanup forgets what was observed before it.
LEMMA CleanupKeeps ==
    ASSUME InspectionInv, Inspection!BeginCleanup \/ Inspection!FinishCleanup
    PROVE  InspectionInv'
<1>1. IsRecord(stored) /\ stored.requested \in Nat /\ clock \in Nat \ {0}
      /\ cache \in Observation /\ poll \in Polled /\ stored.requested <= clock
  BY DEF InspectionInv
<1>2. CASE Inspection!BeginCleanup
  <2> DEFINE v == Inspection!Voided(stored)
  <2>1. /\ poll = Inspection!NoPoll /\ UNCHANGED <<waiting, poll, clock>>
        /\ cache' = IF stored.requested = 0 THEN Inspection!NoObservation ELSE cache
    BY <1>2 DEF Inspection!BeginCleanup, Inspection!Forgotten, Inspection!None
  <2>2. /\ IsRecord(v) /\ v.requested = stored.requested /\ v.gated = stored.gated
        /\ v.lifecycle = stored.lifecycle
    BY <1>1 DEF Inspection!Voided, IsRecord
  <2>3. \/ stored' = v \/ stored' = [v EXCEPT !.lifecycle = "ManualRemediation"]
        \/ stored' = [v EXCEPT !.lifecycle = "CleanupRequested", !.requested = Inspection!Or(@)]
    BY <1>2 DEF Inspection!BeginCleanup
  <2> HIDE DEF v
  <2>4. /\ IsRecord(stored') /\ stored'.gated = stored.gated
        /\ \/ stored'.requested = stored.requested
           \/ stored'.requested = IF stored.requested = 0 THEN clock ELSE stored.requested
        /\ stored'.lifecycle \in {stored.lifecycle, "ManualRemediation", "CleanupRequested"}
    <3>1. CASE stored' = v \/ stored' = [v EXCEPT !.lifecycle = "ManualRemediation"]
      BY <2>2, <3>1 DEF IsRecord
    <3>2. CASE stored' = [v EXCEPT !.lifecycle = "CleanupRequested", !.requested = Inspection!Or(@)]
      <4> DEFINE w == [v EXCEPT !.lifecycle = "CleanupRequested"]
                 t == IF stored.requested = 0 THEN clock ELSE stored.requested
      <4>1. /\ IsRecord(w) /\ w.requested = stored.requested /\ w.gated = stored.gated
            /\ w.lifecycle = "CleanupRequested"
        BY <2>2 DEF IsRecord
      <4>2. stored' = [w EXCEPT !.requested = t]
        BY <2>2, <3>2 DEF Inspection!Or, Inspection!None
      <4> HIDE DEF w, t
      <4>3. /\ IsRecord(stored') /\ stored'.requested = t /\ stored'.gated = w.gated
            /\ stored'.lifecycle = w.lifecycle
        BY <4>1, <4>2 DEF IsRecord
      <4> QED
        BY <4>1, <4>3 DEF t
    <3> QED
      BY <2>3, <3>1, <3>2
  <2>5. /\ cache' \in Observation
        /\ cache' = cache \/ cache'.succeeded = 0
        /\ stored.requested = 0 => cache'.succeeded = 0
    BY <1>1, <2>1 DEF Observation, Inspection!NoObservation, Inspection!None
  <2>6. PollIsLater' /\ poll' \in Polled
    BY <1>1, <2>1 DEF PollIsLater
  <2>7. CacheIsOrdered'
    BY <2>1, <2>5 DEF InspectionInv, CacheIsOrdered
  <2>8. Unborn'
    BY <2>1, <2>4, <2>5 DEF InspectionInv, Unborn
  <2>9. Inspection!NothingOutlivesTeardown'
    BY <1>1, <2>1, <2>4, <2>5
    DEF InspectionInv, Inspection!NothingOutlivesTeardown, Inspection!None
  <2> QED
    BY <1>1, <2>1, <2>4, <2>5, <2>6, <2>7, <2>8, <2>9 DEF InspectionInv, WaitersAreEarlier
<1>3. CASE Inspection!FinishCleanup
  <2>1. \/ \E x \in {"CleanupPending", "ManualRemediation", "SharedResourcesClean"} :
              stored' = [stored EXCEPT !.lifecycle = x]
        \/ \E t : stored' = [stored EXCEPT !.lifecycle = "VerifyingAbsence", !.acknowledged = t]
    BY <1>3 DEF Inspection!FinishCleanup
  <2>2. /\ IsRecord(stored') /\ stored'.requested = stored.requested
        /\ stored'.gated = stored.gated /\ stored'.lifecycle \notin {"Reserved", "Creating"}
    BY <1>1, <2>1 DEF IsRecord
  <2>3. UNCHANGED <<cache, waiting, poll, clock>>
    BY <1>3 DEF Inspection!FinishCleanup
  <2> QED
    BY <1>1, <2>2, <2>3 DEF InspectionInv, WaitersAreEarlier, PollIsLater, CacheIsOrdered, Unborn,
                            Inspection!NothingOutlivesTeardown
<1> QED
  BY <1>2, <1>3

LEMMA PollKeeps ==
    ASSUME InspectionBounds, InspectionInv,
           \/ Inspection!Refresh \/ \E t \in waiting : Inspection!BeginPoll(t)
           \/ Inspection!ProviderAnswers \/ Inspection!CacheObservation
    PROVE  InspectionInv'
<1>1. /\ stored.requested \in Nat /\ clock \in Nat \ {0} /\ stored.requested <= clock
      /\ cache \in Observation /\ poll \in Polled
  BY DEF InspectionInv
<1>2. /\ cache.succeeded \in Nat /\ cache.failed \in Nat /\ cache.asked \in Nat
      /\ cache.taken \in Nat /\ poll.began \in Nat /\ poll.asked \in Nat /\ poll.taken \in Nat
  BY <1>1 DEF Observation, Polled
<1>3. ASSUME NEW t \in waiting, Inspection!BeginPoll(t) PROVE InspectionInv'
  <2>1. /\ poll = Inspection!NoPoll /\ UNCHANGED <<stored, cache, clock>> /\ waiting' \subseteq waiting
        /\ \/ poll' = Inspection!NoPoll
           \/ /\ poll' = [began |-> t, asked |-> clock, answer |-> "none", taken |-> 0]
              /\ stored.lifecycle \notin {"Reserved", "Creating"}
    BY <1>3 DEF Inspection!BeginPoll, Inspection!None, Inspection!Cleaning
  <2>2. WaitersAreEarlier' /\ t \in Nat /\ 0 < t /\ t <= clock
    BY <2>1 DEF InspectionInv, WaitersAreEarlier
  <2>3. CASE poll' = Inspection!NoPoll
    BY <1>1, <2>1, <2>2, <2>3 DEF InspectionInv, PollIsLater, CacheIsOrdered, Unborn,
                                  Inspection!NothingOutlivesTeardown
  <2>4. CASE /\ poll' = [began |-> t, asked |-> clock, answer |-> "none", taken |-> 0]
             /\ stored.lifecycle \notin {"Reserved", "Creating"}
    <3>1. /\ poll' \in Polled /\ poll'.began = t /\ poll'.asked = clock /\ poll'.answer = "none"
      BY <1>1, <2>2, <2>4 DEF Polled
    <3>2. PollIsLater'
      BY <1>1, <1>2, <2>1, <2>2, <3>1 DEF InspectionInv, PollIsLater
    <3> QED
      BY <1>1, <2>1, <2>2, <2>4, <3>1, <3>2 DEF InspectionInv, CacheIsOrdered, Unborn,
                                                Inspection!NothingOutlivesTeardown
  <2> QED
    BY <2>1, <2>3, <2>4
<1>6. CASE Inspection!Refresh
  <2>1. waiting' = waiting \cup {clock} /\ UNCHANGED <<stored, cache, poll, clock>>
    BY <1>6 DEF Inspection!Refresh
  <2>2. WaitersAreEarlier'
    BY <1>1, <2>1 DEF InspectionInv, WaitersAreEarlier
  <2> QED
    BY <2>1, <2>2 DEF InspectionInv, PollIsLater, CacheIsOrdered, Unborn,
                      Inspection!NothingOutlivesTeardown
<1>4. CASE Inspection!ProviderAnswers
  <2>1. PICK a \in {"count"} \cup Failure : poll' = [poll EXCEPT !.answer = a, !.taken = clock]
    BY <1>4 DEF Inspection!ProviderAnswers
  <2>2. UNCHANGED <<stored, cache, waiting, clock>> /\ poll # Inspection!NoPoll
    BY <1>4 DEF Inspection!ProviderAnswers
  <2>3. /\ poll' \in Polled /\ poll'.began = poll.began /\ poll'.asked = poll.asked
        /\ poll'.taken = clock
    BY <1>1, <2>1 DEF Polled
  <2>4. PollIsLater'
    BY <1>1, <1>2, <2>2, <2>3 DEF InspectionInv, PollIsLater
  <2>5. Unborn'
    BY <2>2 DEF InspectionInv, Unborn
  <2> QED
    BY <1>1, <2>2, <2>3, <2>4, <2>5 DEF InspectionInv, WaitersAreEarlier, CacheIsOrdered,
                                         Inspection!NothingOutlivesTeardown
<1>5. CASE Inspection!CacheObservation
  <2>1. /\ poll # Inspection!NoPoll /\ poll.answer # "none" /\ poll' = Inspection!NoPoll
        /\ UNCHANGED <<stored, waiting, clock>>
        /\ \/ cache' = cache \/ cache' = Inspection!Success(poll)
           \/ cache' = Inspection!Failed(cache, poll) /\ poll.answer # "count"
    BY <1>5 DEF Inspection!CacheObservation
  <2>2. poll' \in Polled /\ PollIsLater' /\ WaitersAreEarlier'
    BY <2>1 DEF InspectionInv, Polled, PollIsLater, WaitersAreEarlier, Inspection!NoPoll, Inspection!None
  <2>3. stored.lifecycle \notin {"Reserved", "Creating"}
    BY <2>1 DEF InspectionInv, Unborn
  <2>4. /\ 0 < poll.began /\ poll.began <= poll.asked /\ poll.asked <= poll.taken
        /\ poll.taken <= clock
        /\ stored.requested # 0 => stored.gated \/ poll.asked >= stored.requested
    BY <2>1 DEF InspectionInv, PollIsLater
  <2>5. CASE cache' = cache
    BY <1>1, <2>1, <2>2, <2>3, <2>5
    DEF InspectionInv, CacheIsOrdered, Unborn, Inspection!NothingOutlivesTeardown
  <2>6. CASE cache' = Inspection!Success(poll)
    <3>1. /\ cache' \in Observation /\ cache'.succeeded = poll.began /\ cache'.failed = 0
          /\ cache'.asked = poll.asked /\ cache'.taken = poll.taken
      BY <1>2, <2>6 DEF Inspection!Success, Observation, Inspection!None
    <3> QED
      BY <1>1, <1>2, <2>1, <2>2, <2>3, <2>4, <3>1
      DEF InspectionInv, CacheIsOrdered, Unborn, Inspection!NothingOutlivesTeardown,
          Inspection!None
  <2>7. CASE cache' = Inspection!Failed(cache, poll) /\ poll.answer # "count"
    <3>1. poll.answer \in Failure
      BY <1>1, <2>1, <2>7 DEF Polled
    <3>2. /\ cache' \in Observation /\ cache'.succeeded = cache.succeeded
          /\ cache'.asked = cache.asked /\ cache'.taken = cache.taken
      <4> DEFINE f == [cache EXCEPT !.failed = poll.began]
      <4>1. f \in Observation /\ f.succeeded = cache.succeeded /\ f.asked = cache.asked
            /\ f.taken = cache.taken
        BY <1>1, <1>2 DEF Observation
      <4>2. cache' = [f EXCEPT !.failure = poll.answer]
        BY <2>7 DEF Inspection!Failed
      <4> HIDE DEF f
      <4> QED
        BY <3>1, <4>1, <4>2 DEF Observation
    <3> QED
      BY <1>1, <1>2, <2>1, <2>2, <2>3, <2>4, <3>2
      DEF InspectionInv, CacheIsOrdered, Unborn, Inspection!NothingOutlivesTeardown,
          Inspection!None
  <2> QED
    BY <2>1, <2>5, <2>6, <2>7
<1> QED
  BY <1>3, <1>4, <1>5, <1>6

\* A device count that is shown as fresh was taken at the provider within the window,
\* however long its refresh waited for the lock after it had read the clock, and a
\* count on record of a network being torn down was asked for after the request,
\* unless a policy gate made it (refresh_network_observation_at, cleanup_resources).
THEOREM CountsAreTrue ==
    InspectionBounds => (Inspection!Spec =>
        [](Inspection!FreshCountIsRecent /\ Inspection!NothingOutlivesTeardown))
<1> SUFFICES ASSUME InspectionBounds
             PROVE  Inspection!Spec =>
                       [](Inspection!FreshCountIsRecent /\ Inspection!NothingOutlivesTeardown)
  OBVIOUS
<1>1. Inspection!Init => InspectionInv
  <2> SUFFICES ASSUME Inspection!Init PROVE InspectionInv
    OBVIOUS
  <2>1. IsRecord(stored) /\ stored.requested = 0
    BY DEF Inspection!Init, IsRecord, Inspection!None
  <2>2. /\ cache \in Observation /\ cache.succeeded = 0 /\ poll \in Polled
        /\ poll = Inspection!NoPoll /\ clock = 1 /\ waiting = {}
    BY DEF Inspection!Init, Inspection!NoObservation, Inspection!NoPoll, Inspection!None,
           Observation, Polled
  <2> QED
    BY <2>1, <2>2 DEF InspectionInv, WaitersAreEarlier, PollIsLater, CacheIsOrdered, Unborn,
                      Inspection!NothingOutlivesTeardown, Inspection!None
<1>2. InspectionInv /\ [Inspection!Next]_Inspection!vars => InspectionInv'
  <2> SUFFICES ASSUME InspectionInv, [Inspection!Next]_Inspection!vars PROVE InspectionInv'
    OBVIOUS
  <2>1. CASE Inspection!Tick
    <3>1. /\ clock' = clock + 1 /\ clock \in Nat \ {0} /\ stored.requested \in Nat
          /\ cache \in Observation /\ poll \in Polled /\ UNCHANGED <<stored, cache, waiting, poll>>
      BY <2>1 DEF Inspection!Tick, InspectionInv
    <3>2. /\ cache.succeeded \in Nat /\ cache.failed \in Nat /\ cache.asked \in Nat
          /\ cache.taken \in Nat /\ poll.began \in Nat /\ poll.asked \in Nat /\ poll.taken \in Nat
      BY <3>1 DEF Observation, Polled
    <3>3. PollIsLater' /\ CacheIsOrdered' /\ WaitersAreEarlier'
      BY <3>1, <3>2 DEF InspectionInv, WaitersAreEarlier, PollIsLater, CacheIsOrdered
    <3> QED
      BY <3>1, <3>3 DEF InspectionInv, Unborn, Inspection!NothingOutlivesTeardown
  <2>2. CASE UNCHANGED Inspection!vars
    BY <2>2 DEF Inspection!vars, InspectionInv, WaitersAreEarlier, PollIsLater, CacheIsOrdered, Unborn,
                Inspection!NothingOutlivesTeardown
  <2> QED
    BY <2>1, <2>2, CreationKeeps, OtherWritesKeep, CleanupKeeps, PollKeeps DEF Inspection!Next
<1>3. InspectionInv => Inspection!FreshCountIsRecent /\ Inspection!NothingOutlivesTeardown
  <2> SUFFICES ASSUME InspectionInv PROVE Inspection!FreshCountIsRecent
    BY DEF InspectionInv
  <2>1. /\ clock \in Nat /\ cache.succeeded \in Nat /\ cache.asked \in Nat
        /\ cache.taken \in Nat
    BY DEF InspectionInv, Observation
  <2>2. ASSUME Inspection!EnrollmentFact(cache, clock).freshness = "fresh"
        PROVE  cache.succeeded # 0 /\ clock - cache.succeeded < DeviceWindow
    BY <2>2 DEF Inspection!EnrollmentFact, Inspection!Known, Inspection!Unknown,
                Inspection!Aged, Inspection!None
  <2> QED
    BY <2>1, <2>2 DEF InspectionInv, CacheIsOrdered, InspectionBounds,
                      Inspection!FreshCountIsRecent, Inspection!None
<1> QED
  BY <1>1, <1>2, <1>3, PTL DEF Inspection!Spec

-----------------------------------------------------------------------------
(* The client: THEOREM SessionsStayApart.                                    *)

\* Workers are counted.
ClientBounds == MaxWorkers \in Nat

IsClient(l) ==
    l = [generation |-> l.generation, player |-> l.player, creator |-> l.creator,
         participant |-> l.participant, copied |-> l.copied, auto |-> l.auto]

IsCount(c) == c = [lobbies |-> c.lobbies, codes |-> c.codes, frames |-> c.frames, minted |-> c.minted]

ClientTypes ==
    /\ IsClient(lobby) /\ lobby.generation \in Nat /\ IsCount(counts)
    /\ main \in {"run", "cancelling", "joining", "clearing"}

\* A code that is remembered was minted; a reset forgets it before it ends.
CodesAreMinted ==
    /\ counts.codes \in Nat /\ counts.minted \in Seq(Nat) /\ Len(counts.minted) = counts.codes
    /\ lobby.copied \in 0..counts.codes
    /\ main \in {"joining", "clearing"} => lobby.copied = 0
    /\ main = "run" /\ lobby.copied # 0 => counts.minted[lobby.copied] = lobby.generation
    /\ Client!CodesAreTracked

Held == {lobby.creator, lobby.participant} \subseteq {0, lobby.generation}

LobbySide == ClientTypes /\ CodesAreMinted /\ Held

\* A step within a generation that copies no code; a reset goes on once the code is
\* forgotten.
LEMMA LobbyGoesOn ==
    ASSUME LobbySide, IsClient(lobby'), lobby'.generation = lobby.generation,
           lobby'.copied = lobby.copied, lobby'.creator \in {lobby.creator, lobby.generation},
           lobby'.participant \in {lobby.participant, lobby.generation},
           IsCount(counts'), counts'.codes = counts.codes, counts'.minted = counts.minted,
           main' = main \/ (main \in {"joining", "clearing"} /\ main' \in {"clearing", "run"}),
           Client!CodesAreTracked'
    PROVE  LobbySide'
<1>1. ClientTypes' /\ Held'
  BY DEF LobbySide, ClientTypes, Held
<1>2. CodesAreMinted'
  BY DEF LobbySide, CodesAreMinted
<1> QED
  BY <1>1, <1>2 DEF LobbySide

\* Requests, buttons, frames and workers: neither a capability nor a code moves.
LEMMA LobbyStays ==
    ASSUME LobbySide, UNCHANGED <<main, lobby, clipboard, unreliable>>,
           \/ counts' = counts
           \/ counts' = [counts EXCEPT !.lobbies = @ + 1]
           \/ counts' = [counts EXCEPT !.frames = @ + 1]
    PROVE  LobbySide'
<1>1. IsCount(counts') /\ counts'.codes = counts.codes /\ counts'.minted = counts.minted
  BY DEF LobbySide, ClientTypes, IsCount
<1>2. Client!CodesAreTracked' /\ IsClient(lobby')
  BY DEF LobbySide, ClientTypes, CodesAreMinted, Client!CodesAreTracked
<1> QED
  BY <1>1, <1>2, LobbyGoesOn

LEMMA PressKeeps ==
    ASSUME LobbySide,
           \/ Client!Finish \/ Client!CreatePressed \/ Client!JoinPressed \/ Client!Poll
           \/ Client!ShareAgain \/ Client!LeavePressed \/ Client!RequestLeave \/ Client!SendPacket
           \/ Client!PollWorkerEvent \/ \E w \in 1..MaxWorkers : Client!WorkerStep(w)
           \/ \E op \in {"create", "join"} : Client!Capture(op)
    PROVE  LobbySide'
<1>1. CASE \E w \in 1..MaxWorkers : Client!WorkerStep(w)
  <2>1. UNCHANGED <<main, lobby, clipboard, unreliable, counts>>
    BY <1>1 DEF Client!WorkerStep, Client!StartWorker, Client!EnrollCommand, Client!EnrollAnswer,
         Client!Replay, Client!LiveCommand, Client!Receive, Client!CloseWorker, Client!WorkerOnly
  <2> QED
    BY <2>1, LobbyStays
<1>2. CASE Client!Finish \/ Client!PollWorkerEvent \/ \E op \in {"create", "join"} : Client!Capture(op)
  <2>1. UNCHANGED <<main, lobby, clipboard, unreliable, counts>>
    BY <1>2 DEF Client!Finish, Client!PollWorkerEvent, Client!Capture
  <2> QED
    BY <2>1, LobbyStays
<1>3. CASE \/ Client!CreatePressed \/ Client!JoinPressed \/ Client!Poll \/ Client!ShareAgain
           \/ Client!LeavePressed \/ Client!RequestLeave \/ Client!SendPacket
  <2>1. /\ UNCHANGED <<main, lobby, clipboard, unreliable>>
        /\ \/ counts' = counts
           \/ counts' = [counts EXCEPT !.lobbies = @ + 1]
           \/ counts' = [counts EXCEPT !.frames = @ + 1]
    BY <1>3 DEF Client!CreatePressed, Client!JoinPressed, Client!Poll, Client!ShareAgain,
                Client!LeavePressed, Client!RequestLeave, Client!SendPacket
  <2> QED
    BY <2>1, LobbyStays
<1> QED
  BY <1>1, <1>2, <1>3

\* What is on the clipboard stays tracked when a code is cleared from it.
LEMMA ClearedIsTracked ==
    ASSUME Client!CodesAreTracked, NEW c \in Client!ClearedIfMatches(lobby.copied)
    PROVE  c[1] # 0 => c[1] \in unreliable \cup c[2]
BY DEF Client!CodesAreTracked, Client!ClearedIfMatches

LEMMA ClipboardKeeps ==
    ASSUME LobbySide, Client!Paste \/ Client!HumanCopies \/ Client!Configure
    PROVE  LobbySide'
<1>1. CASE Client!Paste \/ Client!HumanCopies
  <2>1. UNCHANGED <<main, lobby, counts>>
    BY <1>1 DEF Client!Paste, Client!HumanCopies
  <2>2. Client!CodesAreTracked'
    BY <1>1 DEF Client!Paste, Client!HumanCopies, LobbySide, CodesAreMinted, Client!CodesAreTracked
  <2>3. IsClient(lobby') /\ IsCount(counts')
    BY <2>1 DEF LobbySide, ClientTypes
  <2> QED
    BY <2>1, <2>2, <2>3, LobbyGoesOn
<1>2. CASE Client!Configure
  <2>1. lobby' = [lobby EXCEPT !.player = TRUE] /\ UNCHANGED <<main, clipboard, unreliable, counts>>
    BY <1>2 DEF Client!Configure
  <2>2. /\ IsClient(lobby') /\ lobby'.generation = lobby.generation /\ lobby'.copied = lobby.copied
        /\ lobby'.creator = lobby.creator /\ lobby'.participant = lobby.participant
    BY <2>1 DEF LobbySide, ClientTypes, IsClient
  <2>3. Client!CodesAreTracked' /\ IsCount(counts')
    BY <2>1, <2>2 DEF LobbySide, ClientTypes, CodesAreMinted, Client!CodesAreTracked
  <2> QED
    BY <2>1, <2>2, <2>3, LobbyGoesOn
<1> QED
  BY <1>1, <1>2

\* The reset, step by step.
LEMMA ResetKeeps ==
    ASSUME LobbySide, Client!DrainEvents \/ Client!JoinRequests \/ Client!ClearSession
    PROVE  LobbySide'
<1>1. CASE Client!DrainEvents
  <2>1. PICK c \in Client!ClearedIfMatches(lobby.copied) :
           /\ clipboard' = c[1] /\ unreliable' = unreliable \cup c[2]
           /\ main' = "joining" /\ lobby' = [lobby EXCEPT !.copied = 0] /\ UNCHANGED counts
    BY <1>1 DEF Client!DrainEvents
  <2>2. /\ IsClient(lobby') /\ lobby'.copied = 0 /\ lobby'.generation = lobby.generation
        /\ lobby'.creator = lobby.creator /\ lobby'.participant = lobby.participant
    BY <2>1 DEF LobbySide, ClientTypes, IsClient
  <2>3. Client!CodesAreTracked'
    BY <2>1, ClearedIsTracked DEF LobbySide, CodesAreMinted, Client!CodesAreTracked
  <2>4. CodesAreMinted'
    BY <2>1, <2>2, <2>3 DEF LobbySide, CodesAreMinted
  <2> QED
    BY <2>1, <2>2, <2>4 DEF LobbySide, ClientTypes, Held
<1>2. CASE Client!JoinRequests \/ Client!ClearSession
  <2>1. /\ UNCHANGED <<lobby, clipboard, unreliable, counts>>
        /\ main \in {"joining", "clearing"} /\ main' \in {"clearing", "run"}
    BY <1>2 DEF Client!JoinRequests, Client!ClearSession
  <2>2. Client!CodesAreTracked' /\ IsClient(lobby') /\ IsCount(counts')
    BY <2>1 DEF LobbySide, ClientTypes, CodesAreMinted, Client!CodesAreTracked
  <2> QED
    BY <2>1, <2>2, LobbyGoesOn
<1> QED
  BY <1>1, <1>2

\* A code is copied: it is minted for this generation, and the one before it is
\* cleared, or its clearing failed.
LEMMA ShareKeeps ==
    ASSUME LobbySide, main = "run", NEW e, e.gen = lobby.generation,
           counts' = [counts EXCEPT !.codes = @ + 1, !.minted = Append(@, e.gen)],
           Client!CopyInvitation(counts.codes + 1), main' = main
    PROVE  LobbySide'
<1> DEFINE g == lobby.generation
<1>1. PICK c \in Client!ClearedIfMatches(lobby.copied), written \in BOOLEAN :
         /\ clipboard' = IF written THEN counts.codes + 1 ELSE c[1]
         /\ unreliable' = unreliable \cup c[2]
         /\ lobby' = [lobby EXCEPT !.copied = IF written THEN counts.codes + 1 ELSE 0]
  BY DEF Client!CopyInvitation
<1>2. /\ IsClient(lobby') /\ lobby'.copied = (IF written THEN counts.codes + 1 ELSE 0)
      /\ lobby'.generation = g
      /\ lobby'.creator = lobby.creator /\ lobby'.participant = lobby.participant
  BY <1>1 DEF LobbySide, ClientTypes, IsClient
<1>3. /\ IsCount(counts') /\ counts'.codes = counts.codes + 1
      /\ counts'.minted = Append(counts.minted, g)
  BY DEF LobbySide, ClientTypes, IsCount
<1>4. Client!CodesAreTracked'
  BY <1>1, <1>2, ClearedIsTracked DEF LobbySide, CodesAreMinted, Client!CodesAreTracked
<1>5. /\ counts.codes \in Nat /\ g \in Nat /\ counts.minted \in Seq(Nat)
      /\ Len(counts.minted) = counts.codes
  BY DEF LobbySide, CodesAreMinted, ClientTypes
<1>6. /\ Append(counts.minted, g) \in Seq(Nat)
      /\ Len(Append(counts.minted, g)) = counts.codes + 1
      /\ Append(counts.minted, g)[counts.codes + 1] = g
  BY <1>5
<1>7. CodesAreMinted'
  BY <1>2, <1>3, <1>4, <1>5, <1>6 DEF CodesAreMinted
<1> QED
  BY <1>2, <1>3, <1>7 DEF LobbySide, ClientTypes, Held

\* cancel: a new generation that holds nothing yet.
LEMMA CancelKeeps ==
    ASSUME LobbySide, NEW Q, Client!Cancel(Q), UNCHANGED <<clipboard, unreliable, counts>>
    PROVE  LobbySide'
<1>1. main' = "cancelling" /\ lobby' = Client!Cancelled
  BY DEF Client!Cancel
<1>2. /\ IsClient(lobby') /\ lobby'.generation = lobby.generation + 1 /\ lobby.generation \in Nat
      /\ lobby'.creator = 0 /\ lobby'.participant = 0 /\ lobby'.copied = lobby.copied
  BY <1>1 DEF Client!Cancelled, LobbySide, ClientTypes, IsClient
<1>3. CodesAreMinted'
  BY <1>1, <1>2 DEF LobbySide, CodesAreMinted, Client!CodesAreTracked
<1> QED
  BY <1>1, <1>2, <1>3 DEF LobbySide, ClientTypes, Held

\* The events of the request threads; those of another generation are skipped.
LEMMA LobbyEventKeeps ==
    ASSUME LobbySide, Client!PollLobbyEvent PROVE LobbySide'
<1> DEFINE e == Head(channel)
           Q == Tail(channel)
<1>1. CASE /\ UNCHANGED <<main, clipboard, unreliable, counts>>
           /\ \/ lobby' = lobby
              \/ /\ e.gen = lobby.generation
                 /\ lobby' = [lobby EXCEPT !.creator = e.gen, !.auto = e.lobby]
              \/ lobby' = [lobby EXCEPT !.auto = 0]
              \/ lobby' = [lobby EXCEPT !.participant = lobby.generation]
  <2>1. /\ IsClient(lobby') /\ lobby'.generation = lobby.generation /\ lobby'.copied = lobby.copied
        /\ lobby'.creator \in {lobby.creator, lobby.generation}
        /\ lobby'.participant \in {lobby.participant, lobby.generation}
    BY <1>1 DEF LobbySide, ClientTypes, IsClient
  <2>2. Client!CodesAreTracked' /\ IsCount(counts')
    BY <1>1, <2>1 DEF LobbySide, ClientTypes, CodesAreMinted, Client!CodesAreTracked
  <2> QED
    BY <1>1, <2>1, <2>2, LobbyGoesOn
<1>2. CASE /\ e.gen = lobby.generation /\ main = "run" /\ main' = main
           /\ counts' = [counts EXCEPT !.codes = @ + 1, !.minted = Append(@, e.gen)]
           /\ Client!CopyInvitation(counts.codes + 1)
  BY <1>2, ShareKeeps
<1>3. CASE Client!Cancel(Q) /\ UNCHANGED <<clipboard, unreliable, counts>>
  BY <1>3, CancelKeeps
<1>4. ASSUME Client!JoinedPosse(Q)
      PROVE  lobby' \in {lobby, [lobby EXCEPT !.participant = lobby.generation]}
  BY <1>4 DEF Client!JoinedPosse
<1> QED
  BY <1>1, <1>2, <1>3, <1>4 DEF Client!PollLobbyEvent, Client!Current

\* The peer side: the workers and what PeerSession holds of them.
IsEnd(p) ==
    p = [tx |-> p.tx, rx |-> p.rx, handle |-> p.handle, generation |-> p.generation,
         state |-> p.state]

IsWorker(x) ==
    x = [phase |-> x.phase, lobby |-> x.lobby, cmds |-> x.cmds, deferred |-> x.deferred,
         out |-> x.out]

Outcome == {"connected", "failed", "stopped"}

Worked(ws) ==
    /\ ws = [w \in 1..MaxWorkers |-> ws[w]]
    /\ \A w \in 1..MaxWorkers : IsWorker(ws[w]) /\ ws[w].out \in Seq(Outcome)

Runs(x) == x.phase \notin {"none", "ended"}

PeerTypes ==
    /\ IsEnd(peer) /\ peer.tx \in 0..MaxWorkers /\ peer.rx \in 0..MaxWorkers
    /\ peer.handle \in 0..MaxWorkers /\ peer.generation \in Nat
    /\ Worked(workers)

\* A worker that runs is the one whose thread is held, or an older one that was
\* replaced: it is sent nothing and heard by nobody.
Owned ==
    \A w \in 1..MaxWorkers : Runs(workers[w]) =>
        /\ w <= peer.generation
        /\ w # peer.handle =>
              /\ w # peer.tx /\ w # peer.rx /\ workers[w].out = <<>>
              /\ peer.handle # 0 => w < peer.handle

\* The one held was enrolled for this generation, outside a reset.
Enrolled ==
    main = "run" => \A w \in 1..MaxWorkers :
        Runs(workers[w]) /\ w = peer.handle => workers[w].lobby = lobby.generation

\* The last event of a worker that ended says so, until it is polled.
Final(out) == Len(out) > 0 /\ out[Len(out)] \in {"failed", "stopped"}

Ending ==
    \A w \in 1..MaxWorkers :
        workers[w].phase = "ended" => workers[w].out = <<>> \/ Final(workers[w].out)

Connection ==
    peer.state \in {"connecting", "connected"} =>
        /\ peer.rx # 0 /\ peer.rx <= peer.generation
        /\ \/ workers[peer.rx].phase # "ended" \/ workers[peer.rx].out # <<>>
           \/ peer.rx < peer.generation

PeerSide == PeerTypes /\ Owned /\ Enrolled /\ Ending /\ Connection

\* Of a step that changes neither.
LEMMA PeerStays ==
    ASSUME PeerSide, UNCHANGED <<peer, workers>>,
           main' = "run" => main = "run" /\ lobby'.generation = lobby.generation
    PROVE  PeerSide'
<1>1. PeerTypes' /\ Ending' /\ Connection'
  BY DEF PeerSide, PeerTypes, Ending, Connection
<1>2. Owned' /\ Enrolled'
  BY DEF PeerSide, Owned, Enrolled
<1> QED
  BY <1>1, <1>2 DEF PeerSide

\* What a queued command leaves alone.
LEMMA CommandKeeps ==
    ASSUME PeerSide, Worked(workers'), IsEnd(peer'), peer'.tx \in {0, peer.tx},
           peer'.tx \in 0..MaxWorkers,
           \A w \in 1..MaxWorkers : /\ workers'[w].phase = workers[w].phase
                                    /\ workers'[w].lobby = workers[w].lobby
                                    /\ workers'[w].out = workers[w].out,
           peer'.rx = peer.rx, peer'.handle = peer.handle, peer'.generation = peer.generation,
           peer'.state = peer.state \/ peer'.state \notin {"connecting", "connected"},
           main' = "run" => main = "run" /\ lobby'.generation = lobby.generation
    PROVE  PeerSide'
<1>1. PeerTypes'
  BY DEF PeerSide, PeerTypes
<1>2. Owned'
  BY DEF PeerSide, Owned, Runs
<1>3. Enrolled'
  BY DEF PeerSide, Enrolled, Runs
<1>4. Ending' /\ Connection'
  BY DEF PeerSide, PeerTypes, Ending, Connection
<1> QED
  BY <1>1, <1>2, <1>3, <1>4 DEF PeerSide

LEMMA QueueOne ==
    ASSUME PeerSide, NEW w \in 1..MaxWorkers, NEW c,
           workers' = [workers EXCEPT ![w].cmds = Append(@, c)]
    PROVE  /\ Worked(workers')
           /\ \A v \in 1..MaxWorkers : /\ workers'[v].phase = workers[v].phase
                                        /\ workers'[v].lobby = workers[v].lobby
                                        /\ workers'[v].out = workers[v].out
<1>1. /\ workers = [v \in 1..MaxWorkers |-> workers[v]]
      /\ \A v \in 1..MaxWorkers : IsWorker(workers[v]) /\ workers[v].out \in Seq(Outcome)
  BY DEF PeerSide, PeerTypes, Worked
<1>2. PICK q : workers' = [workers EXCEPT ![w] = [workers[w] EXCEPT !.cmds = q]]
  OBVIOUS
<1> DEFINE x == [workers[w] EXCEPT !.cmds = q]
<1>3. /\ IsWorker(x) /\ x.phase = workers[w].phase /\ x.lobby = workers[w].lobby
      /\ x.out = workers[w].out
  BY <1>1 DEF IsWorker
<1> HIDE DEF x
<1>4. workers' = [workers EXCEPT ![w] = x]
  BY <1>2 DEF x
<1>5. /\ workers' = [v \in 1..MaxWorkers |-> workers'[v]] /\ workers'[w] = x
      /\ \A v \in 1..MaxWorkers : v # w => workers'[v] = workers[v]
  BY <1>1, <1>4
<1> QED
  BY <1>1, <1>3, <1>5 DEF Worked

LEMMA StopKeeps ==
    ASSUME ClientBounds, PeerSide, Client!LeavePressed \/ Client!JoinRequests PROVE PeerSide'
<1>1. /\ peer' = Client!StoppedPeer /\ workers' = Client!StoppedWorkers
      /\ main' = "run" => main = "run" /\ lobby'.generation = lobby.generation
  <2>1. CASE Client!LeavePressed
    BY <2>1 DEF Client!LeavePressed
  <2>2. CASE Client!JoinRequests
    BY <2>2 DEF Client!JoinRequests
  <2> QED
    BY <2>1, <2>2
<1>2. CASE peer.tx = 0
  <2>1. UNCHANGED <<peer, workers>>
    BY <1>1, <1>2 DEF Client!StoppedPeer, Client!StoppedWorkers
  <2> QED
    BY <1>1, <2>1, PeerStays
<1>3. CASE peer.tx # 0
  <2>1. /\ peer' = [peer EXCEPT !.tx = 0, !.state = "disconnecting"]
        /\ workers' = [workers EXCEPT ![peer.tx].cmds = Append(@, Client!Stop)]
    BY <1>1, <1>3 DEF Client!StoppedPeer, Client!StoppedWorkers
  <2>2. peer.tx \in 1..MaxWorkers /\ IsEnd(peer)
    BY <1>3 DEF PeerSide, PeerTypes
  <2>3. /\ IsEnd(peer') /\ peer'.tx = 0 /\ peer'.rx = peer.rx /\ peer'.handle = peer.handle
        /\ peer'.generation = peer.generation /\ peer'.state = "disconnecting"
    BY <2>1, <2>2 DEF IsEnd
  <2>4. /\ Worked(workers')
        /\ \A v \in 1..MaxWorkers : /\ workers'[v].phase = workers[v].phase
                                     /\ workers'[v].lobby = workers[v].lobby
                                     /\ workers'[v].out = workers[v].out
    BY <2>1, <2>2, QueueOne
  <2>5. peer'.tx \in {0, peer.tx} /\ peer'.tx \in 0..MaxWorkers
    BY <2>3 DEF ClientBounds
  <2> QED
    BY <1>1, <2>3, <2>4, <2>5, CommandKeeps
<1> QED
  BY <1>2, <1>3

LEMMA SendKeeps ==
    ASSUME PeerSide, Client!SendPacket PROVE PeerSide'
<1>1. /\ peer.tx # 0 /\ workers' = [workers EXCEPT ![peer.tx].cmds = Append(@, counts.frames + 1)]
      /\ UNCHANGED <<main, lobby, peer>>
  BY DEF Client!SendPacket
<1>2. peer.tx \in 1..MaxWorkers
  BY <1>1 DEF PeerSide, PeerTypes
<1>3. /\ Worked(workers')
      /\ \A v \in 1..MaxWorkers : /\ workers'[v].phase = workers[v].phase
                                   /\ workers'[v].lobby = workers[v].lobby
                                   /\ workers'[v].out = workers[v].out
  BY <1>1, <1>2, QueueOne
<1>4. IsEnd(peer') /\ peer'.tx \in {0, peer.tx} /\ peer'.tx \in 0..MaxWorkers
  BY <1>1 DEF PeerSide, PeerTypes
<1> QED
  BY <1>1, <1>3, <1>4, CommandKeeps

\* A worker that runs takes a step to x: it stays the one it is, a replaced one is not
\* heard, and when its events are read it does not end without saying so.
LEMMA WorkerMoves ==
    ASSUME PeerSide, NEW w \in 1..MaxWorkers, Runs(workers[w]), NEW x,
           workers' = [workers EXCEPT ![w] = x], IsWorker(x), x.out \in Seq(Outcome),
           x.lobby = workers[w].lobby, w # peer.handle => x.out = <<>>,
           x.phase = "ended" => Final(x.out) \/ (x.out = <<>> /\ w # peer.rx),
           UNCHANGED <<main, lobby, peer>>
    PROVE  PeerSide'
<1>1. /\ workers = [v \in 1..MaxWorkers |-> workers[v]]
      /\ \A v \in 1..MaxWorkers : IsWorker(workers[v]) /\ workers[v].out \in Seq(Outcome)
  BY DEF PeerSide, PeerTypes, Worked
<1>2. /\ workers' = [v \in 1..MaxWorkers |-> workers'[v]] /\ workers'[w] = x
      /\ \A v \in 1..MaxWorkers : v # w => workers'[v] = workers[v]
  BY <1>1
<1>3. PeerTypes'
  BY <1>1, <1>2 DEF PeerSide, PeerTypes, Worked
<1>4. Owned' /\ Enrolled'
  BY <1>2 DEF PeerSide, Owned, Enrolled
<1>5. Ending'
  BY <1>2 DEF PeerSide, Ending
<1>6. Connection'
  BY <1>2 DEF PeerSide, PeerTypes, Connection, Final
<1> QED
  BY <1>3, <1>4, <1>5, <1>6 DEF PeerSide

LEMMA BecomeKeeps ==
    ASSUME PeerSide, NEW w \in 1..MaxWorkers, Runs(workers[w]), NEW phase,
           NEW events \in Seq(Outcome), Client!Become(w, phase, events),
           phase = "ended" => Final(events),
           UNCHANGED <<main, lobby, peer>>
    PROVE  PeerSide'
<1> DEFINE o == IF w = peer.rx THEN workers[w].out \o events ELSE <<>>
<1>1. /\ workers = [v \in 1..MaxWorkers |-> workers[v]]
      /\ IsWorker(workers[w]) /\ workers[w].out \in Seq(Outcome)
  BY DEF PeerSide, PeerTypes, Worked
<1>2. PICK a : a = [workers[w] EXCEPT !.phase = phase]
  OBVIOUS
<1>3. PICK b : b = [a EXCEPT !.out = o]
  OBVIOUS
<1>4. PICK c : c = [b EXCEPT !.cmds = IF phase = "ended" THEN <<>> ELSE b.cmds]
  OBVIOUS
<1>5. PICK d : d = [c EXCEPT !.deferred = IF phase = "ended" THEN <<>> ELSE c.deferred]
  OBVIOUS
<1>6. /\ workers' = [workers EXCEPT ![w] = d] /\ IsWorker(d) /\ d.phase = phase
      /\ d.lobby = workers[w].lobby /\ d.out = o
  <2>1. workers' = [workers EXCEPT ![w] = d]
    BY <1>1, <1>2, <1>3, <1>4, <1>5 DEF Client!Become, IsWorker
  <2>2. IsWorker(a) /\ a.phase = phase /\ a.lobby = workers[w].lobby
    BY <1>1, <1>2 DEF IsWorker
  <2>3. IsWorker(b) /\ b.phase = phase /\ b.lobby = workers[w].lobby /\ b.out = o
    BY <1>3, <2>2 DEF IsWorker
  <2>4. IsWorker(c) /\ c.phase = phase /\ c.lobby = workers[w].lobby /\ c.out = o
    BY <1>4, <2>3 DEF IsWorker
  <2> QED
    BY <1>5, <2>1, <2>4 DEF IsWorker
<1>7. o \in Seq(Outcome) /\ (phase = "ended" => Final(o) \/ (o = <<>> /\ w # peer.rx))
  <2>1. CASE w # peer.rx
    BY <2>1
  <2>2. CASE w = peer.rx
    <3>1. /\ o \in Seq(Outcome) /\ Len(o) = Len(workers[w].out) + Len(events)
          /\ Len(events) \in Nat /\ Len(workers[w].out) \in Nat
      BY <1>1, <2>2
    <3>2. ASSUME phase = "ended" PROVE Len(o) > 0 /\ o[Len(o)] = events[Len(events)]
      BY <1>1, <2>2, <3>1, <3>2 DEF Final
    <3> QED
      BY <3>1, <3>2 DEF Final
  <2> QED
    BY <2>1, <2>2
<1>8. w # peer.handle => o = <<>>
  BY DEF PeerSide, Owned
<1> QED
  BY <1>6, <1>7, <1>8, WorkerMoves

LEMMA FrameKeeps ==
    ASSUME PeerSide, NEW w \in 1..MaxWorkers, workers[w].phase = "live",
           Client!HandleFrame(w, "deferred") \/ Client!HandleFrame(w, "cmds"),
           UNCHANGED <<main, lobby, peer>>
    PROVE  PeerSide'
<1> DEFINE o == IF w = peer.rx THEN Append(workers[w].out, "failed") ELSE <<>>
<1>1. /\ workers = [v \in 1..MaxWorkers |-> workers[v]]
      /\ IsWorker(workers[w]) /\ workers[w].out \in Seq(Outcome) /\ Runs(workers[w])
      /\ w # peer.handle => w # peer.rx /\ workers[w].out = <<>>
  BY DEF PeerSide, PeerTypes, Worked, Owned, Runs
<1>2. PICK a : /\ \/ a = [workers[w] EXCEPT !.cmds = Tail(workers[w].cmds)]
                  \/ a = [workers[w] EXCEPT !.deferred = Tail(workers[w].deferred)]
               /\ \/ workers' = [workers EXCEPT ![w] = a]
                  \/ workers' = [workers EXCEPT ![w] = [a EXCEPT !.out = o]]
  BY <1>1 DEF Client!HandleFrame, IsWorker
<1>3. IsWorker(a) /\ a.phase = "live" /\ a.lobby = workers[w].lobby /\ a.out = workers[w].out
  BY <1>1, <1>2 DEF IsWorker
<1>4. PICK b : b = [a EXCEPT !.out = o]
  OBVIOUS
<1>5. IsWorker(b) /\ b.phase = "live" /\ b.lobby = workers[w].lobby /\ b.out = o
  BY <1>3, <1>4 DEF IsWorker
<1>6. o \in Seq(Outcome) /\ (w # peer.handle => o = <<>>)
  BY <1>1 DEF Outcome
<1>7. CASE workers' = [workers EXCEPT ![w] = a]
  BY <1>1, <1>3, <1>7, WorkerMoves
<1>8. CASE workers' = [workers EXCEPT ![w] = b]
  BY <1>1, <1>5, <1>6, <1>8, WorkerMoves
<1> QED
  BY <1>2, <1>4, <1>7, <1>8

LEMMA WorkerKeeps ==
    ASSUME PeerSide, NEW w \in 1..MaxWorkers, Client!WorkerStep(w) PROVE PeerSide'
<1>1. UNCHANGED <<main, lobby, peer>>
  BY DEF Client!WorkerStep, Client!StartWorker, Client!EnrollCommand, Client!EnrollAnswer,
         Client!Replay, Client!LiveCommand, Client!Receive, Client!CloseWorker, Client!WorkerOnly
<1>2. /\ workers = [v \in 1..MaxWorkers |-> workers[v]]
      /\ IsWorker(workers[w]) /\ workers[w].out \in Seq(Outcome)
  BY DEF PeerSide, PeerTypes, Worked
<1>3. ASSUME NEW phase \in {"enrolling", "closing", "ended"},
             NEW events \in {<<>>, <<"failed">>, <<"stopped">>, <<"failed", "stopped">>},
             Client!Become(w, phase, events), Runs(workers[w]), phase = "ended" => events # <<>>
      PROVE  PeerSide'
  <2>1. /\ events \in Seq(Outcome)
        /\ events # <<>> => Final(events)
    <3>1. "failed" \in Outcome /\ "stopped" \in Outcome
      BY DEF Outcome
    <3>2. CASE events = <<>>
      BY <3>2
    <3>3. CASE events = <<"failed">>
      BY <3>1, <3>3 DEF Final
    <3>4. CASE events = <<"stopped">>
      BY <3>1, <3>4 DEF Final
    <3>5. CASE events = <<"failed", "stopped">>
      BY <3>1, <3>5 DEF Final
    <3> QED
      BY <3>2, <3>3, <3>4, <3>5
  <2> QED
    BY <1>1, <1>3, <2>1, BecomeKeeps
<1>4. CASE Client!StartWorker(w) \/ Client!CloseWorker(w) \/ Client!Receive(w)
  BY <1>3, <1>4 DEF Client!StartWorker, Client!CloseWorker, Client!Receive, Runs
<1>5. CASE Client!EnrollCommand(w)
  <2>1. CASE Client!Become(w, "ended", <<"stopped">>)
    BY <1>3, <1>5, <2>1 DEF Client!EnrollCommand, Runs
  <2>2. CASE workers' = [workers EXCEPT ![w].cmds = Tail(@),
                                        ![w].deferred = Append(@, Head(workers[w].cmds))]
    <3>1. PICK a : a = [workers[w] EXCEPT !.cmds = Tail(workers[w].cmds)]
      OBVIOUS
    <3>2. PICK b : b = [a EXCEPT !.deferred = Append(workers[w].deferred, Head(workers[w].cmds))]
      OBVIOUS
    <3>3. workers' = [workers EXCEPT ![w] = b]
      BY <1>2, <2>2, <3>1, <3>2 DEF IsWorker
    <3>4. /\ IsWorker(a) /\ a.phase = workers[w].phase /\ a.lobby = workers[w].lobby
          /\ a.out = workers[w].out
      BY <1>2, <3>1 DEF IsWorker
    <3>5. /\ IsWorker(b) /\ b.phase = workers[w].phase /\ b.lobby = workers[w].lobby
          /\ b.out = workers[w].out
      BY <3>2, <3>4 DEF IsWorker
    <3>6. /\ workers[w].phase = "enrolling" /\ Runs(workers[w])
          /\ w # peer.handle => workers[w].out = <<>>
      BY <1>5 DEF Client!EnrollCommand, Runs, PeerSide, Owned
    <3> QED
      BY <1>1, <1>2, <3>3, <3>5, <3>6, WorkerMoves
  <2> QED
    BY <1>5, <2>1, <2>2 DEF Client!EnrollCommand
<1>6. CASE Client!EnrollAnswer(w)
  <2>1. CASE Client!Become(w, "ended", <<"stopped">>) \/ Client!Become(w, "ended", <<"failed">>)
    BY <1>3, <1>6, <2>1 DEF Client!EnrollAnswer, Runs
  <2>2. CASE /\ peer.tx = w
             /\ workers' = [workers EXCEPT ![w].phase = "live", ![w].out = Append(@, "connected"),
                                           ![w].deferred = @ \o workers[w].cmds, ![w].cmds = <<>>]
    <3>1. PICK a : a = [workers[w] EXCEPT !.phase = "live"]
      OBVIOUS
    <3>2. PICK b : b = [a EXCEPT !.out = Append(workers[w].out, "connected")]
      OBVIOUS
    <3>3. PICK c : c = [b EXCEPT !.deferred = workers[w].deferred \o workers[w].cmds]
      OBVIOUS
    <3>4. PICK d : d = [c EXCEPT !.cmds = <<>>]
      OBVIOUS
    <3>5. workers' = [workers EXCEPT ![w] = d]
      BY <1>2, <2>2, <3>1, <3>2, <3>3, <3>4 DEF IsWorker
    <3>6. IsWorker(a) /\ a.phase = "live" /\ a.lobby = workers[w].lobby
      BY <1>2, <3>1 DEF IsWorker
    <3>7. /\ IsWorker(b) /\ b.phase = "live" /\ b.lobby = workers[w].lobby
          /\ b.out = Append(workers[w].out, "connected")
      BY <3>2, <3>6 DEF IsWorker
    <3>8. IsWorker(c) /\ c.phase = "live" /\ c.lobby = workers[w].lobby /\ c.out = b.out
      BY <3>3, <3>7 DEF IsWorker
    <3>9. IsWorker(d) /\ d.phase = "live" /\ d.lobby = workers[w].lobby /\ d.out = b.out
      BY <3>4, <3>8 DEF IsWorker
    <3>10. b.out \in Seq(Outcome) /\ Runs(workers[w])
      BY <1>2, <1>6, <3>7 DEF Outcome, Client!EnrollAnswer, Runs
    <3>11. w = peer.handle
      BY <2>2, <3>10 DEF PeerSide, Owned
    <3> QED
      BY <1>1, <3>5, <3>7, <3>9, <3>10, <3>11, WorkerMoves
  <2> QED
    BY <1>6, <2>1, <2>2 DEF Client!EnrollAnswer
<1>7. CASE Client!Replay(w)
  BY <1>1, <1>7, FrameKeeps DEF Client!Replay
<1>8. CASE Client!LiveCommand(w)
  <2>1. CASE Client!Become(w, "closing", <<>>)
    BY <1>3, <1>8, <2>1 DEF Client!LiveCommand, Runs
  <2>2. CASE Client!HandleFrame(w, "cmds")
    BY <1>1, <1>8, <2>2, FrameKeeps DEF Client!LiveCommand
  <2> QED
    BY <1>8, <2>1, <2>2 DEF Client!LiveCommand
<1> QED
  BY <1>4, <1>5, <1>6, <1>7, <1>8 DEF Client!WorkerStep

\* The reset ends when the worker's thread has ended.
LEMMA ClearKeeps ==
    ASSUME ClientBounds, PeerSide, Client!ClearSession PROVE PeerSide'
<1>1. /\ Client!Ended(peer.handle) /\ workers' = workers
      /\ peer' = [peer EXCEPT !.handle = 0, !.generation = @ + 1, !.state = "offline"]
  BY DEF Client!ClearSession, Client!WorkerJoined
<1>2. /\ IsEnd(peer') /\ peer'.tx = peer.tx /\ peer'.rx = peer.rx /\ peer'.handle = 0
      /\ peer'.generation = peer.generation + 1 /\ peer'.state = "offline"
  BY <1>1 DEF PeerSide, PeerTypes, IsEnd
<1>3. PeerTypes' /\ Ending' /\ Connection'
  BY <1>1, <1>2 DEF ClientBounds, PeerSide, PeerTypes, Ending, Connection
<1>4. \A w \in 1..MaxWorkers : Runs(workers[w]) => w # peer.handle
  BY <1>1 DEF PeerSide, PeerTypes, Runs, Client!Ended
<1>5. Owned' /\ Enrolled'
  BY <1>1, <1>2, <1>4 DEF PeerSide, PeerTypes, Owned, Enrolled
<1> QED
  BY <1>3, <1>5 DEF PeerSide

\* connect_native, when no commands can be sent: the worker before, if it still runs,
\* is replaced.
LEMMA ConnectKeeps ==
    ASSUME ClientBounds, LobbySide, PeerSide, peer.tx = 0, peer.generation < MaxWorkers,
           Client!Connected(peer.generation + 1), lobby'.generation = lobby.generation
    PROVE  PeerSide'
<1> DEFINE w == peer.generation + 1
<1>1. w \in 1..MaxWorkers
  BY DEF ClientBounds, PeerSide, PeerTypes
<1>2. peer' = [tx |-> w, rx |-> w, handle |-> w, generation |-> w, state |-> "connecting"]
  BY DEF Client!Connected
<1>3. \A v \in 1..MaxWorkers : Runs(workers[v]) => v < w
  BY DEF PeerSide, PeerTypes, Owned
<1> HIDE DEF w
<1>4. /\ workers = [v \in 1..MaxWorkers |-> workers[v]]
      /\ \A v \in 1..MaxWorkers : IsWorker(workers[v])
  BY DEF PeerSide, PeerTypes, Worked
<1>5. workers' = [v \in 1..MaxWorkers |->
                    IF v = w THEN [Client!NoWorker EXCEPT !.phase = "starting",
                                                          !.lobby = lobby.generation]
                    ELSE [workers[v] EXCEPT !.out = <<>>]]
  BY <1>4 DEF Client!Connected, w
<1>6. PICK x : x = [Client!NoWorker EXCEPT !.phase = "starting", !.lobby = lobby.generation]
  OBVIOUS
<1>7. IsWorker(x) /\ x.phase = "starting" /\ x.lobby = lobby.generation /\ x.out = <<>>
  BY <1>6 DEF Client!NoWorker, IsWorker
<1>8. workers'[w] = x /\ <<>> \in Seq(Outcome)
  BY <1>1, <1>5, <1>6
<1>9. ASSUME NEW v \in 1..MaxWorkers, v # w
      PROVE  /\ IsWorker(workers'[v]) /\ workers'[v].out = <<>>
             /\ Runs(workers'[v]) => v < w
  <2>1. PICK y : y = [workers[v] EXCEPT !.out = <<>>]
    OBVIOUS
  <2>2. workers'[v] = y
    BY <1>5, <1>9, <2>1
  <2>3. IsWorker(y) /\ y.phase = workers[v].phase /\ y.out = <<>>
    BY <1>4, <2>1 DEF IsWorker
  <2> QED
    BY <1>3, <2>2, <2>3 DEF Runs
<1>10. Worked(workers')
  <2>1. workers' = [v \in 1..MaxWorkers |-> workers'[v]]
    BY <1>5
  <2> QED
    BY <1>7, <1>8, <1>9, <2>1 DEF Worked
<1>11. PeerTypes'
  BY <1>1, <1>2, <1>10 DEF PeerTypes, IsEnd, ClientBounds
<1>12. Owned'
  BY <1>1, <1>2, <1>9 DEF Owned
<1>13. Enrolled'
  BY <1>2, <1>7, <1>8 DEF Enrolled
<1>14. Ending' /\ Connection'
  BY <1>1, <1>2, <1>7, <1>8, <1>9 DEF Ending, Connection
<1> QED
  BY <1>11, <1>12, <1>13, <1>14 DEF PeerSide

\* The OS gives no thread: the worker generation is used up, and what is still to be
\* polled of the worker before will be skipped.
LEMMA RefusedKeeps ==
    ASSUME PeerSide, Client!Refused, UNCHANGED <<main, lobby>> PROVE PeerSide'
<1>1. CASE UNCHANGED <<peer, workers>>
  BY <1>1, PeerStays
<1>2. CASE peer' = [peer EXCEPT !.generation = @ + 1] /\ UNCHANGED workers
  <2>1. /\ IsEnd(peer') /\ peer'.tx = peer.tx /\ peer'.rx = peer.rx /\ peer'.handle = peer.handle
        /\ peer'.generation = peer.generation + 1 /\ peer'.state = peer.state
    BY <1>2 DEF PeerSide, PeerTypes, IsEnd
  <2>2. PeerTypes' /\ Ending'
    BY <1>2, <2>1 DEF PeerSide, PeerTypes, Ending
  <2>3. Connection'
    BY <1>2, <2>1 DEF PeerSide, PeerTypes, Connection
  <2>4. Owned' /\ Enrolled'
    BY <1>2, <2>1 DEF PeerSide, PeerTypes, Owned, Enrolled
  <2> QED
    BY <2>2, <2>3, <2>4 DEF PeerSide
<1> QED
  BY <1>1, <1>2 DEF Client!Refused

\* Every other event keeps the generation, or resets.
LEMMA LobbyEventPeer ==
    ASSUME ClientBounds, LobbySide, PeerSide, Client!PollLobbyEvent PROVE PeerSide'
<1> DEFINE e == Head(channel)
           Q == Tail(channel)
<1>1. CASE /\ UNCHANGED <<main, peer, workers>>
           /\ \/ lobby' = lobby
              \/ \E x, y : lobby' = [lobby EXCEPT !.creator = x, !.auto = y]
              \/ lobby' = [lobby EXCEPT !.auto = 0]
              \/ \E x : lobby' = [lobby EXCEPT !.copied = x]
  <2>1. lobby'.generation = lobby.generation
    BY <1>1 DEF LobbySide, ClientTypes, IsClient
  <2> QED
    BY <1>1, <2>1, PeerStays
<1>2. CASE main' = "cancelling" /\ UNCHANGED <<peer, workers>>
  BY <1>2, PeerStays
<1>3. CASE Client!JoinedPosse(Q) /\ UNCHANGED main
  <2>1. CASE /\ peer.tx = 0 /\ peer.generation < MaxWorkers
             /\ Client!Connected(peer.generation + 1)
             /\ lobby' = [lobby EXCEPT !.participant = lobby.generation]
    <3>1. lobby'.generation = lobby.generation
      BY <2>1 DEF LobbySide, ClientTypes, IsClient
    <3> QED
      BY <2>1, <3>1, ConnectKeeps
  <2>2. CASE Client!Refused /\ UNCHANGED lobby
    BY <1>3, <2>2, RefusedKeeps
  <2> QED
    BY <1>3, <2>1, <2>2 DEF Client!JoinedPosse
<1>4. ASSUME NEW code, Client!CopyInvitation(code) PROVE \E x : lobby' = [lobby EXCEPT !.copied = x]
  BY <1>4 DEF Client!CopyInvitation
<1>5. \/ UNCHANGED <<main, peer, workers, lobby>>
      \/ /\ UNCHANGED <<main, peer, workers>>
         /\ lobby' = [lobby EXCEPT !.creator = e.gen, !.auto = e.lobby]
      \/ UNCHANGED <<main, peer, workers>> /\ lobby' = [lobby EXCEPT !.auto = 0]
      \/ UNCHANGED <<main, peer, workers>> /\ Client!CopyInvitation(counts.codes + 1)
      \/ Client!JoinedPosse(Q) /\ UNCHANGED main
      \/ Client!Cancel(Q) /\ UNCHANGED <<peer, workers>>
  BY DEF Client!PollLobbyEvent
<1> QED
  BY <1>1, <1>2, <1>3, <1>4, <1>5 DEF Client!Cancel

LEMMA PollPeerKeeps ==
    ASSUME ClientBounds, PeerSide, Client!PollWorkerEvent PROVE PeerSide'
<1> DEFINE w == peer.rx
           out == workers[w].out
           Joined(p) == [p EXCEPT !.handle = IF Client!Ended(@) THEN 0 ELSE @]
<1>1. /\ main = "run" /\ w # 0 /\ out # <<>> /\ UNCHANGED <<main, lobby>>
      /\ workers' = [workers EXCEPT ![w].out = Tail(@)]
  BY DEF Client!PollWorkerEvent
<1>2. /\ w \in 1..MaxWorkers /\ IsEnd(peer) /\ workers = [v \in 1..MaxWorkers |-> workers[v]]
      /\ \A v \in 1..MaxWorkers : IsWorker(workers[v]) /\ workers[v].out \in Seq(Outcome)
  BY <1>1 DEF PeerSide, PeerTypes, Worked
<1>3. PICK n : n = out
  OBVIOUS
<1>4. /\ n \in Seq(Outcome) /\ n # <<>> /\ Head(n) \in Outcome /\ Tail(n) \in Seq(Outcome)
      /\ Final(n) => Tail(n) = <<>> \/ Final(Tail(n))
      /\ Final(n) /\ Head(n) = "connected" => Tail(n) # <<>>
  <2>1. n \in Seq(Outcome) /\ n # <<>> /\ Len(n) \in Nat /\ Len(n) > 0
    BY <1>1, <1>2, <1>3
  <2>2. /\ Head(n) = n[1] /\ Head(n) \in Outcome /\ Tail(n) \in Seq(Outcome)
        /\ Len(Tail(n)) = Len(n) - 1 /\ \A i \in 1..Len(Tail(n)) : Tail(n)[i] = n[i + 1]
    BY <2>1
  <2>3. Len(Tail(n)) = 0 <=> Tail(n) = <<>>
    <3>1. \A t \in Seq(Outcome) : Len(t) = 0 <=> t = <<>>
      OBVIOUS
    <3> QED
      BY <2>2, <3>1
  <2>4. Len(n) > 1 => Len(Tail(n)) > 0 /\ Tail(n)[Len(Tail(n))] = n[Len(n)]
    BY <2>1, <2>2
  <2> QED
    BY <2>1, <2>2, <2>3, <2>4 DEF Final
<1>5. PICK x : x = [workers[w] EXCEPT !.out = Tail(n)]
  OBVIOUS
<1>6. /\ IsWorker(x) /\ x.phase = workers[w].phase /\ x.lobby = workers[w].lobby
      /\ x.out = Tail(n)
  <2>1. PICK y : y = workers[w] /\ IsWorker(y)
    BY <1>2
  <2>2. x = [y EXCEPT !.out = Tail(n)]
    BY <1>5, <2>1
  <2>3. IsWorker(x) /\ x.phase = y.phase /\ x.lobby = y.lobby /\ x.out = Tail(n)
    BY <2>1, <2>2 DEF IsWorker
  <2> QED
    BY <2>1, <2>3
<1>7. workers' = [workers EXCEPT ![w] = x]
  BY <1>1, <1>2, <1>3, <1>5 DEF IsWorker
<1>8. /\ workers' = [v \in 1..MaxWorkers |-> workers'[v]] /\ workers'[w] = x
      /\ \A v \in 1..MaxWorkers : v # w => workers'[v] = workers[v]
  BY <1>2, <1>7
<1>9. PICK p : /\ peer' = Joined(p)
               /\ \/ w # peer.generation /\ p = peer
                  \/ /\ w = peer.generation /\ Head(n) = "connected"
                     /\ p = [peer EXCEPT !.state = "connected"]
                  \/ p = [peer EXCEPT !.state = "error", !.tx = 0]
                  \/ p = [peer EXCEPT !.state = "offline", !.tx = 0]
  <2>1. Head(n) \in {"connected", "failed", "stopped"}
    BY <1>4 DEF Outcome
  <2>2. CASE w # peer.generation
    BY <1>3, <2>2 DEF Client!PollWorkerEvent, Client!OfThisWorker
  <2>3. CASE w = peer.generation
    <3>1. peer' = Joined(CASE Head(n) = "connected" -> [peer EXCEPT !.state = "connected"]
                           [] Head(n) = "failed" -> [peer EXCEPT !.state = "error", !.tx = 0]
                           [] Head(n) = "stopped" -> [peer EXCEPT !.state = "offline", !.tx = 0])
      BY <1>3, <2>3 DEF Client!PollWorkerEvent, Client!OfThisWorker
    <3>2. CASE Head(n) = "connected"
      BY <2>3, <3>1, <3>2
    <3>3. CASE Head(n) = "failed"
      BY <2>3, <3>1, <3>3
    <3>4. CASE Head(n) = "stopped"
      BY <2>3, <3>1, <3>4
    <3> QED
      BY <2>1, <3>2, <3>3, <3>4
  <2> QED
    BY <2>2, <2>3
<1>10. /\ IsEnd(p) /\ p.rx = peer.rx /\ p.handle = peer.handle /\ p.generation = peer.generation
       /\ p.tx \in {peer.tx, 0}
       /\ p.state \in {"connecting", "connected"} =>
             \/ w # peer.generation /\ p.state = peer.state
             \/ w = peer.generation /\ Head(n) = "connected"
  BY <1>2, <1>9 DEF IsEnd
<1>11. PICK h : h = IF Client!Ended(p.handle) THEN 0 ELSE p.handle
  OBVIOUS
<1>12. peer' = [p EXCEPT !.handle = h]
  BY <1>9, <1>10, <1>11 DEF IsEnd
<1>13. /\ IsEnd(peer') /\ peer'.rx = peer.rx /\ peer'.handle = h
       /\ peer'.generation = peer.generation /\ peer'.tx = p.tx /\ peer'.state = p.state
  BY <1>10, <1>12 DEF IsEnd
<1>14. PeerTypes'
  <2>1. Worked(workers')
    BY <1>2, <1>4, <1>6, <1>8 DEF Worked
  <2>2. h \in 0..MaxWorkers /\ p.tx \in 0..MaxWorkers
    BY <1>10, <1>11 DEF PeerSide, PeerTypes, ClientBounds
  <2> QED
    BY <1>13, <2>1, <2>2 DEF PeerSide, PeerTypes
<1>15. Owned' /\ Enrolled'
  <2>1. \A v \in 1..MaxWorkers : /\ workers'[v].phase = workers[v].phase
                                 /\ workers'[v].lobby = workers[v].lobby
                                 /\ v # w => workers'[v].out = workers[v].out
    BY <1>6, <1>8
  <2>2. \A v \in 1..MaxWorkers : Runs(workers[v]) => (v = h <=> v = peer.handle)
    BY <1>2, <1>10, <1>11 DEF Runs, Client!Ended
  <2>3. h \in {0, peer.handle} /\ peer'.tx \in {0, peer.tx}
    BY <1>10, <1>11, <1>13
  <2>4. Owned'
    BY <1>13, <2>1, <2>2, <2>3 DEF PeerSide, Owned, Runs
  <2>5. Enrolled'
    BY <1>1, <1>13, <2>1, <2>2 DEF PeerSide, Enrolled, Runs
  <2> QED
    BY <2>4, <2>5
<1>16. Ending'
  BY <1>3, <1>4, <1>6, <1>8 DEF PeerSide, Ending
<1>17. Connection'
  <2> SUFFICES ASSUME peer'.state \in {"connecting", "connected"}
               PROVE  /\ peer'.rx # 0 /\ peer'.rx <= peer'.generation
                      /\ \/ workers'[peer'.rx].phase # "ended" \/ workers'[peer'.rx].out # <<>>
                         \/ peer'.rx < peer'.generation
    BY DEF Connection
  <2>1. CASE w # peer.generation
    <3>1. w <= peer.generation /\ w \in Nat /\ peer.generation \in Nat
      BY <1>2, <1>10, <1>13, <2>1 DEF PeerSide, PeerTypes, Connection
    <3> QED
      BY <1>1, <1>13, <2>1, <3>1
  <2>2. CASE w = peer.generation /\ Head(n) = "connected"
    <3>1. workers[w].phase = "ended" => Final(n)
      BY <1>1, <1>2, <1>3 DEF PeerSide, Ending
    <3>2. peer'.rx = w /\ w # 0 /\ w <= peer'.generation
      BY <1>1, <1>2, <1>13, <2>2
    <3>3. workers'[w].phase = "ended" => workers'[w].out # <<>>
      BY <1>4, <1>6, <1>8, <2>2, <3>1
    <3> QED
      BY <3>2, <3>3
  <2> QED
    BY <1>10, <1>13, <2>1, <2>2
<1> QED
  BY <1>14, <1>15, <1>16, <1>17 DEF PeerSide

ClientInv == LobbySide /\ PeerSide

LEMMA ClientStarts ==
    ASSUME ClientBounds, Client!Init PROVE ClientInv
<1>1. /\ main = "run" /\ clipboard = 0
      /\ lobby = [generation |-> 1, player |-> TRUE, creator |-> 0, participant |-> 0,
                  copied |-> 0, auto |-> 0]
      /\ counts = [lobbies |-> 0, codes |-> 0, frames |-> 0, minted |-> <<>>]
  BY DEF Client!Init
<1>2. ClientTypes /\ Held
  BY <1>1 DEF ClientTypes, IsClient, IsCount, Held
<1>3. CodesAreMinted
  BY <1>1 DEF CodesAreMinted, Client!CodesAreTracked
<1>9. LobbySide
  BY <1>2, <1>3 DEF LobbySide
<1>10. /\ peer = [tx |-> 0, rx |-> 0, handle |-> 0, generation |-> 0, state |-> "offline"]
       /\ workers = [w \in 1..MaxWorkers |-> Client!NoWorker]
  BY DEF Client!Init
<1>11. PICK x : x = Client!NoWorker /\ IsWorker(x) /\ x.phase = "none" /\ x.out = <<>>
  <2>1. PICK x : x = Client!NoWorker
    OBVIOUS
  <2>2. IsWorker(x) /\ x.phase = "none" /\ x.out = <<>>
    BY <2>1 DEF Client!NoWorker, IsWorker
  <2> QED
    BY <2>1, <2>2
<1>12. \A w \in 1..MaxWorkers : workers[w] = x
  BY <1>10, <1>11
<1>13. Worked(workers)
  <2>1. workers = [w \in 1..MaxWorkers |-> workers[w]]
    BY <1>10
  <2>2. x.out \in Seq(Outcome)
    BY <1>11
  <2> QED
    BY <1>11, <1>12, <2>1, <2>2 DEF Worked
<1>14. PeerTypes
  BY <1>10, <1>13 DEF PeerTypes, IsEnd, ClientBounds
<1>15. Owned /\ Enrolled /\ Ending
  BY <1>11, <1>12 DEF Owned, Enrolled, Ending, Runs
<1>16. Connection
  BY <1>10 DEF Connection
<1> QED
  BY <1>9, <1>14, <1>15, <1>16 DEF ClientInv, PeerSide

\* Steps of the lobby side, which the workers do not see.
LEMMA LobbyLeavesPeer ==
    ASSUME LobbySide, PeerSide,
           \/ Client!Finish \/ Client!DrainEvents \/ Client!Paste \/ Client!HumanCopies
           \/ Client!CreatePressed \/ Client!JoinPressed \/ Client!Poll \/ Client!ShareAgain
           \/ Client!RequestLeave \/ Client!Configure
           \/ \E op \in {"create", "join"} : Client!Capture(op)
    PROVE  PeerSide'
<1>1. /\ UNCHANGED <<peer, workers>>
      /\ main' = "run" => main = "run"
      /\ lobby' \in {lobby, [lobby EXCEPT !.copied = 0], [lobby EXCEPT !.player = TRUE]}
  BY DEF Client!Finish, Client!DrainEvents, Client!Paste, Client!HumanCopies, Client!CreatePressed,
         Client!JoinPressed, Client!Poll, Client!ShareAgain, Client!RequestLeave, Client!Configure,
         Client!Capture
<1>2. lobby'.generation = lobby.generation
  BY <1>1 DEF LobbySide, ClientTypes, IsClient
<1> QED
  BY <1>1, <1>2, PeerStays

LEMMA ClientStep ==
    ASSUME ClientBounds, ClientInv, [Client!Next]_Client!vars PROVE ClientInv'
<1>1. LobbySide /\ PeerSide
  BY DEF ClientInv
<1>2. CASE UNCHANGED Client!vars
  <2>1. LobbySide'
    BY <1>1, <1>2, LobbyStays DEF Client!vars
  <2>2. PeerSide'
    BY <1>1, <1>2, PeerStays DEF Client!vars
  <2> QED
    BY <2>1, <2>2 DEF ClientInv
<1>3. CASE \/ Client!Finish \/ Client!DrainEvents \/ Client!Paste \/ Client!HumanCopies
           \/ Client!CreatePressed \/ Client!JoinPressed \/ Client!Poll \/ Client!ShareAgain
           \/ Client!RequestLeave \/ Client!Configure
           \/ \E op \in {"create", "join"} : Client!Capture(op)
  <2>1. PeerSide'
    BY <1>1, <1>3, LobbyLeavesPeer
  <2>2. LobbySide'
    BY <1>1, <1>3, PressKeeps, ClipboardKeeps, ResetKeeps
  <2> QED
    BY <2>1, <2>2 DEF ClientInv
<1>4. CASE \/ \E w \in 1..MaxWorkers : Client!WorkerStep(w)
           \/ Client!SendPacket \/ Client!PollWorkerEvent \/ Client!LeavePressed
  <2>1. LobbySide'
    BY <1>1, <1>4, PressKeeps
  <2>2. PeerSide'
    BY <1>1, <1>4, WorkerKeeps, SendKeeps, PollPeerKeeps, StopKeeps
  <2> QED
    BY <2>1, <2>2 DEF ClientInv
<1>5. CASE Client!JoinRequests \/ Client!ClearSession
  BY <1>1, <1>5, ResetKeeps, StopKeeps, ClearKeeps DEF ClientInv
<1>6. CASE Client!PollLobbyEvent
  BY <1>1, <1>6, LobbyEventKeeps, LobbyEventPeer DEF ClientInv
<1> QED
  BY <1>2, <1>3, <1>4, <1>5, <1>6 DEF Client!Next, Client!Progress, Client!WorkerStep

LEMMA ClientImplies ==
    ASSUME ClientBounds, ClientInv
    PROVE  /\ Client!SessionsDoNotMix /\ Client!OneWorker
           /\ Client!ConnectionIsTrue /\ Client!CodesAreTracked
<1>1. Client!SessionsDoNotMix
  BY DEF ClientInv, LobbySide, Held, CodesAreMinted, PeerSide, Enrolled, Runs, Client!Runs,
         Client!Replaced, Client!SessionsDoNotMix
<1>2. Client!OneWorker
  <2> SUFFICES ASSUME NEW w \in 1..MaxWorkers, Client!Replaced(w)
               PROVE  /\ w \notin {peer.tx, peer.rx} /\ workers[w].out = <<>>
                      /\ \A v \in 1..MaxWorkers : Client!Runs(v) /\ ~Client!Replaced(v) => v > w
    BY DEF Client!OneWorker
  <2>1. /\ w # peer.tx /\ w # peer.rx /\ workers[w].out = <<>>
        /\ peer.handle # 0 => w < peer.handle
    BY DEF ClientInv, PeerSide, Owned, Runs, Client!Runs, Client!Replaced
  <2>2. \A v \in 1..MaxWorkers : Client!Runs(v) /\ ~Client!Replaced(v) => v = peer.handle /\ v # 0
    BY DEF Client!Replaced
  <2> QED
    BY <2>1, <2>2 DEF ClientInv, PeerSide, PeerTypes
<1>3. Client!CodesAreTracked
  BY DEF ClientInv, LobbySide, CodesAreMinted
<1>4. Client!ConnectionIsTrue
  <2> SUFFICES ASSUME peer.state \in {"connecting", "connected"}, workers[peer.rx].phase = "ended",
                      ~(peer.rx < peer.generation)
               PROVE  \E i \in DOMAIN workers[peer.rx].out :
                         workers[peer.rx].out[i] \in {"failed", "stopped"}
    BY DEF Client!ConnectionIsTrue, ClientInv, PeerSide, Connection
  <2>1. PICK w \in 1..MaxWorkers : w = peer.rx
    BY DEF ClientInv, PeerSide, PeerTypes, Connection, ClientBounds
  <2>2. workers[w].out \in Seq(Outcome) /\ Final(workers[w].out)
    BY <2>1 DEF ClientInv, PeerSide, PeerTypes, Worked, Connection, Ending
  <2> QED
    BY <2>1, <2>2 DEF Final
<1> QED
  BY <1>1, <1>2, <1>3, <1>4

\* In every behaviour of the game client, however many generations, requests and
\* workers it goes through: nothing of a cancelled session takes part in the next one,
\* of embedded peers that overlap only the newest is sent frames and heard and it is
\* the one a reset waits for, connection_state tells the truth about it unless the OS
\* refused a thread, and a one-use code stays on the clipboard only while the client
\* remembers it, unless a clipboard helper failed (LobbyClientState, PeerSession,
\* _on_joined).
THEOREM SessionsStayApart ==
    ClientBounds =>
        (Client!Spec => [](/\ Client!SessionsDoNotMix /\ Client!OneWorker
                           /\ Client!ConnectionIsTrue /\ Client!CodesAreTracked))
<1> SUFFICES ASSUME ClientBounds
             PROVE  Client!Spec => [](/\ Client!SessionsDoNotMix /\ Client!OneWorker
                                      /\ Client!ConnectionIsTrue /\ Client!CodesAreTracked)
  OBVIOUS
<1>1. Client!Init => ClientInv
  BY ClientStarts
<1>2. ClientInv /\ [Client!Next]_Client!vars => ClientInv'
  BY ClientStep
<1>3. ClientInv => /\ Client!SessionsDoNotMix /\ Client!OneWorker
                   /\ Client!ConnectionIsTrue /\ Client!CodesAreTracked
  BY ClientImplies
<1> QED
  BY <1>1, <1>2, <1>3, PTL DEF Client!Spec

-----------------------------------------------------------------------------
(* The request budgets: THEOREM BudgetsHold.                                 *)

\* Limits and windows are numbers.
BudgetBounds ==
    /\ GlobalLimit \in Nat /\ CallerLimit \in Nat /\ RouteLimit \in Nat
    /\ Window \in Nat /\ RouteWindow \in Nat

LEMMA BudgetCardinality == \A S : Budget!Cardinality(S) = Cardinality(S)
BY DEF Budget!Cardinality, Cardinality

\* What a window holds, and what the history does.
Charge == {[at |-> n, ip |-> c.ip, actor |-> c.actor] : n \in Int, c \in Callers}
Logging == {[route |-> r, ip |-> c.ip, actor |-> c.actor, at |-> n] :
               r \in Budget!Route, c \in Callers, n \in Int}

\* The events E that the window of route r holds are accepted ones of A, and every
\* accepted one that it does not hold is older than the window.  An event is at least
\* as old as the clock says.
Pairs(f, r, E, A, now, w) ==
    /\ f \in [1..Len(E) -> 1..Len(A)]
    /\ \A j, k \in 1..Len(E) : f[j] = f[k] => j = k
    /\ \A k \in 1..Len(E) :
          /\ A[f[k]].route = r /\ A[f[k]].ip = E[k].ip /\ A[f[k]].actor = E[k].actor
          /\ now - A[f[k]].at >= w - E[k].at
    /\ \A i \in 1..Len(A) :
          A[i].route = r => \/ \E k \in 1..Len(E) : f[k] = i
                            \/ now - A[i].at >= Budget!Length(r)

Paired(r, E, A, now, w) == \E f : Pairs(f, r, E, A, now, w)

Limit(r) == IF r = "mutation" THEN CallerLimit ELSE RouteLimit

During(r, t, A) ==
    {i \in 1..Len(A) : A[i].route = r /\ A[i].at >= t /\ A[i].at < t + Budget!Length(r)}

Fits(r, A, now) ==
    \A t \in 1..now :
        /\ r = "mutation" => Cardinality(During(r, t, A)) <= GlobalLimit
        /\ \A c \in Callers :
              /\ Cardinality({i \in During(r, t, A) : A[i].ip = c.ip}) <= Limit(r)
              /\ Cardinality({i \in During(r, t, A) : A[i].actor = c.actor}) <= Limit(r)

Kept(r, E, A, now, w) == E \in Seq(Charge) /\ Paired(r, E, A, now, w) /\ Fits(r, A, now)

Logs(A, now) == A \in Seq(Logging) /\ \A i \in 1..Len(A) : A[i].at <= now

BudgetInv ==
    /\ time \in Nat \ {0} /\ wall \in Int /\ Logs(accepted, time)
    /\ charged = [r \in Budget!Route |-> charged[r]]
    /\ \A r \in Budget!Route : Kept(r, charged[r], accepted, time, wall)

\* What leaves a window is as old as the window is long.
LEMMA RecentKeeps ==
    ASSUME BudgetBounds, time \in Nat \ {0}, wall \in Int,
           NEW r \in Budget!Route, NEW E, NEW A, Logs(A, time), Kept(r, E, A, time, wall)
    PROVE  Kept(r, Budget!Recent(E, Budget!Length(r)), A, time, wall)
<1> DEFINE L == Budget!Length(r)
           old == {n \in 0..Len(E) : \A i \in 1..n : wall - E[i].at >= L}
           m == CHOOSE x \in old : \A k \in old : k <= x
           F == SubSeq(E, m + 1, Len(E))
<1>1. L \in Nat /\ E \in Seq(Charge) /\ Len(E) \in Nat
  BY DEF Kept, Budget!Length, BudgetBounds
<1>2. \E x \in old : \A k \in old : k <= x
  <2> HIDE DEF L
  <2>1. old \subseteq Nat /\ \A k \in old : k <= Len(E)
    BY <1>1
  <2>2. IsFiniteSet(old)
    BY <1>1, <2>1, FS_BoundedSetOfNaturals
  <2>3. 0 \in old
    BY <1>1
  <2>4. [k \in old |-> k] \in [old -> Int]
    BY <2>1
  <2> HIDE DEF old
  <2>5. PICK p \in old : \A q \in old :
           p = q \/ [k \in old |-> k][p] > [k \in old |-> k][q]
                 \/ ([k \in old |-> k][p] = [k \in old |-> k][q] /\ p < q)
    BY <2>1, <2>2, <2>3, <2>4, GreatestExists
  <2> QED
    BY <2>1, <2>5
<1>3. m \in old
  BY <1>2
<1> HIDE DEF m
<1>4. m \in 0..Len(E) /\ \A i \in 1..m : wall - E[i].at >= L
  BY <1>3
<1>5. /\ F \in Seq(Charge) /\ Len(F) = Len(E) - m
      /\ \A i \in 1..Len(F) : F[i] = E[m + i] /\ m + i \in 1..Len(E)
  <2>1. \A i \in (m + 1)..Len(E) : E[i] \in Charge
    BY <1>1, <1>4
  <2>2. m + 1 \in Int /\ Len(E) \in Int
    BY <1>1, <1>4
  <2>3. /\ F \in Seq(Charge) /\ Len(F) = IF m + 1 <= Len(E) THEN Len(E) - (m + 1) + 1 ELSE 0
        /\ \A i \in 1..(Len(E) - (m + 1) + 1) : F[i] = E[m + 1 + i - 1]
    BY <2>1, <2>2, SubSeqProperties
  <2> QED
    BY <1>1, <1>4, <2>3
<1>6. Budget!Recent(E, L) = F
  BY DEF Budget!Recent, m
<1> HIDE DEF L, F, old
<1>7. PICK f : Pairs(f, r, E, A, time, wall)
  BY DEF Kept, Paired
<1>8. Paired(r, F, A, time, wall)
  <2> DEFINE g == [k \in 1..Len(F) |-> f[m + k]]
  <2>1. Len(F) \in Nat /\ m \in Nat
    BY <1>1, <1>4, <1>5
  <2>2. g \in [1..Len(F) -> 1..Len(A)] /\ \A k \in 1..Len(F) : g[k] = f[m + k]
    BY <1>5, <1>7 DEF Pairs
  <2>3. \A j, k \in 1..Len(F) : g[j] = g[k] => j = k
    <3> SUFFICES ASSUME NEW j \in 1..Len(F), NEW k \in 1..Len(F), g[j] = g[k] PROVE j = k
      OBVIOUS
    <3>1. m + j = m + k
      BY <1>5, <1>7, <2>2 DEF Pairs
    <3> QED
      BY <2>1, <3>1
  <2>4. \A k \in 1..Len(F) :
          /\ A[g[k]].route = r /\ A[g[k]].ip = F[k].ip /\ A[g[k]].actor = F[k].actor
          /\ time - A[g[k]].at >= wall - F[k].at
    <3> SUFFICES ASSUME NEW k \in 1..Len(F)
                 PROVE  /\ A[g[k]].route = r /\ A[g[k]].ip = F[k].ip /\ A[g[k]].actor = F[k].actor
                        /\ time - A[g[k]].at >= wall - F[k].at
      OBVIOUS
    <3>1. F[k] = E[m + k] /\ m + k \in 1..Len(E) /\ g[k] = f[m + k]
      BY <1>5, <2>2
    <3> HIDE DEF g
    <3> QED
      BY <1>7, <3>1 DEF Pairs
  <2>5. ASSUME NEW i \in 1..Len(A), A[i].route = r
        PROVE  (\E k \in 1..Len(F) : g[k] = i) \/ time - A[i].at >= Budget!Length(r)
    <3>1. CASE \E k \in 1..Len(E) : f[k] = i
      <4>1. PICK k \in 1..Len(E) : f[k] = i
        BY <3>1
      <4>2. CASE k \in 1..m
        <5>1. wall - E[k].at >= L /\ time - A[i].at >= wall - E[k].at
          BY <1>4, <1>7, <4>1, <4>2 DEF Pairs
        <5>2. E[k] \in Charge /\ A[i] \in Logging
          BY <1>1 DEF Logs
        <5>3. E[k].at \in Int /\ A[i].at \in Int
          BY <5>2 DEF Charge, Logging
        <5> QED
          BY <1>1, <5>1, <5>3 DEF L
      <4>3. CASE k \notin 1..m
        <5>1. k - m \in 1..Len(F) /\ m + (k - m) = k
          BY <1>1, <1>4, <1>5, <4>3
        <5> QED
          BY <2>2, <4>1, <5>1
      <4> QED
        BY <4>2, <4>3
    <3>2. CASE time - A[i].at >= Budget!Length(r)
      BY <3>2
    <3> QED
      BY <1>7, <2>5, <3>1, <3>2 DEF Pairs
  <2> HIDE DEF g
  <2>6. Pairs(g, r, F, A, time, wall)
    BY <2>2, <2>3, <2>4, <2>5 DEF Pairs
  <2> QED
    BY <2>6 DEF Paired
<1> QED
  BY <1>5, <1>6, <1>8 DEF Kept, L

\* What was accepted during a window of time that is not over is held.
LEMMA HeldEvents ==
    ASSUME BudgetBounds, time \in Nat \ {0}, NEW r \in Budget!Route, NEW E \in Seq(Charge), NEW A,
           Logs(A, time), NEW f, Pairs(f, r, E, A, time, wall), NEW t \in 1..time, time < t + Budget!Length(r),
           NEW S \in SUBSET During(r, t, A), NEW K \in SUBSET (1..Len(E)),
           \A k \in 1..Len(E) : f[k] \in S => k \in K
    PROVE  /\ IsFiniteSet(S) /\ Cardinality(S) \in Nat /\ Cardinality(K) \in Nat
           /\ Cardinality(S) <= Cardinality(K)
<1>1. Len(E) \in Nat /\ IsFiniteSet(1..Len(E))
  <2>1. Len(E) \in Nat
    OBVIOUS
  <2> QED
    BY <2>1, FS_Interval
<1>2. IsFiniteSet(K)
  BY <1>1, FS_Subset
<1>3. ASSUME NEW i \in S PROVE \E k \in K : f[k] = i
  <2>1. i \in 1..Len(A) /\ A[i].route = r /\ A[i].at >= t
    BY DEF During
  <2>2. A[i] \in Logging
    BY <2>1 DEF Logs
  <2>3. A[i].at \in Int /\ Budget!Length(r) \in Nat
    BY <2>2 DEF Logging, Budget!Length, BudgetBounds
  <2>4. ~(time - A[i].at >= Budget!Length(r))
    BY <2>1, <2>3
  <2> QED
    BY <2>1, <2>4 DEF Pairs
<1> DEFINE g == [i \in S |-> CHOOSE k \in K : f[k] = i]
<1>4. \A i \in S : g[i] \in K /\ f[g[i]] = i
  BY <1>3
<1>5. g \in Injection(S, K)
  <2>1. g \in [S -> K]
    BY <1>4
  <2>2. \A i, j \in S : g[i] = g[j] => i = j
    BY <1>4
  <2> HIDE DEF g
  <2> QED
    BY <2>1, <2>2 DEF Injection, IsInjective
<1>6. IsFiniteSet(S) /\ Cardinality(S) <= Cardinality(K)
  BY <1>2, <1>5, FS_Injection
<1> QED
  BY <1>2, <1>6, FS_CardinalityType

LEMMA OneMore ==
    ASSUME BudgetBounds, time \in Nat \ {0}, NEW r \in Budget!Route, NEW E \in Seq(Charge), NEW A,
           Logs(A, time), NEW f, Pairs(f, r, E, A, time, wall), NEW t \in 1..time, time < t + Budget!Length(r),
           NEW S \in SUBSET During(r, t, A), NEW K \in SUBSET (1..Len(E)),
           \A k \in 1..Len(E) : f[k] \in S => k \in K,
           NEW m \in Nat, Cardinality(K) < m, NEW x
    PROVE  Cardinality(S \cup {x}) <= m
<1>1. /\ IsFiniteSet(S) /\ Cardinality(S) \in Nat /\ Cardinality(K) \in Nat
      /\ Cardinality(S) <= Cardinality(K)
  BY HeldEvents
<1>2. Cardinality(S \cup {x}) = IF x \in S THEN Cardinality(S) ELSE Cardinality(S) + 1
  BY <1>1, FS_AddElement
<1> QED
  BY <1>1, <1>2

\* There is room for one more request of c in the window E of route r.
Room(r, E, c) ==
    /\ r = "mutation" => Len(E) < GlobalLimit
    /\ Cardinality({k \in 1..Len(E) : E[k].ip = c.ip}) < Limit(r)
    /\ Cardinality({k \in 1..Len(E) : E[k].actor = c.actor}) < Limit(r)

LEMMA LongerLog ==
    ASSUME time \in Nat \ {0}, NEW A, Logs(A, time), NEW s \in Budget!Route, NEW c \in Callers
    PROVE  LET e == Budget!Logged(s, c)
               B == Append(A, e)
           IN  /\ Logs(B, time) /\ Len(B) = Len(A) + 1 /\ Len(A) \in Nat
               /\ B[Len(A) + 1] = e /\ \A i \in 1..Len(A) : B[i] = A[i]
               /\ e.route = s /\ e.ip = c.ip /\ e.actor = c.actor /\ e.at = time
<1> DEFINE e == Budget!Logged(s, c)
           B == Append(A, e)
<1>1. e \in Logging /\ e.route = s /\ e.ip = c.ip /\ e.actor = c.actor /\ e.at = time
  <2>1. time \in Int
    OBVIOUS
  <2> QED
    BY <2>1 DEF Logging, Budget!Logged
<1> HIDE DEF e
<1>2. A \in Seq(Logging) /\ Len(A) \in Nat
  BY DEF Logs
<1>3. B \in Seq(Logging) /\ Len(B) = Len(A) + 1 /\ B[Len(A) + 1] = e
  BY <1>1, <1>2
<1>4. \A i \in 1..Len(A) : B[i] = A[i]
  BY <1>1, <1>2
<1>5. \A i \in 1..Len(B) : i = Len(A) + 1 \/ i \in 1..Len(A)
  BY <1>2, <1>3
<1> HIDE DEF B
<1>6. Logs(B, time)
  BY <1>1, <1>3, <1>4, <1>5 DEF Logs
<1> QED
  BY <1>1, <1>2, <1>3, <1>4, <1>6 DEF B, e

\* A request of another route changes nothing for this one.
LEMMA OtherRouteKeeps ==
    ASSUME time \in Nat \ {0}, NEW r \in Budget!Route, NEW s \in Budget!Route, r # s,
           NEW E, NEW A, Logs(A, time), Kept(r, E, A, time, wall), NEW c \in Callers
    PROVE  Kept(r, E, Append(A, Budget!Logged(s, c)), time, wall)
<1> DEFINE e == Budget!Logged(s, c)
           B == Append(A, e)
<1>1. /\ Len(B) = Len(A) + 1 /\ Len(A) \in Nat
      /\ B[Len(A) + 1] = e /\ \A i \in 1..Len(A) : B[i] = A[i]
      /\ e.route = s
  BY LongerLog
<1> HIDE DEF B, e
<1>2. \A i \in 1..Len(B) : i \in 1..Len(A) \/ B[i].route = s
  BY <1>1
<1>3. 1..Len(A) \subseteq 1..Len(B)
  BY <1>1
<1>4. Paired(r, E, B, time, wall)
  <2>1. PICK f : Pairs(f, r, E, A, time, wall)
    BY DEF Kept, Paired
  <2>2. f \in [1..Len(E) -> 1..Len(B)]
    BY <1>3, <2>1 DEF Pairs
  <2>3. Pairs(f, r, E, B, time, wall)
    BY <1>1, <1>2, <2>1, <2>2 DEF Pairs
  <2> QED
    BY <2>3 DEF Paired
<1>5. \A t \in 1..time : During(r, t, B) = During(r, t, A)
  BY <1>1, <1>2, <1>3 DEF During
<1>6. \A t \in 1..time, d \in Callers :
         /\ {i \in During(r, t, B) : B[i].ip = d.ip} = {i \in During(r, t, A) : A[i].ip = d.ip}
         /\ {i \in During(r, t, B) : B[i].actor = d.actor}
                = {i \in During(r, t, A) : A[i].actor = d.actor}
  <2>1. \A t \in 1..time : \A i \in During(r, t, A) : B[i] = A[i]
    BY <1>1 DEF During
  <2> QED
    BY <1>5, <2>1
<1>7. Fits(r, B, time)
  BY <1>5, <1>6 DEF Kept, Fits
<1> QED
  BY <1>4, <1>7 DEF Kept, B, e

\* A request of this route is held from now on, and fits if there was room.
LEMMA LoggedKeeps ==
    ASSUME BudgetBounds, time \in Nat \ {0}, wall \in Int,
           NEW r \in Budget!Route, NEW E, NEW A, Logs(A, time), Kept(r, E, A, time, wall),
           NEW c \in Callers, Room(r, E, c)
    PROVE  Kept(r, Append(E, Budget!Event(c)), Append(A, Budget!Logged(r, c)), time, wall)
<1> DEFINE e == Budget!Logged(r, c)
           B == Append(A, e)
           x == Budget!Event(c)
           X == Append(E, x)
           n == Len(E) + 1
           N == Len(A) + 1
<1>1. /\ Len(B) = N /\ Len(A) \in Nat /\ B[N] = e /\ \A i \in 1..Len(A) : B[i] = A[i]
      /\ e.route = r /\ e.ip = c.ip /\ e.actor = c.actor /\ e.at = time
  BY LongerLog
<1>2. x \in Charge /\ x.at = wall /\ x.ip = c.ip /\ x.actor = c.actor
  BY DEF Budget!Event, Charge
<1> HIDE DEF x, e
<1>3. E \in Seq(Charge) /\ Len(E) \in Nat
  BY DEF Kept
<1>4. X \in Seq(Charge) /\ Len(X) = n /\ X[n] = x /\ \A k \in 1..Len(E) : X[k] = E[k]
  BY <1>2, <1>3
<1> HIDE DEF B, X
<1>5. PICK f : Pairs(f, r, E, A, time, wall)
  BY DEF Kept, Paired
<1>6. /\ \A k \in 1..n : k = n \/ k \in 1..Len(E)
      /\ \A i \in 1..N : i = N \/ i \in 1..Len(A)
      /\ 1..Len(A) \subseteq 1..N /\ N \in 1..N /\ n \in 1..n
      /\ N \notin 1..Len(A) /\ n \notin 1..Len(E) /\ 1..Len(E) \subseteq 1..n
  BY <1>1, <1>3
<1> HIDE DEF n, N
<1>7. Paired(r, X, B, time, wall)
  <2> DEFINE g == [k \in 1..n |-> IF k = n THEN N ELSE f[k]]
  <2>1. /\ g \in [1..n -> 1..N] /\ g[n] = N
        /\ \A k \in 1..Len(E) : g[k] = f[k] /\ f[k] \in 1..Len(A)
    BY <1>5, <1>6 DEF Pairs
  <2> HIDE DEF g
  <2>2. \A j, k \in 1..n : g[j] = g[k] => j = k
    BY <1>5, <1>6, <2>1 DEF Pairs
  <2>3. ASSUME NEW k \in 1..n
        PROVE  /\ B[g[k]].route = r /\ B[g[k]].ip = X[k].ip /\ B[g[k]].actor = X[k].actor
               /\ time - B[g[k]].at >= wall - X[k].at
    <3>1. CASE k = n
      BY <1>1, <1>2, <1>4, <2>1, <3>1
    <3>2. CASE k \in 1..Len(E)
      <4>1. B[g[k]] = A[f[k]] /\ X[k] = E[k]
        BY <1>1, <1>4, <2>1, <3>2
      <4> QED
        BY <1>5, <3>2, <4>1 DEF Pairs
    <3> QED
      BY <1>6, <3>1, <3>2
  <2>4. ASSUME NEW i \in 1..N, B[i].route = r
        PROVE  (\E k \in 1..n : g[k] = i) \/ time - B[i].at >= Budget!Length(r)
    <3>1. CASE i = N
      BY <1>6, <2>1, <3>1
    <3>2. CASE i \in 1..Len(A)
      BY <1>1, <1>5, <1>6, <2>1, <2>4, <3>2 DEF Pairs
    <3> QED
      BY <1>6, <3>1, <3>2
  <2>5. Pairs(g, r, X, B, time, wall)
    BY <1>1, <1>4, <2>1, <2>2, <2>3, <2>4 DEF Pairs
  <2> QED
    BY <2>5 DEF Paired
<1>8. Fits(r, B, time)
  <2> SUFFICES ASSUME NEW t \in 1..time
               PROVE  /\ r = "mutation" => Cardinality(During(r, t, B)) <= GlobalLimit
                      /\ \A d \in Callers :
                            /\ Cardinality({i \in During(r, t, B) : B[i].ip = d.ip}) <= Limit(r)
                            /\ Cardinality({i \in During(r, t, B) : B[i].actor = d.actor}) <= Limit(r)
    BY DEF Fits
  <2> DEFINE W == During(r, t, A)
             V == During(r, t, B)
  <2>1. /\ r = "mutation" => Cardinality(W) <= GlobalLimit
        /\ \A d \in Callers : /\ Cardinality({i \in W : A[i].ip = d.ip}) <= Limit(r)
                               /\ Cardinality({i \in W : A[i].actor = d.actor}) <= Limit(r)
    BY DEF Kept, Fits
  <2>2. W \subseteq 1..Len(A) /\ \A i \in W : B[i] = A[i]
    BY <1>1 DEF During
  <2>3. Budget!Length(r) \in Nat /\ t \in Int /\ time >= t
    BY DEF BudgetBounds, Budget!Length
  <2>4. CASE ~(time < t + Budget!Length(r))
    <3>1. V = W
      BY <1>1, <1>6, <2>4 DEF During
    <3>2. \A d \in Callers : /\ {i \in V : B[i].ip = d.ip} = {i \in W : A[i].ip = d.ip}
                             /\ {i \in V : B[i].actor = d.actor} = {i \in W : A[i].actor = d.actor}
      BY <2>2, <3>1
    <3> HIDE DEF V, W
    <3> QED
      BY <2>1, <3>1, <3>2 DEF V
  <2>5. CASE time < t + Budget!Length(r)
    <3>1. V = W \cup {N}
      BY <1>1, <1>6, <2>3, <2>5 DEF During
    <3>2. GlobalLimit \in Nat /\ Limit(r) \in Nat
      BY DEF BudgetBounds, Limit
    <3>3. r = "mutation" => Cardinality(V) <= GlobalLimit
      <4> SUFFICES ASSUME r = "mutation" PROVE Cardinality(V) <= GlobalLimit
        OBVIOUS
      <4>1. Cardinality(1..Len(E)) = Len(E)
        <5>1. 1 \in Int /\ Len(E) \in Int
          BY <1>3
        <5>2. Cardinality(1..Len(E)) = IF 1 > Len(E) THEN 0 ELSE Len(E) - 1 + 1
          BY <5>1, FS_Interval
        <5> QED
          BY <1>3, <5>2
      <4>2. Cardinality(1..Len(E)) < GlobalLimit
        BY <4>1 DEF Room
      <4>3. Cardinality(W \cup {N}) <= GlobalLimit
        BY <1>3, <1>5, <2>5, <3>2, <4>2, OneMore
      <4> QED
        BY <3>1, <4>3
    <3>4. ASSUME NEW d \in Callers PROVE Cardinality({i \in V : B[i].ip = d.ip}) <= Limit(r)
      <4> DEFINE S == {i \in W : A[i].ip = d.ip}
                 K == {k \in 1..Len(E) : E[k].ip = c.ip}
      <4>1. CASE d.ip = c.ip
        <5>1. {i \in V : B[i].ip = d.ip} = S \cup {N}
          BY <1>1, <2>2, <3>1, <4>1
        <5>2. S \subseteq W /\ K \subseteq 1..Len(E) /\ \A k \in 1..Len(E) : f[k] \in S => k \in K
          BY <1>5, <4>1 DEF Pairs
        <5>3. Cardinality(K) < Limit(r)
          BY DEF Room
        <5> HIDE DEF S, K, W
        <5>4. S \in SUBSET During(r, t, A) /\ K \in SUBSET (1..Len(E))
          BY <5>2 DEF W
        <5>5. Cardinality(S \cup {N}) <= Limit(r)
          BY <1>3, <1>5, <2>5, <3>2, <5>2, <5>3, <5>4, OneMore
        <5> QED
          BY <5>1, <5>5
      <4>2. CASE d.ip # c.ip
        <5>1. {i \in V : B[i].ip = d.ip} = S
          BY <1>1, <2>2, <3>1, <4>2
        <5> QED
          BY <2>1, <5>1
      <4> QED
        BY <4>1, <4>2
    <3>5. ASSUME NEW d \in Callers PROVE Cardinality({i \in V : B[i].actor = d.actor}) <= Limit(r)
      <4> DEFINE S == {i \in W : A[i].actor = d.actor}
                 K == {k \in 1..Len(E) : E[k].actor = c.actor}
      <4>1. CASE d.actor = c.actor
        <5>1. {i \in V : B[i].actor = d.actor} = S \cup {N}
          BY <1>1, <2>2, <3>1, <4>1
        <5>2. S \subseteq W /\ K \subseteq 1..Len(E) /\ \A k \in 1..Len(E) : f[k] \in S => k \in K
          BY <1>5, <4>1 DEF Pairs
        <5>3. Cardinality(K) < Limit(r)
          BY DEF Room
        <5> HIDE DEF S, K, W
        <5>4. S \in SUBSET During(r, t, A) /\ K \in SUBSET (1..Len(E))
          BY <5>2 DEF W
        <5>5. Cardinality(S \cup {N}) <= Limit(r)
          BY <1>3, <1>5, <2>5, <3>2, <5>2, <5>3, <5>4, OneMore
        <5> QED
          BY <5>1, <5>5
      <4>2. CASE d.actor # c.actor
        <5>1. {i \in V : B[i].actor = d.actor} = S
          BY <1>1, <2>2, <3>1, <4>2
        <5> QED
          BY <2>1, <5>1
      <4> QED
        BY <4>1, <4>2
    <3> QED
      BY <3>3, <3>4, <3>5
  <2> QED
    BY <2>4, <2>5
<1> QED
  BY <1>4, <1>7, <1>8 DEF Kept, B, X, e, x

\* The code's questions are whether there is room.
LEMMA AllowedIsRoom ==
    ASSUME NEW E \in Seq(Charge), NEW c \in Callers
    PROVE  /\ Budget!MutationAllowed(E, c) => Room("mutation", E, c)
           /\ \A r \in Budget!Route \ {"mutation"} : Budget!RouteAllowed(E, c) => Room(r, E, c)
<1>1. DOMAIN E = 1..Len(E)
  OBVIOUS
<1>2. /\ Budget!OfIp(E, c) = Cardinality({k \in 1..Len(E) : E[k].ip = c.ip})
      /\ Budget!OfActor(E, c) = Cardinality({k \in 1..Len(E) : E[k].actor = c.actor})
  BY <1>1, BudgetCardinality DEF Budget!OfIp, Budget!OfActor
<1> QED
  BY <1>2 DEF Budget!MutationAllowed, Budget!RouteAllowed, Room, Limit

\* A charge to route s, accepted or not, of the log A: its window is kept, and the
\* windows of the other routes with it.
LEMMA ChargeKeeps ==
    ASSUME BudgetBounds, time \in Nat \ {0}, wall \in Int, NEW s \in Budget!Route, NEW A, Logs(A, time),
           NEW c \in Callers, NEW allowed \in BOOLEAN,
           allowed = (IF s = "mutation"
                      THEN Budget!MutationAllowed(Budget!Recent(charged[s], Budget!Length(s)), c)
                      ELSE allowed /\ Budget!RouteAllowed(Budget!Recent(charged[s], Budget!Length(s)), c)),
           Kept(s, charged[s], A, time, wall)
    PROVE  LET B == IF allowed THEN Append(A, Budget!Logged(s, c)) ELSE A
           IN  /\ Logs(B, time) /\ Kept(s, Budget!Charged(s, c, allowed), B, time, wall)
               /\ \A r \in Budget!Route \ {s} : \A E : Kept(r, E, A, time, wall) => Kept(r, E, B, time, wall)
<1> DEFINE E == Budget!Recent(charged[s], Budget!Length(s))
<1>1. Kept(s, E, A, time, wall)
  BY RecentKeeps
<1>2. Budget!Charged(s, c, allowed) = IF allowed THEN Append(E, Budget!Event(c)) ELSE E
  BY DEF Budget!Charged
<1>3. E \in Seq(Charge)
  BY <1>1 DEF Kept
<1> HIDE DEF E
<1>4. CASE allowed
  <2>1. Room(s, E, c)
    BY <1>3, <1>4, AllowedIsRoom DEF E
  <2>2. Kept(s, Append(E, Budget!Event(c)), Append(A, Budget!Logged(s, c)), time, wall)
    BY <1>1, <2>1, LoggedKeeps
  <2>3. Logs(Append(A, Budget!Logged(s, c)), time)
    BY LongerLog
  <2>4. \A r \in Budget!Route \ {s} : \A F :
           Kept(r, F, A, time, wall) => Kept(r, F, Append(A, Budget!Logged(s, c)), time, wall)
    BY OtherRouteKeeps
  <2> QED
    BY <1>2, <1>4, <2>2, <2>3, <2>4
<1>5. CASE ~allowed
  BY <1>1, <1>2, <1>5
<1> QED
  BY <1>4, <1>5

LEMMA RequestKeeps ==
    ASSUME BudgetBounds, BudgetInv, NEW r \in Budget!Route, NEW c \in Callers, Budget!Request(r, c)
    PROVE  BudgetInv'
<1> DEFINE M == "mutation"
           first == Budget!MutationAllowed(Budget!Recent(charged[M], Window), c)
           second == first /\ r # M /\ Budget!RouteAllowed(Budget!Recent(charged[r], RouteWindow), c)
           B == IF first THEN Append(accepted, Budget!Logged(M, c)) ELSE accepted
           C == IF second THEN Append(B, Budget!Logged(r, c)) ELSE B
<1>1. /\ charged' = [s \in Budget!Route |->
              CASE s = M                 -> Budget!Charged(s, c, first)
                [] s = r /\ s # M /\ first -> Budget!Charged(s, c, second)
                [] OTHER                 -> charged[s]]
      /\ accepted' = accepted \o (IF first THEN <<Budget!Logged(M, c)>> ELSE <<>>)
                              \o (IF second THEN <<Budget!Logged(r, c)>> ELSE <<>>)
      /\ UNCHANGED <<wall, time>>
  BY DEF Budget!Request
<1>2. /\ time \in Nat \ {0} /\ wall \in Int /\ Logs(accepted, time)
      /\ charged = [s \in Budget!Route |-> charged[s]]
      /\ \A s \in Budget!Route : Kept(s, charged[s], accepted, time, wall)
  BY DEF BudgetInv
<1>3. M \in Budget!Route /\ first \in BOOLEAN /\ second \in BOOLEAN
  BY DEF Budget!Route, Budget!MutationAllowed
<1>4. Budget!Length(M) = Window /\ (r # M => Budget!Length(r) = RouteWindow)
  BY DEF Budget!Length
<1>5. /\ Logs(B, time) /\ Kept(M, Budget!Charged(M, c, first), B, time, wall)
      /\ \A s \in Budget!Route \ {M} : Kept(s, charged[s], B, time, wall)
  <2>1. first = Budget!MutationAllowed(Budget!Recent(charged[M], Budget!Length(M)), c)
    BY <1>4
  <2> HIDE DEF first
  <2> QED
    BY <1>2, <1>3, <2>1, ChargeKeeps
<1>6. accepted' = C
  <2>1. \A Q \in Seq(Logging) : \A x \in Logging : Q \o <<x>> = Append(Q, x) /\ Q \o <<>> = Q
    OBVIOUS
  <2>2. Budget!Logged(M, c) \in Logging /\ Budget!Logged(r, c) \in Logging
    <3>1. time \in Int
      BY <1>2
    <3> QED
      BY <1>3, <3>1 DEF Logging, Budget!Logged
  <2>3. accepted \in Seq(Logging) /\ B \in Seq(Logging) /\ accepted \o <<>> = accepted
        /\ B \o <<>> = B
    BY <1>2, <1>5 DEF Logs
  <2> HIDE DEF first, second
  <2> QED
    BY <1>1, <2>1, <2>2, <2>3
<1> HIDE DEF first, B
<1>7. CASE r = M \/ ~first
  <2>1. C = B
    BY <1>7
  <2>2. /\ charged' = [s \in Budget!Route |-> charged'[s]]
        /\ charged'[M] = Budget!Charged(M, c, first)
        /\ \A s \in Budget!Route \ {M} : charged'[s] = charged[s]
    <3> HIDE DEF second, M
    <3> QED
      BY <1>1, <1>3, <1>7
  <2>3. \A s \in Budget!Route : Kept(s, charged'[s], accepted', time, wall)
    BY <1>5, <1>6, <2>1, <2>2
  <2> QED
    BY <1>1, <1>2, <1>5, <1>6, <2>1, <2>2, <2>3 DEF BudgetInv
<1>8. CASE r # M /\ first
  <2>1. /\ charged' = [s \in Budget!Route |-> charged'[s]]
        /\ charged'[M] = Budget!Charged(M, c, first)
        /\ charged'[r] = Budget!Charged(r, c, second)
        /\ \A s \in Budget!Route \ {M, r} : charged'[s] = charged[s]
    <3> HIDE DEF second, M
    <3> QED
      BY <1>1, <1>2, <1>3, <1>8
  <2>2. /\ Logs(C, time) /\ Kept(r, Budget!Charged(r, c, second), C, time, wall)
        /\ \A s \in Budget!Route \ {r} : \A E : Kept(s, E, B, time, wall) => Kept(s, E, C, time, wall)
    <3>1. second = (second /\ Budget!RouteAllowed(Budget!Recent(charged[r], Budget!Length(r)), c))
      BY <1>3, <1>4, <1>8
    <3>2. Kept(r, charged[r], B, time, wall)
      BY <1>5, <1>8
    <3> HIDE DEF second
    <3> QED
      BY <1>2, <1>3, <1>5, <1>8, <3>1, <3>2, ChargeKeeps
  <2>3. \A s \in Budget!Route : Kept(s, charged'[s], accepted', time, wall)
    BY <1>5, <1>6, <1>8, <2>1, <2>2
  <2> QED
    BY <1>1, <1>2, <1>6, <2>1, <2>2, <2>3 DEF BudgetInv
<1> QED
  BY <1>7, <1>8

\* Time goes on, and the clock with it or not.
LEMMA PassKeeps ==
    ASSUME BudgetBounds, BudgetInv, Budget!Pass \/ Budget!SetBack PROVE BudgetInv'
<1>1. /\ UNCHANGED <<charged, accepted>>
      /\ \/ time' = time + 1 /\ wall' = wall + 1
         \/ time' = time /\ wall' = wall - 1
  BY DEF Budget!Pass, Budget!SetBack
<1>2. /\ time \in Nat \ {0} /\ wall \in Int /\ Logs(accepted, time)
      /\ charged = [s \in Budget!Route |-> charged[s]]
      /\ \A s \in Budget!Route : Kept(s, charged[s], accepted, time, wall)
  BY DEF BudgetInv
<1>3. \A i \in 1..Len(accepted) : accepted[i].at \in Int /\ accepted[i].at <= time
  <2>1. \A i \in 1..Len(accepted) : accepted[i] \in Logging
    BY <1>2 DEF Logs
  <2>2. \A x \in Logging : x.at \in Int
    BY DEF Logging
  <2> QED
    BY <1>2, <2>1, <2>2 DEF Logs
<1>4. time' \in Nat \ {0} /\ wall' \in Int /\ time' >= time /\ time' - time >= wall' - wall
  BY <1>1, <1>2
<1>5. Logs(accepted, time')
  BY <1>2, <1>3, <1>4 DEF Logs
<1>6. ASSUME NEW r \in Budget!Route PROVE Kept(r, charged[r], accepted, time', wall')
  <2> DEFINE E == charged[r]
  <2>1. PICK f : Pairs(f, r, E, accepted, time, wall)
    BY <1>2 DEF Kept, Paired
  <2>2. E \in Seq(Charge) /\ \A k \in 1..Len(E) : E[k].at \in Int
    <3>1. E \in Seq(Charge)
      BY <1>2 DEF Kept
    <3>2. \A x \in Charge : x.at \in Int
      BY DEF Charge
    <3>3. \A k \in 1..Len(E) : E[k] \in Charge
      BY <3>1
    <3> QED
      BY <3>1, <3>2, <3>3
  <2>3. Budget!Length(r) \in Nat
    BY DEF BudgetBounds, Budget!Length
  <2> HIDE DEF E
  <2>4. ASSUME NEW k \in 1..Len(E) PROVE time' - accepted[f[k]].at >= wall' - E[k].at
    <3>1. f[k] \in 1..Len(accepted) /\ time - accepted[f[k]].at >= wall - E[k].at
      BY <2>1 DEF Pairs
    <3>2. PICK a : a = accepted[f[k]].at
      OBVIOUS
    <3>3. PICK b : b = E[k].at
      OBVIOUS
    <3>4. a \in Int /\ b \in Int /\ time - a >= wall - b
      BY <1>3, <2>2, <3>1, <3>2, <3>3
    <3>5. time' - a >= wall' - b
      BY <1>2, <1>4, <3>4
    <3> QED
      BY <3>2, <3>3, <3>5
  <2>5. ASSUME NEW i \in 1..Len(accepted), time - accepted[i].at >= Budget!Length(r)
        PROVE  time' - accepted[i].at >= Budget!Length(r)
    BY <1>2, <1>3, <1>4, <2>3, <2>5
  <2>6. Pairs(f, r, E, accepted, time', wall')
    BY <2>1, <2>4, <2>5 DEF Pairs
  <2>7. Fits(r, accepted, time')
    <3>1. Fits(r, accepted, time)
      BY <1>2 DEF Kept
    <3>2. ASSUME NEW t \in 1..time', t \notin 1..time PROVE During(r, t, accepted) = {}
      BY <1>2, <1>3, <1>4, <3>2 DEF During
    <3>3. GlobalLimit >= 0 /\ Limit(r) >= 0
      BY DEF BudgetBounds, Limit
    <3>4. ASSUME NEW t \in 1..time', t \notin 1..time
          PROVE  /\ r = "mutation" => Cardinality(During(r, t, accepted)) <= GlobalLimit
                 /\ \A c \in Callers :
                       /\ Cardinality({i \in During(r, t, accepted) : accepted[i].ip = c.ip}) <= Limit(r)
                       /\ Cardinality({i \in During(r, t, accepted) : accepted[i].actor = c.actor})
                             <= Limit(r)
      <4>1. During(r, t, accepted) = {}
        BY <3>2, <3>4
      <4>2. \A c \in Callers :
               /\ {i \in During(r, t, accepted) : accepted[i].ip = c.ip} = {}
               /\ {i \in During(r, t, accepted) : accepted[i].actor = c.actor} = {}
        BY <4>1
      <4>3. Cardinality({}) = 0
        BY FS_EmptySet
      <4> QED
        BY <3>3, <4>1, <4>2, <4>3
    <3> QED
      BY <3>1, <3>4 DEF Fits
  <2> QED
    BY <2>2, <2>6, <2>7 DEF Kept, Paired, E
<1> QED
  BY <1>1, <1>2, <1>4, <1>5, <1>6 DEF BudgetInv

\* However the clock is set back, no window of real time holds more accepted requests
\* than the budgets of the deployment, of a client address, of an actor and of a route
\* allow (enforce_mutation_budget, enforce_route_budget).
THEOREM BudgetsHold == BudgetBounds => (Budget!Spec => []Budget!BudgetHolds)
<1> SUFFICES ASSUME BudgetBounds PROVE Budget!Spec => []Budget!BudgetHolds
  OBVIOUS
<1>1. Budget!Init => BudgetInv
  <2> SUFFICES ASSUME Budget!Init PROVE BudgetInv
    OBVIOUS
  <2>1. /\ wall = 1 /\ time = 1 /\ charged = [r \in Budget!Route |-> <<>>] /\ accepted = <<>>
    BY DEF Budget!Init
  <2>2. Logs(<<>>, 1)
    BY DEF Logs
  <2>3. ASSUME NEW r \in Budget!Route PROVE Kept(r, <<>>, <<>>, 1, 1)
    <3>1. Pairs(<<>>, r, <<>>, <<>>, 1, 1)
      BY DEF Pairs
    <3>2. \A t : During(r, t, <<>>) = {}
      BY DEF During
    <3>3. Cardinality({}) = 0 /\ GlobalLimit >= 0 /\ Limit(r) >= 0
      BY FS_EmptySet DEF BudgetBounds, Limit
    <3>4. \A t : \A c \in Callers :
             /\ {i \in During(r, t, <<>>) : <<>>[i].ip = c.ip} = {}
             /\ {i \in During(r, t, <<>>) : <<>>[i].actor = c.actor} = {}
      BY <3>2
    <3>5. Fits(r, <<>>, 1)
      BY <3>2, <3>3, <3>4 DEF Fits
    <3> QED
      BY <3>1, <3>5 DEF Kept, Paired
  <2> QED
    BY <2>1, <2>2, <2>3 DEF BudgetInv
<1>2. BudgetInv /\ [Budget!Next]_Budget!vars => BudgetInv'
  <2> SUFFICES ASSUME BudgetInv, [Budget!Next]_Budget!vars PROVE BudgetInv'
    OBVIOUS
  <2>1. CASE UNCHANGED Budget!vars
    BY <2>1 DEF Budget!vars, BudgetInv
  <2> QED
    BY <2>1, RequestKeeps, PassKeeps DEF Budget!Next
<1>3. BudgetInv => Budget!BudgetHolds
  <2> SUFFICES ASSUME BudgetInv PROVE Budget!BudgetHolds
    OBVIOUS
  <2>1. DOMAIN accepted = 1..Len(accepted) /\ \A r \in Budget!Route : Fits(r, accepted, time)
    BY DEF BudgetInv, Logs, Kept
  <2>2. ASSUME NEW t \in 1..time, NEW r \in Budget!Route
        PROVE  LET during == {i \in DOMAIN accepted :
                                /\ accepted[i].route = r
                                /\ accepted[i].at >= t /\ accepted[i].at < t + Budget!Length(r)}
                   limit == IF r = "mutation" THEN CallerLimit ELSE RouteLimit
               IN  /\ r = "mutation" => Budget!Cardinality(during) <= GlobalLimit
                   /\ \A c \in Callers :
                         /\ Budget!Cardinality({i \in during : accepted[i].ip = c.ip}) <= limit
                         /\ Budget!Cardinality({i \in during : accepted[i].actor = c.actor}) <= limit
    <3> DEFINE W == During(r, t, accepted)
    <3>1. {i \in DOMAIN accepted :
             /\ accepted[i].route = r
             /\ accepted[i].at >= t /\ accepted[i].at < t + Budget!Length(r)} = W
      BY <2>1 DEF During
    <3>2. /\ r = "mutation" => Cardinality(W) <= GlobalLimit
          /\ \A c \in Callers :
                /\ Cardinality({i \in W : accepted[i].ip = c.ip}) <= Limit(r)
                /\ Cardinality({i \in W : accepted[i].actor = c.actor}) <= Limit(r)
      BY <2>1 DEF Fits
    <3> HIDE DEF W
    <3>3. /\ r = "mutation" => Budget!Cardinality(W) <= GlobalLimit
          /\ \A c \in Callers :
                /\ Budget!Cardinality({i \in W : accepted[i].ip = c.ip}) <= Limit(r)
                /\ Budget!Cardinality({i \in W : accepted[i].actor = c.actor}) <= Limit(r)
      BY <3>2, BudgetCardinality
    <3> QED
      BY <3>1, <3>3 DEF Limit
  <2> QED
    BY <2>2, Zenon DEF Budget!BudgetHolds
<1> QED
  BY <1>1, <1>2, <1>3, PTL DEF Budget!Spec
=============================================================================
