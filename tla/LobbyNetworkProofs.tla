-------------------------- MODULE LobbyNetworkProofs --------------------------
(***************************************************************************)
(* Nothing a creation left in the world is out of reach, for any number of *)
(* lobbies and of faults.  The records of a lobby are in three places: in  *)
(* memory, in the image on disk, which a failed write may leave ahead of   *)
(* memory, and in the handler that holds the lobby's lock.  The invariant  *)
(* says what a record in any of them implies about the tailnet (n) and its *)
(* secret (v), and what each stage of a handler (j) knows.                 *)
(*                                                                         *)
(* The last section is about the keys and invitations that let riders into *)
(* such a lobby (LobbyAdmission), instantiated with its own constants and  *)
(* variables: no theorem speaks of both.                                   *)
(***************************************************************************)
EXTENDS LobbyNetwork, Sequences, TLAPS

Tailnet == {"none", "coming", "present", "deleting", "absent"}
Custody == {"none", "held", "erased"}
Anchor == {"none", "fresh", "elapsed"}

Creating == {"reserve", "prepare", "prepared"}
CreatingRecord == [NewRecord EXCEPT !.lifecycle = "Creating"]

GoneFor(n, v) == n \notin {"coming", "present", "deleting"} /\ v # "held"

(* What a record says about the world, wherever it is. *)
Agrees(n, v, r) ==
    /\ r.lifecycle = "CreateRejected" => n = "none" /\ v = "none"
    /\ r.lifecycle = "DedicatedAbsent" => v = "erased"
    /\ r.lifecycle = "Active" => v = "held" /\ r.identity
    /\ r.identity => n \in {"present", "deleting", "absent"}
    /\ r.state = "Destroyed" => r.pending \/ r.lifecycle = "DedicatedAbsent"

(* What a handler knows at each of its stages; a is the lobby's anchor. *)
Knows(n, v, a, j) ==
    /\ Agrees(n, v, j.rec)
    /\ j.pc # "idle" => j.rec.state # "None"
    /\ j.pc \in Creating => j.rec \in {NewRecord, CreatingRecord}
    /\ j.pc \in {"reserve", "prepare"} => n = "none" /\ v = "none"
    /\ j.pc = "prepared" =>
           /\ j.answer # "none"
           /\ j.answer = "rejected" => n = "none" /\ v = "none"
           /\ j.answer = "ok" => n = "present" /\ v = "held"
           /\ j.answer \in {"blocked", "gated", "deleted"} =>
                  n \in {"present", "deleting", "absent"}
    /\ j.pc \in {"reset", "observe"} => j.rec.identity
    /\ j.pc = "reset" => j.rec.first = FALSE
    /\ j.pc = "observe" /\ j.rec.first => a = "elapsed"
    /\ j.pc \in {"second", "erase"} => n = "absent"
    /\ j.pc \in {"intent", "delete", "present", "first", "second", "erase"} => j.rec.pending
    /\ j.pc = "final" => j.rec.pending \/ j.rec.lifecycle = "DedicatedAbsent"
    /\ j.pc \in {"intent", "delete"} => j.rec.lifecycle = "CleanupRequested"
    /\ j.pc \in {"reset", "observe", "first", "second", "erase"} =>
           j.rec.lifecycle = "VerifyingAbsence"

(* What an image of the store holds for the lobby, and for its handler while *)
(* that may change the world: a creation is on record and leased, and no     *)
(* secret is erased of a record that says Active. *)
Covers(n, v, j, l, s) ==
    /\ Agrees(n, v, s.rec[l])
    /\ s.rec[l].state = "None" \/ s.lease # l => GoneFor(n, v)
    /\ l \notin s.used => n = "none" /\ v = "none"
    /\ j.pc \in Creating => s.rec[l] = j.rec /\ s.lease = l /\ l \in s.used
    /\ j.pc = "erase" => s.rec[l].lifecycle # "Active"

(* The first absence was observed of a tailnet being deleted, and the        *)
(* separation outlasts the deletion. *)
Anchored(n, a) ==
    /\ a # "none" => n \in {"deleting", "absent"}
    /\ a = "elapsed" => n = "absent"

Whole(l, m, d, j, a, n, v) ==
    /\ Covers(n, v, j, l, m) /\ Covers(n, v, j, l, d)
    /\ Knows(n, v, a, j)
    /\ Anchored(n, a)
    /\ v = "erased" => n = "absent"

LobbyInv(l) == Whole(l, mem, disk, job[l], anchor[l], net[l], vault[l])

AllInv == \A l \in Lobby : LobbyInv(l)

Types ==
    /\ mem \in StoreData /\ disk \in StoreData
    /\ job \in [Lobby -> Job]
    /\ anchor \in [Lobby -> Anchor]
    /\ net \in [Lobby -> Tailnet]
    /\ vault \in [Lobby -> Custody]

DownIsIdle == ~up => \A l \in Lobby : job[l] = Idle

(* Only a protected worker is signalled, and it creates the one lobby it serves. *)
BrokerFits ==
    /\ signal # "none" => Brokered
    /\ \A l \in Lobby : job[l].then = "handled" => Brokered
    /\ Brokered => mem.used \subseteq {Served} /\ disk.used \subseteq {Served}

ReleaseFits ==
    signal \in {"checked", "released"} /\ over =>
        \A l \in Lobby : GoneFor(net[l], vault[l]) /\ job[l].pc \notin Creating

NetworkInv == Types /\ AllInv /\ DownIsIdle /\ BrokerFits /\ ReleaseFits
-----------------------------------------------------------------------------
(* Records and handlers. *)

PC == {"idle", "reserve", "prepare", "prepared", "mint", "maintain", "close", "intent",
       "delete", "reset", "observe", "present", "first", "second", "erase", "final"}

LEMMA RecordTypes ==
    /\ NewRecord \in Record /\ NoRecord \in Record /\ CreatingRecord \in Record /\ Idle \in Job
    /\ NewRecord.state = "Provisioning" /\ NewRecord.lifecycle = "Reserved" /\ ~NewRecord.identity
    /\ CreatingRecord.state = "Provisioning" /\ CreatingRecord.lifecycle = "Creating"
    /\ ~CreatingRecord.identity
    /\ NoRecord.state = "None" /\ NoRecord.lifecycle = "Reserved" /\ ~NoRecord.identity
    /\ Idle.pc = "idle" /\ Idle.rec = NoRecord
BY DEF NewRecord, NoRecord, CreatingRecord, Idle, Record, Job, Open, Ended

LEMMA AtTypes ==
    ASSUME NEW j \in Job, NEW pc \in PC, NEW r \in Record, NEW k, k = At(j, pc, r)
    PROVE  /\ k \in Job /\ k.pc = pc /\ k.rec = r
           /\ k.answer = j.answer /\ k.finalize = j.finalize
           /\ k.then = j.then /\ k.http = j.http
BY DEF At, Job, PC

(* One fact for each stage: together they are too much for the provers. *)
LEMMA FinalStage == "final" \in PC
BY DEF PC

LEMMA ResetStage == "reset" \in PC
BY DEF PC

LEMMA ObserveStage == "observe" \in PC
BY DEF PC

LEMMA IntentStage == "intent" \in PC
BY DEF PC

LEMMA DeleteStage == "delete" \in PC
BY DEF PC

LEMMA EraseStage == "erase" \in PC
BY DEF PC

LEMMA CloseStage == "close" \in PC
BY DEF PC

LEMMA MaintainStage == "maintain" \in PC
BY DEF PC

LEMMA PresentStage == "present" \in PC
BY DEF PC

LEMMA FirstStage == "first" \in PC
BY DEF PC

LEMMA SecondStage == "second" \in PC
BY DEF PC

LEMMA PrepareStage == "prepare" \in PC
BY DEF PC

LEMMA MintStage == "mint" \in PC
BY DEF PC

LEMMA IdleStage == "idle" \in PC
BY DEF PC

(* Manual, Unproven and the other changes a handler makes to its record. *)
LEMMA ManualTypes ==
    ASSUME NEW r \in Record
    PROVE  /\ Manual(r) \in Record
           /\ Manual(r).lifecycle = "ManualRemediation" /\ Manual(r).pending = TRUE
           /\ Manual(r).identity = r.identity /\ Manual(r).state = r.state
           /\ Manual(r).first = r.first
BY DEF Manual, Record

LEMMA UnprovenTypes ==
    ASSUME NEW r \in Record
    PROVE  /\ Unproven(r) \in Record
           /\ Unproven(r).lifecycle = r.lifecycle /\ Unproven(r).pending = r.pending
           /\ Unproven(r).identity = r.identity /\ Unproven(r).state = r.state
           /\ Unproven(r).first = FALSE
BY DEF Unproven, Record

LEMMA PendingTypes ==
    ASSUME NEW r \in Record, NEW q, q = [r EXCEPT !.pending = TRUE]
    PROVE  /\ q \in Record
           /\ q.lifecycle = r.lifecycle /\ q.pending = TRUE
           /\ q.identity = r.identity /\ q.state = r.state /\ q.first = r.first
BY DEF Record

(* A record for an operator says nothing the one before did not. *)
LEMMA ManualAgrees ==
    ASSUME NEW n, NEW v, NEW r \in Record, Agrees(n, v, r)
    PROVE  Agrees(n, v, Manual(r)) /\ Agrees(n, v, Unproven(r))
           /\ Agrees(n, v, [r EXCEPT !.pending = TRUE])
<1>1. Agrees(n, v, Manual(r))
  BY ManualTypes DEF Agrees
<1>2. Agrees(n, v, Unproven(r))
  BY UnprovenTypes DEF Agrees
<1>3. Agrees(n, v, [r EXCEPT !.pending = TRUE])
  BY PendingTypes DEF Agrees
<1> QED BY <1>1, <1>2, <1>3

LEMMA IdleKnows == ASSUME NEW n, NEW v, NEW a PROVE Knows(n, v, a, Idle)
BY RecordTypes DEF Knows, Agrees, Creating

(* reconcile_dedicated_absence, up to its call. *)
LEMMA VerifyKnows ==
    ASSUME NEW n, NEW v, NEW a \in Anchor, NEW j \in Job, Agrees(n, v, j.rec),
           j.rec.state # "None", j.rec.lifecycle = "VerifyingAbsence"
    PROVE  /\ Verify(j, a) \in Job /\ Knows(n, v, a, Verify(j, a))
           /\ Verify(j, a).pc \in {"final", "reset", "observe"}
<1>0. j.rec \in Record /\ j.rec.identity \in BOOLEAN /\ j.rec.first \in BOOLEAN
  BY DEF Job, Record
<1>1. CASE ~j.rec.identity
  <2>1. Verify(j, a) = At(j, "final", Manual(j.rec))
    BY <1>1 DEF Verify
  <2>2. /\ Manual(j.rec) \in Record /\ Manual(j.rec).pending /\ Agrees(n, v, Manual(j.rec))
        /\ Manual(j.rec).state # "None"
    BY <1>0, ManualTypes, ManualAgrees
  <2>3. /\ Verify(j, a) \in Job /\ Verify(j, a).pc = "final" /\ Verify(j, a).rec = Manual(j.rec)
    BY <2>1, <2>2, FinalStage, AtTypes
  <2> QED BY <2>2, <2>3 DEF Knows, Creating
<1>2. CASE j.rec.identity /\ j.rec.first /\ a = "none"
  <2>1. Verify(j, a) = At(j, "reset", Unproven(j.rec))
    BY <1>2 DEF Verify
  <2>2. /\ Unproven(j.rec) \in Record /\ Unproven(j.rec).identity = TRUE
        /\ Unproven(j.rec).first = FALSE /\ Agrees(n, v, Unproven(j.rec))
        /\ Unproven(j.rec).state # "None" /\ Unproven(j.rec).lifecycle = "VerifyingAbsence"
    BY <1>0, <1>2, UnprovenTypes, ManualAgrees
  <2>3. /\ Verify(j, a) \in Job /\ Verify(j, a).pc = "reset" /\ Verify(j, a).rec = Unproven(j.rec)
    BY <2>1, <2>2, ResetStage, AtTypes
  <2> QED BY <2>2, <2>3 DEF Knows, Creating
<1>3. CASE j.rec.identity /\ j.rec.first /\ a = "fresh"
  <2> DEFINE q == [j.rec EXCEPT !.pending = TRUE]
  <2>1. Verify(j, a) = At(j, "final", q)
    BY <1>3 DEF Verify
  <2>2. q \in Record /\ q.pending = TRUE /\ q.state # "None"
    BY <1>0 DEF Record
  <2>4. Agrees(n, v, q)
    BY <1>0, ManualAgrees
  <2> HIDE DEF q
  <2>3. /\ Verify(j, a) \in Job /\ Verify(j, a).pc = "final" /\ Verify(j, a).rec = q
    BY <2>1, <2>2, FinalStage, AtTypes
  <2> QED BY <2>2, <2>3, <2>4 DEF Knows, Creating
<1>4. CASE j.rec.identity /\ (j.rec.first => a = "elapsed")
  <2>1. Verify(j, a) = At(j, "observe", j.rec)
    BY <1>4 DEF Verify
  <2>2. /\ Verify(j, a) \in Job /\ Verify(j, a).pc = "observe" /\ Verify(j, a).rec = j.rec
    BY <1>0, <2>1, ObserveStage, AtTypes
  <2> QED BY <1>4, <2>2 DEF Knows, Creating
<1> QED BY <1>1, <1>2, <1>3, <1>4 DEF Anchor

(* cleanup_resources, up to its first write or call. *)
LEMMA CleanKnows ==
    ASSUME NEW n, NEW v, NEW a \in Anchor, NEW j \in Job, Agrees(n, v, j.rec),
           j.rec.state # "None"
    PROVE  /\ Clean(j, a) \in Job /\ Knows(n, v, a, Clean(j, a))
           /\ Clean(j, a).pc \in {"final", "reset", "observe", "intent"}
<1>0. j.rec \in Record
  BY DEF Job
<1>1. CASE j.rec.lifecycle = "VerifyingAbsence"
  BY <1>1, VerifyKnows DEF Clean
<1>2. CASE j.rec.lifecycle = "DedicatedAbsent"
  <2>1. Clean(j, a) = At(j, "final", j.rec)
    BY <1>2 DEF Clean
  <2>2. /\ Clean(j, a) \in Job /\ Clean(j, a).pc = "final" /\ Clean(j, a).rec = j.rec
    BY <1>0, <2>1, FinalStage, AtTypes
  <2> QED BY <1>2, <2>2 DEF Knows, Creating
<1>3. CASE j.rec.lifecycle \in {"CreateUnknown", "ManualRemediation"}
  <2>1. Clean(j, a) = At(j, "final", Manual(j.rec))
    BY <1>3 DEF Clean
  <2>2. /\ Manual(j.rec) \in Record /\ Manual(j.rec).pending /\ Agrees(n, v, Manual(j.rec))
        /\ Manual(j.rec).state # "None"
    BY <1>0, ManualTypes, ManualAgrees
  <2>3. /\ Clean(j, a) \in Job /\ Clean(j, a).pc = "final" /\ Clean(j, a).rec = Manual(j.rec)
    BY <2>1, <2>2, FinalStage, AtTypes
  <2> QED BY <2>2, <2>3 DEF Knows, Creating
<1>4. CASE j.rec.lifecycle \notin {"VerifyingAbsence", "DedicatedAbsent", "CreateUnknown",
                                   "ManualRemediation"}
  <2> DEFINE q == [j.rec EXCEPT !.lifecycle = "CleanupRequested", !.requested = TRUE,
                                !.pending = TRUE]
  <2>1. Clean(j, a) = At(j, "intent", q)
    BY <1>4 DEF Clean
  <2>2. /\ q \in Record /\ q.pending = TRUE /\ q.lifecycle = "CleanupRequested"
        /\ q.identity = j.rec.identity /\ q.state # "None" /\ q.state = j.rec.state
    BY <1>0 DEF Record
  <2> HIDE DEF q
  <2>3. /\ Clean(j, a) \in Job /\ Clean(j, a).pc = "intent" /\ Clean(j, a).rec = q
    BY <2>1, <2>2, IntentStage, AtTypes
  <2>4. Agrees(n, v, q)
    BY <2>2 DEF Agrees
  <2> QED BY <2>2, <2>3, <2>4 DEF Knows, Creating
<1> QED BY <1>1, <1>2, <1>3, <1>4

(* delete_lobby and submit_results, up to their first write or call. *)
LEMMA ClosedKnows ==
    ASSUME NEW n, NEW v, NEW a \in Anchor, NEW j \in Job, Agrees(n, v, j.rec),
           j.rec.state # "None"
    PROVE  /\ Closed(j, a) \in Job /\ Knows(n, v, a, Closed(j, a))
           /\ Closed(j, a).pc \notin Creating \cup {"erase"}
<1>0. j.rec \in Record
  BY DEF Job
<1>1. CASE j.rec.state = "Destroyed" /\ ~j.rec.pending
  <2>1. Closed(j, a) = Idle
    BY <1>1 DEF Closed, Open
  <2> QED BY <2>1, IdleKnows, RecordTypes DEF Creating
<1>2. CASE j.rec.state \in Open
  <2> DEFINE q == [j.rec EXCEPT !.state = "Closing"]
  <2>1. Closed(j, a) = At(j, "close", q)
    BY <1>2 DEF Closed, Open
  <2>2. /\ q \in Record /\ q.state = "Closing" /\ q.lifecycle = j.rec.lifecycle
        /\ q.identity = j.rec.identity
    BY <1>0 DEF Record
  <2> HIDE DEF q
  <2>3. Closed(j, a) \in Job /\ Closed(j, a).pc = "close" /\ Closed(j, a).rec = q
    BY <2>1, <2>2, CloseStage, AtTypes
  <2>4. Agrees(n, v, q)
    BY <2>2 DEF Agrees
  <2> QED BY <2>2, <2>3, <2>4 DEF Knows, Creating
<1>3. CASE ~(j.rec.state = "Destroyed" /\ ~j.rec.pending) /\ j.rec.state \notin Open
  <2> DEFINE k == [j EXCEPT !.finalize = TRUE, !.then = "end"]
  <2>1. Closed(j, a) = Clean(k, a)
    BY <1>3 DEF Closed
  <2>2. k \in Job /\ k.rec = j.rec
    BY DEF Job
  <2> HIDE DEF k
  <2>3. /\ Clean(k, a) \in Job /\ Knows(n, v, a, Clean(k, a))
        /\ Clean(k, a).pc \in {"final", "reset", "observe", "intent"}
    BY <2>2, CleanKnows
  <2> QED BY <2>1, <2>3 DEF Creating
<1> QED BY <1>1, <1>2, <1>3
-----------------------------------------------------------------------------
(* The store. *)

LEMMA ReplaceTypes ==
    ASSUME NEW s \in StoreData, NEW l \in Lobby, NEW r \in Record, NEW t, t = Replace(s, l, r)
    PROVE  /\ t \in StoreData /\ t.rec[l] = r /\ t.used = s.used
           /\ s.lease = l /\ ~Releases(r) => t.lease = l
           /\ \A m \in Lobby : m # l => t.rec[m] = s.rec[m] /\ (s.lease = m => t.lease = m)
<1> DEFINE f == [s.rec EXCEPT ![l] = r]
           e == IF s.lease = l /\ Releases(r) THEN NoLobby ELSE s.lease
           q == \/ s.quarantined
                \/ s.lease = l /\ ReleaseLifecycle(r) /\ ~Releases(r)
                \/ s.lease # l /\ ~Releases(r)
<1>1. /\ s.rec \in [Lobby -> Record] /\ s.lease \in Lobby \cup {NoLobby}
      /\ s.quarantined \in BOOLEAN /\ s.used \in SUBSET Lobby
      /\ s = [rec |-> s.rec, lease |-> s.lease, quarantined |-> s.quarantined, used |-> s.used]
  BY DEF StoreData
<1>2. t = [s EXCEPT !.rec = f, !.lease = e, !.quarantined = q]
  BY <1>1 DEF Replace
<1>3. f \in [Lobby -> Record] /\ e \in Lobby \cup {NoLobby} /\ q \in BOOLEAN
  BY <1>1 DEF ReleaseLifecycle
<1>4. /\ f[l] = r /\ \A m \in Lobby : m # l => f[m] = s.rec[m]
      /\ s.lease = l /\ ~Releases(r) => e = l
      /\ \A m \in Lobby : m # l /\ s.lease = m => e = m
  BY <1>1, LobbyAssumption
<1> HIDE DEF f, e, q
<1>5. t \in StoreData /\ t.rec = f /\ t.lease = e /\ t.used = s.used
  BY <1>1, <1>2, <1>3 DEF StoreData
<1> QED BY <1>4, <1>5

(* An image covers a lobby it treats like another image that does. *)
LEMMA CoversLike ==
    ASSUME NEW n, NEW v, NEW j, NEW m, NEW s, NEW t, Covers(n, v, j, m, s),
           t.rec[m] = s.rec[m], s.lease = m => t.lease = m, t.used = s.used
    PROVE  Covers(n, v, j, m, t)
BY DEF Covers

(* A handler that neither creates nor deletes asks nothing of the store. *)
LEMMA CoversCalm ==
    ASSUME NEW n, NEW v, NEW j, NEW k, NEW m, NEW s, Covers(n, v, j, m, s),
           k.pc \notin Creating \cup {"erase"}
    PROVE  Covers(n, v, k, m, s)
BY DEF Covers

(* A record that releases its lease has nothing left in the world. *)
LEMMA ReleasedIsGone ==
    ASSUME NEW n, NEW v, NEW r, Agrees(n, v, r), Releases(r), v = "erased" => n = "absent"
    PROVE  GoneFor(n, v)
BY DEF Agrees, Releases, GoneFor

(* A handler's write, whether it commits, is lost or finds no record, leaves *)
(* both images covering every lobby. *)
LEMMA WriteCovers ==
    ASSUME Types, AllInv, NEW l \in Lobby, NEW r \in Record, NEW ok \in Job, NEW bad \in Job,
           Write(l, r, ok, bad),
           r.state # "None", Agrees(net[l], vault[l], r),
           ok.pc \in Creating => ok.rec = r /\ ~Releases(r) /\ mem.lease = l /\ l \in mem.used,
           ok.pc = "erase" => r.lifecycle # "Active",
           bad.pc \notin Creating \cup {"erase"}
    PROVE  /\ mem' \in StoreData /\ disk' \in StoreData /\ job' \in [Lobby -> Job]
           /\ mem'.used = mem.used /\ disk'.used \in {disk.used, mem.used}
           /\ job'[l] \in {ok, bad, Idle}
           /\ \A m \in Lobby : m # l => job'[m] = job[m]
           /\ \A m \in Lobby : /\ Covers(net[m], vault[m], job'[m], m, mem')
                               /\ Covers(net[m], vault[m], job'[m], m, disk')
<1> DEFINE t == Replace(mem, l, r)
<1>1. /\ mem \in StoreData /\ disk \in StoreData /\ job \in [Lobby -> Job]
  BY DEF Types
<1>2. /\ t \in StoreData /\ t.rec[l] = r /\ t.used = mem.used
      /\ mem.lease = l /\ ~Releases(r) => t.lease = l
      /\ \A m \in Lobby : m # l => t.rec[m] = mem.rec[m] /\ (mem.lease = m => t.lease = m)
  BY <1>1, ReplaceTypes
<1>3. \A m \in Lobby : /\ Covers(net[m], vault[m], job[m], m, mem)
                       /\ Covers(net[m], vault[m], job[m], m, disk)
                       /\ vault[m] = "erased" => net[m] = "absent"
  BY DEF AllInv, LobbyInv, Whole
<1>4. Idle \in Job /\ Idle.pc \notin Creating \cup {"erase"}
  BY RecordTypes DEF Creating
<1> HIDE DEF t
<1>5. \A m \in Lobby : m # l => Covers(net[m], vault[m], job[m], m, t)
  BY <1>2, <1>3, CoversLike
<1>6. Covers(net[l], vault[l], ok, l, t)
  <2>1. t.lease # l => GoneFor(net[l], vault[l])
    <3>1. mem.lease # l => GoneFor(net[l], vault[l])
      BY <1>3 DEF Covers
    <3>2. Releases(r) => GoneFor(net[l], vault[l])
      BY <1>3, ReleasedIsGone
    <3> QED BY <1>2, <3>1, <3>2
  <2>2. l \notin t.used => net[l] = "none" /\ vault[l] = "none"
    BY <1>2, <1>3 DEF Covers
  <2> QED BY <1>2, <2>1, <2>2 DEF Covers
<1>7. \A k \in {bad, Idle} : /\ Covers(net[l], vault[l], k, l, mem)
                             /\ Covers(net[l], vault[l], k, l, disk)
                             /\ Covers(net[l], vault[l], k, l, t)
  BY <1>3, <1>4, <1>6, CoversCalm
<1>8. CASE mem.rec[l].state = "None"
  <2>1. mem' = mem /\ disk' = disk /\ job' = [job EXCEPT ![l] = bad]
    BY <1>8 DEF Write, store
  <2> QED BY <1>1, <1>3, <1>7, <2>1
<1>9. CASE mem' = t /\ disk' = t /\ job' = [job EXCEPT ![l] = ok]
  BY <1>1, <1>2, <1>5, <1>6, <1>9
<1>10. CASE /\ disk' \in {disk, t} /\ mem' = mem
            /\ \E k \in {bad, Idle} : job' = [job EXCEPT ![l] = k]
  <2> PICK k \in {bad, Idle} : job' = [job EXCEPT ![l] = k]
    BY <1>10
  <2>1. job' \in [Lobby -> Job] /\ job'[l] = k /\ \A m \in Lobby : m # l => job'[m] = job[m]
    BY <1>1, <1>4
  <2>2. \A m \in Lobby : Covers(net[m], vault[m], job'[m], m, mem)
    BY <1>3, <1>7, <2>1
  <2>3. \A m \in Lobby : Covers(net[m], vault[m], job'[m], m, disk)
    BY <1>3, <1>7, <2>1
  <2>4. \A m \in Lobby : Covers(net[m], vault[m], job'[m], m, t)
    BY <1>5, <1>7, <2>1
  <2> QED BY <1>1, <1>2, <1>10, <2>1, <2>2, <2>3, <2>4
<1> QED BY <1>8, <1>9, <1>10 DEF Write, Commit, Lose, t
LEMMA JobFacts ==
    ASSUME Types, AllInv, NEW l \in Lobby
    PROVE  /\ job[l] \in Job /\ job[l].rec \in Record /\ mem.rec[l] \in Record
           /\ anchor[l] \in Anchor /\ net[l] \in Tailnet /\ vault[l] \in Custody
           /\ Knows(net[l], vault[l], anchor[l], job[l])
           /\ Agrees(net[l], vault[l], job[l].rec) /\ Agrees(net[l], vault[l], mem.rec[l])
           /\ Covers(net[l], vault[l], job[l], l, mem)
           /\ Covers(net[l], vault[l], job[l], l, disk)
           /\ Anchored(net[l], anchor[l]) /\ (vault[l] = "erased" => net[l] = "absent")
<1>1. /\ job[l] \in Job /\ job[l].rec \in Record /\ mem.rec[l] \in Record
      /\ anchor[l] \in Anchor /\ net[l] \in Tailnet /\ vault[l] \in Custody
  BY DEF Types, StoreData, Job
<1>2. /\ Knows(net[l], vault[l], anchor[l], job[l])
      /\ Covers(net[l], vault[l], job[l], l, mem) /\ Covers(net[l], vault[l], job[l], l, disk)
      /\ Anchored(net[l], anchor[l]) /\ (vault[l] = "erased" => net[l] = "absent")
  BY DEF AllInv, LobbyInv, Whole
<1> QED BY <1>1, <1>2 DEF Knows, Covers

(* A step of a lobby's handler in the store alone. *)
LEMMA WriteKeeps ==
    ASSUME Types, AllInv, NEW l \in Lobby, NEW r \in Record, NEW ok \in Job, NEW bad \in Job,
           Write(l, r, ok, bad), anchor' = anchor, net' = net, vault' = vault,
           r.state # "None", Agrees(net[l], vault[l], r),
           ok.pc \in Creating => ok.rec = r /\ ~Releases(r) /\ mem.lease = l /\ l \in mem.used,
           ok.pc = "erase" => r.lifecycle # "Active",
           bad.pc \notin Creating \cup {"erase"},
           Knows(net[l], vault[l], anchor[l], ok), Knows(net[l], vault[l], anchor[l], bad)
    PROVE  Types' /\ AllInv'
<1>1. /\ mem' \in StoreData /\ disk' \in StoreData /\ job' \in [Lobby -> Job]
      /\ job'[l] \in {ok, bad, Idle}
      /\ \A m \in Lobby : m # l => job'[m] = job[m]
      /\ \A m \in Lobby : /\ Covers(net[m], vault[m], job'[m], m, mem')
                          /\ Covers(net[m], vault[m], job'[m], m, disk')
  BY WriteCovers
<1>2. Types'
  BY <1>1 DEF Types
<1>3. \A m \in Lobby : /\ Knows(net[m], vault[m], anchor[m], job[m])
                       /\ Anchored(net[m], anchor[m])
                       /\ vault[m] = "erased" => net[m] = "absent"
  BY DEF AllInv, LobbyInv, Whole
<1>4. Knows(net[l], vault[l], anchor[l], job'[l])
  BY <1>1, IdleKnows
<1>5. \A m \in Lobby : Knows(net[m], vault[m], anchor[m], job'[m])
  BY <1>1, <1>3, <1>4
<1>6. AllInv'
  BY <1>1, <1>3, <1>5 DEF AllInv, LobbyInv, Whole
<1> QED BY <1>2, <1>6

(* A step of a lobby's handler, of its tailnet or of its clock that leaves the *)
(* store and the other lobbies alone. *)
LEMMA LocalKeeps ==
    ASSUME Types, AllInv, NEW l \in Lobby, mem' = mem, disk' = disk,
           job' \in [Lobby -> Job], anchor' \in [Lobby -> Anchor],
           net' \in [Lobby -> Tailnet], vault' \in [Lobby -> Custody],
           \A m \in Lobby : m # l => /\ job'[m] = job[m] /\ anchor'[m] = anchor[m]
                                     /\ net'[m] = net[m] /\ vault'[m] = vault[m],
           Whole(l, mem, disk, job'[l], anchor'[l], net'[l], vault'[l])
    PROVE  Types' /\ AllInv'
<1>1. Types'
  BY DEF Types
<1>2. \A m \in Lobby : Whole(m, mem, disk, job'[m], anchor'[m], net'[m], vault'[m])
  BY DEF AllInv, LobbyInv
<1>3. AllInv'
  BY <1>2 DEF AllInv, LobbyInv
<1> QED BY <1>1, <1>3

(* A handler about to write its last record. *)
LEMMA FinalKnows ==
    ASSUME NEW n, NEW v, NEW a, NEW j \in Job, NEW q \in Record, NEW k, k = At(j, "final", q),
           Agrees(n, v, q), q.state # "None", q.pending \/ q.lifecycle = "DedicatedAbsent"
    PROVE  k \in Job /\ k.pc = "final" /\ k.rec = q /\ Knows(n, v, a, k)
           /\ k.pc \notin Creating \cup {"erase"}
<1>1. k \in Job /\ k.pc = "final" /\ k.rec = q
  BY FinalStage, AtTypes
<1> QED BY <1>1 DEF Knows, Creating

LEMMA ManualFinal ==
    ASSUME NEW n, NEW v, NEW a, NEW j \in Job, NEW r \in Record, NEW k,
           k = At(j, "final", Manual(r)), Agrees(n, v, r), r.state # "None"
    PROVE  k \in Job /\ k.pc = "final" /\ Knows(n, v, a, k)
           /\ k.pc \notin Creating \cup {"erase"}
<1>1. /\ Manual(r) \in Record /\ Manual(r).pending /\ Manual(r).state # "None"
      /\ Agrees(n, v, Manual(r))
  BY ManualTypes, ManualAgrees
<1> QED BY <1>1, FinalKnows
-----------------------------------------------------------------------------
(* The writes of cleanup_resources. *)

LEMMA WriteIntentKeeps ==
    ASSUME Types, AllInv, NEW l \in Lobby, WriteIntent(l)
    PROVE  Types' /\ AllInv'
<1> DEFINE j == job[l]
           r == j.rec
           ok == At(j, "delete", r)
           bad == At(j, "final", Manual(r))
<1>1. /\ j \in Job /\ r \in Record /\ anchor[l] \in Anchor
      /\ Knows(net[l], vault[l], anchor[l], j) /\ Agrees(net[l], vault[l], r)
      /\ Anchored(net[l], anchor[l])
  BY JobFacts
<1>2. /\ j.pc = "intent" /\ Write(l, r, ok, bad)
      /\ anchor' = anchor /\ net' = net /\ vault' = vault
  BY DEF WriteIntent, world
<1>3. r.state # "None" /\ r.pending /\ r.lifecycle = "CleanupRequested"
  BY <1>1, <1>2 DEF Knows
<1>4. /\ ok \in Job /\ Knows(net[l], vault[l], anchor[l], ok)
      /\ ok.pc \notin Creating /\ (ok.pc = "erase" => r.lifecycle # "Active")
  <2>1. ok \in Job /\ ok.pc = "delete" /\ ok.rec = r
    BY <1>1, DeleteStage, AtTypes
  <2> QED BY <1>1, <1>2, <1>3, <2>1 DEF Knows, Creating
<1>5. /\ bad \in Job /\ Knows(net[l], vault[l], anchor[l], bad)
      /\ bad.pc \notin Creating \cup {"erase"}
  <2>1. /\ j \in Job /\ r \in Record /\ Agrees(net[l], vault[l], r) /\ r.state # "None"
        /\ bad = At(j, "final", Manual(r))
    BY <1>1, <1>3
  <2> HIDE DEF j, r, bad
  <2> QED BY <2>1, ManualFinal
<1> HIDE DEF ok, bad, r, j
<1> QED BY <1>1, <1>2, <1>3, <1>4, <1>5, WriteKeeps

LEMMA WriteResetKeeps ==
    ASSUME Types, AllInv, NEW l \in Lobby, WriteReset(l)
    PROVE  Types' /\ AllInv'
<1> DEFINE j == job[l]
           r == j.rec
           ok == At(j, "observe", r)
           bad == At(j, "final", Manual(r))
<1>1. /\ j \in Job /\ r \in Record /\ anchor[l] \in Anchor
      /\ Knows(net[l], vault[l], anchor[l], j) /\ Agrees(net[l], vault[l], r)
      /\ Anchored(net[l], anchor[l])
  BY JobFacts
<1>2. /\ j.pc = "reset" /\ Write(l, r, ok, bad)
      /\ anchor' = anchor /\ net' = net /\ vault' = vault
  BY DEF WriteReset, world
<1>3. /\ r.state # "None" /\ r.identity /\ r.first = FALSE
      /\ r.lifecycle = "VerifyingAbsence"
  BY <1>1, <1>2 DEF Knows
<1>4. /\ ok \in Job /\ Knows(net[l], vault[l], anchor[l], ok)
      /\ ok.pc \notin Creating /\ (ok.pc = "erase" => r.lifecycle # "Active")
  <2>1. ok \in Job /\ ok.pc = "observe" /\ ok.rec = r
    BY <1>1, ObserveStage, AtTypes
  <2> QED BY <1>1, <1>2, <1>3, <2>1 DEF Knows, Creating
<1>5. /\ bad \in Job /\ Knows(net[l], vault[l], anchor[l], bad)
      /\ bad.pc \notin Creating \cup {"erase"}
  <2>1. /\ j \in Job /\ r \in Record /\ Agrees(net[l], vault[l], r) /\ r.state # "None"
        /\ bad = At(j, "final", Manual(r))
    BY <1>1, <1>3
  <2> HIDE DEF j, r, bad
  <2> QED BY <2>1, ManualFinal
<1> HIDE DEF ok, bad, r, j
<1> QED BY <1>1, <1>2, <1>3, <1>4, <1>5, WriteKeeps

LEMMA WritePresentKeeps ==
    ASSUME Types, AllInv, NEW l \in Lobby, WritePresent(l)
    PROVE  Types' /\ AllInv'
<1> DEFINE j == job[l]
           r == j.rec
           ok == At(j, "final", r)
           bad == At(j, "final", Manual(r))
<1>1. /\ j \in Job /\ r \in Record /\ anchor[l] \in Anchor
      /\ Knows(net[l], vault[l], anchor[l], j) /\ Agrees(net[l], vault[l], r)
      /\ Anchored(net[l], anchor[l])
  BY JobFacts
<1>2. /\ j.pc = "present" /\ Write(l, r, ok, bad)
      /\ anchor' = anchor /\ net' = net /\ vault' = vault
  BY DEF WritePresent, world
<1>3. r.state # "None" /\ r.pending
  BY <1>1, <1>2 DEF Knows
<1>4. /\ ok \in Job /\ Knows(net[l], vault[l], anchor[l], ok)
      /\ ok.pc \notin Creating /\ (ok.pc = "erase" => r.lifecycle # "Active")
  <2>1. ok \in Job /\ ok.pc = "final" /\ Knows(net[l], vault[l], anchor[l], ok)
    BY <1>1, <1>3, FinalKnows
  <2> QED BY <2>1 DEF Creating
<1>5. /\ bad \in Job /\ Knows(net[l], vault[l], anchor[l], bad)
      /\ bad.pc \notin Creating \cup {"erase"}
  <2>1. /\ j \in Job /\ r \in Record /\ Agrees(net[l], vault[l], r) /\ r.state # "None"
        /\ bad = At(j, "final", Manual(r))
    BY <1>1, <1>3
  <2> HIDE DEF j, r, bad
  <2> QED BY <2>1, ManualFinal
<1> HIDE DEF ok, bad, r, j
<1> QED BY <1>1, <1>2, <1>3, <1>4, <1>5, WriteKeeps

LEMMA WriteSecondKeeps ==
    ASSUME Types, AllInv, NEW l \in Lobby, WriteSecond(l)
    PROVE  Types' /\ AllInv'
<1> DEFINE j == job[l]
           r == j.rec
           ok == At(j, "erase", r)
           bad == At(j, "final", [Manual(r) EXCEPT !.confirmed = FALSE])
<1>1. /\ j \in Job /\ r \in Record /\ anchor[l] \in Anchor
      /\ Knows(net[l], vault[l], anchor[l], j) /\ Agrees(net[l], vault[l], r)
      /\ Anchored(net[l], anchor[l])
  BY JobFacts
<1>2. /\ j.pc = "second" /\ Write(l, r, ok, bad)
      /\ anchor' = anchor /\ net' = net /\ vault' = vault
  BY DEF WriteSecond, world
<1>3. r.state # "None" /\ r.pending /\ r.lifecycle = "VerifyingAbsence"
  BY <1>1, <1>2 DEF Knows
<1>4. /\ ok \in Job /\ Knows(net[l], vault[l], anchor[l], ok)
      /\ ok.pc \notin Creating /\ (ok.pc = "erase" => r.lifecycle # "Active")
  <2>1. ok \in Job /\ ok.pc = "erase" /\ ok.rec = r
    BY <1>1, EraseStage, AtTypes
  <2> QED BY <1>1, <1>2, <1>3, <2>1 DEF Knows, Creating
<1>5. /\ bad \in Job /\ Knows(net[l], vault[l], anchor[l], bad)
      /\ bad.pc \notin Creating \cup {"erase"}
  <2> DEFINE q == [Manual(r) EXCEPT !.confirmed = FALSE]
  <2>1. /\ Manual(r) \in Record /\ Manual(r).pending = TRUE /\ Manual(r).state # "None"
        /\ Agrees(net[l], vault[l], Manual(r))
    BY <1>1, <1>3, ManualTypes, ManualAgrees
  <2>2. /\ q \in Record /\ q.pending = TRUE /\ q.state = Manual(r).state
        /\ q.lifecycle = Manual(r).lifecycle /\ q.identity = Manual(r).identity
    BY <2>1 DEF Record
  <2>3. bad = At(j, "final", q)
    OBVIOUS
  <2> HIDE DEF q
  <2>4. Agrees(net[l], vault[l], q)
    BY <2>1, <2>2 DEF Agrees
  <2> QED BY <1>1, <2>1, <2>2, <2>3, <2>4, FinalKnows
<1> HIDE DEF ok, bad, r, j
<1> QED BY <1>1, <1>2, <1>3, <1>4, <1>5, WriteKeeps

LEMMA WriteMaintainedKeeps ==
    ASSUME Types, AllInv, NEW l \in Lobby, WriteMaintained(l)
    PROVE  Types' /\ AllInv'
<1> DEFINE j == job[l]
           r == j.rec
           ok == Clean(j, anchor[l])
           bad == Idle
<1>1. /\ j \in Job /\ r \in Record /\ anchor[l] \in Anchor
      /\ Knows(net[l], vault[l], anchor[l], j) /\ Agrees(net[l], vault[l], r)
      /\ Anchored(net[l], anchor[l])
  BY JobFacts
<1>2. /\ j.pc = "maintain" /\ Write(l, r, ok, bad)
      /\ anchor' = anchor /\ net' = net /\ vault' = vault
  BY DEF WriteMaintained, world
<1>3. r.state # "None"
  BY <1>1, <1>2 DEF Knows
<1>4. /\ ok \in Job /\ Knows(net[l], vault[l], anchor[l], ok)
      /\ ok.pc \notin Creating /\ (ok.pc = "erase" => r.lifecycle # "Active")
  <2>1. /\ ok \in Job /\ Knows(net[l], vault[l], anchor[l], ok)
        /\ ok.pc \in {"final", "reset", "observe", "intent"}
    BY <1>1, <1>3, CleanKnows
  <2> QED BY <2>1 DEF Creating
<1>5. /\ bad \in Job /\ Knows(net[l], vault[l], anchor[l], bad)
      /\ bad.pc \notin Creating \cup {"erase"}
  BY IdleKnows, RecordTypes DEF Creating
<1> HIDE DEF ok, bad, r, j
<1> QED BY <1>1, <1>2, <1>3, <1>4, <1>5, WriteKeeps

LEMMA WriteClosingKeeps ==
    ASSUME Types, AllInv, NEW l \in Lobby, WriteClosing(l)
    PROVE  Types' /\ AllInv'
<1> DEFINE j == job[l]
           r == j.rec
           ok == Clean([j EXCEPT !.finalize = TRUE, !.then = "end"], anchor[l])
           bad == Idle
<1>1. /\ j \in Job /\ r \in Record /\ anchor[l] \in Anchor
      /\ Knows(net[l], vault[l], anchor[l], j) /\ Agrees(net[l], vault[l], r)
      /\ Anchored(net[l], anchor[l])
  BY JobFacts
<1>2. /\ j.pc = "close" /\ Write(l, r, ok, bad)
      /\ anchor' = anchor /\ net' = net /\ vault' = vault
  BY DEF WriteClosing, world
<1>3. r.state # "None"
  BY <1>1, <1>2 DEF Knows
<1>4. /\ ok \in Job /\ Knows(net[l], vault[l], anchor[l], ok)
      /\ ok.pc \notin Creating /\ (ok.pc = "erase" => r.lifecycle # "Active")
  <2> DEFINE k == [j EXCEPT !.finalize = TRUE, !.then = "end"]
  <2>1. k \in Job /\ k.rec = r
    BY <1>1 DEF Job
  <2> HIDE DEF k
  <2>2. /\ Clean(k, anchor[l]) \in Job /\ Knows(net[l], vault[l], anchor[l], Clean(k, anchor[l]))
        /\ Clean(k, anchor[l]).pc \in {"final", "reset", "observe", "intent"}
    BY <1>1, <1>3, <2>1, CleanKnows
  <2>3. ok = Clean(k, anchor[l])
    BY DEF k
  <2> QED BY <2>2, <2>3 DEF Creating
<1>5. /\ bad \in Job /\ Knows(net[l], vault[l], anchor[l], bad)
      /\ bad.pc \notin Creating \cup {"erase"}
  BY IdleKnows, RecordTypes DEF Creating
<1> HIDE DEF ok, bad, r, j
<1> QED BY <1>1, <1>2, <1>3, <1>4, <1>5, WriteKeeps

(* The anchor goes with a first observation that was not written. *)
LEMMA WriteFirstKeeps ==
    ASSUME Types, AllInv, NEW l \in Lobby, WriteFirst(l)
    PROVE  Types' /\ AllInv'
<1> DEFINE j == job[l]
           r == j.rec
           ok == At(j, "final", r)
           bad == At(j, "final", Manual(Unproven(r)))
           b == IF job'[l].pc = "final" /\ ~job'[l].rec.first THEN "none" ELSE anchor[l]
<1>1. /\ j \in Job /\ r \in Record /\ anchor[l] \in Anchor
      /\ Knows(net[l], vault[l], anchor[l], j) /\ Agrees(net[l], vault[l], r)
      /\ Anchored(net[l], anchor[l]) /\ anchor \in [Lobby -> Anchor]
  BY JobFacts DEF Types
<1>2. /\ j.pc = "first" /\ Write(l, r, ok, bad)
      /\ anchor' = [anchor EXCEPT ![l] = b] /\ net' = net /\ vault' = vault
  BY <1>1 DEF WriteFirst, world
<1>3. r.state # "None" /\ r.pending
  BY <1>1, <1>2 DEF Knows
<1>4. /\ ok \in Job /\ \A a \in Anchor : Knows(net[l], vault[l], a, ok)
      /\ ok.pc \notin Creating \cup {"erase"}
  <2>1. j \in Job /\ r \in Record /\ Agrees(net[l], vault[l], r) /\ ok = At(j, "final", r)
    BY <1>1
  <2> HIDE DEF j, r, ok
  <2> QED BY <1>3, <2>1, FinalKnows
<1>5. /\ bad \in Job /\ \A a \in Anchor : Knows(net[l], vault[l], a, bad)
      /\ bad.pc \notin Creating \cup {"erase"}
  <2>1. /\ Unproven(r) \in Record /\ Agrees(net[l], vault[l], Unproven(r))
        /\ Unproven(r).state # "None"
    BY <1>1, <1>3, UnprovenTypes, ManualAgrees
  <2>2. j \in Job /\ bad = At(j, "final", Manual(Unproven(r)))
    BY <1>1
  <2> HIDE DEF j, r, bad
  <2> QED BY <2>1, <2>2, ManualFinal
<1> HIDE DEF ok, bad, r, j
<1>6. /\ mem' \in StoreData /\ disk' \in StoreData /\ job' \in [Lobby -> Job]
      /\ job'[l] \in {ok, bad, Idle}
      /\ \A m \in Lobby : m # l => job'[m] = job[m]
      /\ \A m \in Lobby : /\ Covers(net[m], vault[m], job'[m], m, mem')
                          /\ Covers(net[m], vault[m], job'[m], m, disk')
  BY <1>1, <1>2, <1>3, <1>4, <1>5, WriteCovers
<1>7. /\ b \in Anchor /\ Anchored(net[l], b) /\ anchor' \in [Lobby -> Anchor] /\ anchor'[l] = b
      /\ \A m \in Lobby : m # l => anchor'[m] = anchor[m]
  BY <1>1, <1>2 DEF Anchor, Anchored
<1> HIDE DEF b
<1>8. Types'
  BY <1>2, <1>6, <1>7 DEF Types
<1>9. Knows(net[l], vault[l], b, job'[l])
  BY <1>4, <1>5, <1>6, <1>7, IdleKnows
<1>10. \A m \in Lobby : /\ Knows(net[m], vault[m], anchor[m], job[m])
                        /\ Anchored(net[m], anchor[m])
                        /\ vault[m] = "erased" => net[m] = "absent"
  BY DEF AllInv, LobbyInv, Whole
<1>11. \A m \in Lobby : /\ Knows(net[m], vault[m], anchor'[m], job'[m])
                        /\ Anchored(net[m], anchor'[m])
                        /\ vault[m] = "erased" => net[m] = "absent"
  BY <1>6, <1>7, <1>9, <1>10
<1>12. AllInv'
  BY <1>2, <1>6, <1>11 DEF AllInv, LobbyInv, Whole
<1> QED BY <1>8, <1>12

(* finalize_lobby_cleanup and what comes after it. *)
LEMMA FinalKeeps ==
    ASSUME Types, AllInv, NEW l \in Lobby, Final(l)
    PROVE  Types' /\ AllInv'
<1> DEFINE i == job[l]
           r == Finalized(i)
           j == [i EXCEPT !.rec = r]
           ok == IF j.then = "close" THEN Closed(j, anchor[l]) ELSE Idle
<1>1. /\ i \in Job /\ i.rec \in Record /\ anchor[l] \in Anchor
      /\ Knows(net[l], vault[l], anchor[l], i) /\ Agrees(net[l], vault[l], i.rec)
  BY JobFacts
<1>2. /\ i.pc = "final" /\ Write(l, j.rec, ok, Idle)
      /\ anchor' = anchor /\ net' = net /\ vault' = vault
  BY DEF Final, world
<1>3. i.rec.state # "None" /\ (i.rec.pending \/ i.rec.lifecycle = "DedicatedAbsent")
  BY <1>1, <1>2 DEF Knows
<1>4. r \in Record /\ r.state # "None" /\ Agrees(net[l], vault[l], r)
  <2>1. CASE r = i.rec
    BY <1>1, <1>3, <2>1
  <2>2. CASE r = [i.rec EXCEPT !.state = "Destroyed"]
    <3>1. /\ r \in Record /\ r.state = "Destroyed" /\ r.lifecycle = i.rec.lifecycle
          /\ r.identity = i.rec.identity /\ r.pending = i.rec.pending
      BY <1>1, <2>2 DEF Record, Ended
    <3> QED BY <1>1, <1>3, <3>1 DEF Agrees
  <2> QED BY <2>1, <2>2 DEF Finalized
<1> HIDE DEF r
<1>5. j \in Job /\ j.rec = r
  BY <1>1, <1>4 DEF Job
<1> HIDE DEF j
<1>6. /\ ok \in Job /\ Knows(net[l], vault[l], anchor[l], ok)
      /\ ok.pc \notin Creating \cup {"erase"}
  <2>1. /\ Closed(j, anchor[l]) \in Job /\ Knows(net[l], vault[l], anchor[l], Closed(j, anchor[l]))
        /\ Closed(j, anchor[l]).pc \notin Creating \cup {"erase"}
    BY <1>1, <1>4, <1>5, ClosedKnows
  <2>2. /\ Idle \in Job /\ Knows(net[l], vault[l], anchor[l], Idle)
        /\ Idle.pc \notin Creating \cup {"erase"}
    BY IdleKnows, RecordTypes DEF Creating
  <2> QED BY <2>1, <2>2
<1>7. /\ Idle \in Job /\ Knows(net[l], vault[l], anchor[l], Idle)
      /\ Idle.pc \notin Creating \cup {"erase"}
  BY IdleKnows, RecordTypes DEF Creating
<1> HIDE DEF ok, i
<1> QED BY <1>2, <1>4, <1>5, <1>6, <1>7, WriteKeeps
-----------------------------------------------------------------------------
(* Creation. *)

LEMMA WriteCreatingKeeps ==
    ASSUME Types, AllInv, NEW l \in Lobby, WriteCreating(l)
    PROVE  Types' /\ AllInv'
<1> DEFINE j == job[l]
           r == [j.rec EXCEPT !.lifecycle = "Creating"]
           ok == [j EXCEPT !.pc = "prepare", !.rec = r]
<1>1. /\ j \in Job /\ j.rec \in Record /\ anchor[l] \in Anchor
      /\ Knows(net[l], vault[l], anchor[l], j)
      /\ Covers(net[l], vault[l], j, l, mem)
  BY JobFacts
<1>2. /\ j.pc = "reserve" /\ Write(l, r, ok, Idle)
      /\ anchor' = anchor /\ net' = net /\ vault' = vault
  BY DEF WriteCreating, world
<1>3. /\ j.rec \in {NewRecord, CreatingRecord} /\ net[l] = "none" /\ vault[l] = "none"
      /\ mem.lease = l /\ l \in mem.used
  BY <1>1, <1>2 DEF Knows, Covers, Creating
<1>4. r = CreatingRecord
  BY <1>3 DEF NewRecord, CreatingRecord
<1>5. /\ r \in Record /\ r.state # "None" /\ r.lifecycle = "Creating"
      /\ Agrees(net[l], vault[l], r)
  BY <1>4, RecordTypes DEF Agrees
<1> HIDE DEF r
<1>6. ok = At(j, "prepare", r)
  BY DEF At
<1> HIDE DEF ok
<1>7. ok \in Job /\ ok.pc = "prepare" /\ ok.rec = r
  BY <1>1, <1>5, <1>6, PrepareStage, AtTypes
<1>8. Knows(net[l], vault[l], anchor[l], ok)
  BY <1>3, <1>4, <1>5, <1>7 DEF Knows, Creating
<1>9. ~Releases(r)
  BY <1>5 DEF Releases
<1>10. /\ Idle \in Job /\ Knows(net[l], vault[l], anchor[l], Idle)
       /\ Idle.pc \notin Creating \cup {"erase"}
  BY IdleKnows, RecordTypes DEF Creating
<1> HIDE DEF j
<1> QED BY <1>2, <1>3, <1>5, <1>7, <1>8, <1>9, <1>10, WriteKeeps

(* What the provider answered is what create_lobby_impl may write. *)
LEMMA AnsweredAgrees ==
    ASSUME NEW n, NEW v, NEW a, NEW j \in Job, Knows(n, v, a, j), j.pc = "prepared"
    PROVE  /\ Answered(j.rec, j.answer) \in Record
           /\ Answered(j.rec, j.answer).state # "None"
           /\ Agrees(n, v, Answered(j.rec, j.answer))
<1> DEFINE r == j.rec
           q == Answered(r, j.answer)
<1>1. /\ r \in Record /\ r.identity = FALSE
      /\ j.answer \in {"ok", "blocked", "rejected", "refused", "unknown", "gated", "deleted"}
      /\ j.answer = "rejected" => n = "none" /\ v = "none"
      /\ j.answer = "ok" => n = "present" /\ v = "held"
      /\ j.answer \in {"blocked", "gated", "deleted"} => n \in {"present", "deleting", "absent"}
  BY RecordTypes DEF Knows, Job, Creating
<1> HIDE DEF r
<1>2. CASE j.answer = "ok"
  <2>1. q = [r EXCEPT !.state = "Open", !.lifecycle = "Active", !.identity = TRUE]
    BY <1>2 DEF Answered
  <2>2. q \in Record /\ q.state = "Open" /\ q.lifecycle = "Active" /\ q.identity = TRUE
    BY <1>1, <2>1 DEF Record, Open
  <2> QED BY <1>1, <1>2, <2>2 DEF Agrees, r
<1>3. CASE j.answer = "rejected"
  <2>1. q = [r EXCEPT !.state = "Failed", !.lifecycle = "CreateRejected"]
    BY <1>3 DEF Answered
  <2>2. q \in Record /\ q.state = "Failed" /\ q.lifecycle = "CreateRejected" /\ q.identity = FALSE
    BY <1>1, <2>1 DEF Record, Ended
  <2> QED BY <1>1, <1>3, <2>2 DEF Agrees, r
<1>4. CASE j.answer = "unknown"
  <2>1. q = [r EXCEPT !.state = "Failed", !.lifecycle = "CreateUnknown", !.pending = TRUE]
    BY <1>4 DEF Answered
  <2>2. q \in Record /\ q.state = "Failed" /\ q.lifecycle = "CreateUnknown" /\ q.identity = FALSE
    BY <1>1, <2>1 DEF Record, Ended
  <2> QED BY <2>2 DEF Agrees, r
<1>5. CASE j.answer = "refused" \/ j.answer = "blocked"
  <2>1. q = [r EXCEPT !.state = "Failed", !.lifecycle = "ManualRemediation", !.pending = TRUE,
                      !.identity = (j.answer = "blocked")]
    BY <1>5 DEF Answered
  <2>2. /\ q \in Record /\ q.state = "Failed" /\ q.lifecycle = "ManualRemediation"
        /\ q.identity = (j.answer = "blocked")
    BY <1>1, <2>1 DEF Record, Ended
  <2> QED BY <1>1, <2>2 DEF Agrees, r
<1>6. CASE j.answer = "gated"
  <2>1. q = [r EXCEPT !.state = "Failed", !.lifecycle = "CleanupPending", !.pending = TRUE,
                      !.identity = TRUE, !.requested = TRUE]
    BY <1>6 DEF Answered
  <2>2. q \in Record /\ q.state = "Failed" /\ q.lifecycle = "CleanupPending"
    BY <1>1, <2>1 DEF Record, Ended
  <2> QED BY <1>1, <1>6, <2>2 DEF Agrees, r
<1>7. CASE j.answer = "deleted"
  <2>1. q = [r EXCEPT !.state = "Failed", !.lifecycle = "VerifyingAbsence", !.pending = TRUE,
                      !.identity = TRUE, !.requested = TRUE, !.acked = TRUE]
    BY <1>7 DEF Answered
  <2>2. q \in Record /\ q.state = "Failed" /\ q.lifecycle = "VerifyingAbsence"
    BY <1>1, <2>1 DEF Record, Ended
  <2> QED BY <1>1, <1>7, <2>2 DEF Agrees, r
<1> QED BY <1>1, <1>2, <1>3, <1>4, <1>5, <1>6, <1>7

LEMMA FinishCreateKeeps ==
    ASSUME Types, AllInv, NEW l \in Lobby, FinishCreate(l)
    PROVE  Types' /\ AllInv'
<1> DEFINE r == Answered(job[l].rec, job[l].answer)
<1>1. job[l] \in Job /\ Knows(net[l], vault[l], anchor[l], job[l])
  BY JobFacts
<1>2. /\ job[l].pc = "prepared" /\ Write(l, r, Idle, Idle)
      /\ anchor' = anchor /\ net' = net /\ vault' = vault
  BY DEF FinishCreate, world
<1>3. r \in Record /\ r.state # "None" /\ Agrees(net[l], vault[l], r)
  BY <1>1, <1>2, AnsweredAgrees
<1>4. /\ Idle \in Job /\ Knows(net[l], vault[l], anchor[l], Idle)
      /\ Idle.pc \notin Creating \cup {"erase"}
  BY IdleKnows, RecordTypes DEF Creating
<1> HIDE DEF r
<1> QED BY <1>2, <1>3, <1>4, WriteKeeps

(* Every outcome of prepare_lobby. *)
LEMMA PrepareOutcome ==
    ASSUME NEW o \in PrepareOutcomes
    PROVE  /\ o[1] \in {"ok", "blocked", "rejected", "refused", "unknown", "gated", "deleted"}
           /\ o[2] \in {"none", "coming", "present", "deleting"} /\ o[3] \in {"none", "held"}
           /\ o[1] = "rejected" => o[2] = "none" /\ o[3] = "none"
           /\ o[1] = "ok" => o[2] = "present" /\ o[3] = "held"
           /\ o[1] \in {"blocked", "gated", "deleted"} => o[2] \in {"present", "deleting"}
<1>1. CASE o \in {<<"ok", "present", "held">>, <<"rejected", "none", "none">>,
                 <<"blocked", "present", "held">>}
  BY <1>1
<1>2. CASE o \in {"refused"} \X {"none", "present"} \X {"none"}
  BY <1>2
<1>3. CASE o \in {"unknown"} \X {"none", "coming", "present"} \X {"none"}
  BY <1>3
<1>4. CASE o \in {<<"unknown", "present", "held">>, <<"gated", "present", "held">>,
                 <<"gated", "deleting", "held">>, <<"deleted", "deleting", "held">>}
  BY <1>4
<1> QED BY <1>1, <1>2, <1>3, <1>4 DEF PrepareOutcomes

LEMMA PrepareKeeps ==
    ASSUME Types, AllInv, NEW l \in Lobby, Prepare(l)
    PROVE  Types' /\ AllInv'
<1>1. PICK o \in PrepareOutcomes :
          /\ net' = [net EXCEPT ![l] = o[2]]
          /\ vault' = [vault EXCEPT ![l] = o[3]]
          /\ job' = [job EXCEPT ![l].pc = "prepared",
                                ![l].answer = IF Brokered /\ o[1] # "ok"
                                              THEN "unknown" ELSE o[1]]
  BY DEF Prepare
<1> DEFINE j == job[l]
           x == IF Brokered /\ o[1] # "ok" THEN "unknown" ELSE o[1]
           k == [j EXCEPT !.pc = "prepared", !.answer = x]
<1>2. /\ o[1] \in {"ok", "blocked", "rejected", "refused", "unknown", "gated", "deleted"}
      /\ o[2] \in {"none", "coming", "present", "deleting"} /\ o[3] \in {"none", "held"}
      /\ o[1] = "rejected" => o[2] = "none" /\ o[3] = "none"
      /\ o[1] = "ok" => o[2] = "present" /\ o[3] = "held"
      /\ o[1] \in {"blocked", "gated", "deleted"} => o[2] \in {"present", "deleting"}
  BY PrepareOutcome
<1>3. /\ j.pc = "prepare" /\ mem' = mem /\ disk' = disk /\ anchor' = anchor
  BY DEF Prepare, store
<1>4. /\ job \in [Lobby -> Job] /\ anchor \in [Lobby -> Anchor]
      /\ net \in [Lobby -> Tailnet] /\ vault \in [Lobby -> Custody]
  BY DEF Types
<1>5. /\ j \in Job /\ anchor[l] \in Anchor /\ Knows(net[l], vault[l], anchor[l], j)
      /\ Covers(net[l], vault[l], j, l, mem) /\ Covers(net[l], vault[l], j, l, disk)
      /\ Anchored(net[l], anchor[l])
  BY JobFacts
<1>6. /\ j.rec \in {NewRecord, CreatingRecord} /\ net[l] = "none" /\ vault[l] = "none"
      /\ \A s \in {mem, disk} : s.rec[l] = j.rec /\ s.lease = l /\ l \in s.used
  BY <1>3, <1>5 DEF Knows, Covers, Creating
<1>7. /\ x \in {"ok", "blocked", "rejected", "refused", "unknown", "gated", "deleted"}
      /\ x = "rejected" => o[2] = "none" /\ o[3] = "none"
      /\ x = "ok" => o[2] = "present" /\ o[3] = "held"
      /\ x \in {"blocked", "gated", "deleted"} => o[2] \in {"present", "deleting", "absent"}
  BY <1>2
<1>8. job' = [job EXCEPT ![l] = k]
  BY <1>1
<1> HIDE DEF x
<1>9. k \in Job /\ k.pc = "prepared" /\ k.rec = j.rec /\ k.answer = x
  BY <1>5, <1>7 DEF Job
<1> HIDE DEF k
<1>10. Agrees(o[2], o[3], j.rec) /\ j.rec.state # "None"
  BY <1>6, RecordTypes DEF Agrees
<1>11. Knows(o[2], o[3], anchor[l], k)
  BY <1>6, <1>7, <1>9, <1>10 DEF Knows, Creating
<1>12. Covers(o[2], o[3], k, l, mem) /\ Covers(o[2], o[3], k, l, disk)
  BY <1>6, <1>9, <1>10 DEF Covers
<1>13. Anchored(o[2], anchor[l])
  BY <1>5, <1>6 DEF Anchored
<1>14. Whole(l, mem, disk, k, anchor[l], o[2], o[3])
  BY <1>2, <1>11, <1>12, <1>13 DEF Whole
<1>15. o[2] \in Tailnet /\ o[3] \in Custody
  BY <1>2 DEF Tailnet, Custody
<1>16. /\ job' \in [Lobby -> Job] /\ job'[l] = k /\ \A m \in Lobby : m # l => job'[m] = job[m]
       /\ net' \in [Lobby -> Tailnet] /\ net'[l] = o[2]
       /\ \A m \in Lobby : m # l => net'[m] = net[m]
       /\ vault' \in [Lobby -> Custody] /\ vault'[l] = o[3]
       /\ \A m \in Lobby : m # l => vault'[m] = vault[m]
       /\ anchor' \in [Lobby -> Anchor]
  BY <1>1, <1>3, <1>4, <1>8, <1>9, <1>15
<1> QED BY <1>3, <1>14, <1>16, LocalKeeps

(* create_lobby reserves the record and the lease, and purges old ones, in *)
(* one image. *)
LEMMA CreateLobbyKeeps ==
    ASSUME Types, AllInv, NEW l \in Lobby, CreateLobby(l)
    PROVE  Types' /\ AllInv'
<1>1. PICK gone \in SUBSET Purgeable(mem) :
          LET s == Purged(mem, gone) IN
          /\ s.rec[l].state = "None" /\ l \notin s.used
          /\ s.lease = NoLobby /\ ~s.quarantined
          /\ LET t == [s EXCEPT !.rec[l] = NewRecord, !.lease = l, !.used = @ \cup {l}] IN
             \/ /\ Commit(t) /\ UNCHANGED faults
                /\ job' = [job EXCEPT ![l] = [Idle EXCEPT !.pc = "reserve", !.http = TRUE,
                                                          !.rec = NewRecord]]
             \/ Lose(t) /\ UNCHANGED job
  BY DEF CreateLobby
<1> DEFINE s == Purged(mem, gone)
           f == [m \in Lobby |-> IF m \in gone THEN NoRecord ELSE mem.rec[m]]
           g == [f EXCEPT ![l] = NewRecord]
           t == [s EXCEPT !.rec[l] = NewRecord, !.lease = l, !.used = @ \cup {l}]
           k == [Idle EXCEPT !.pc = "reserve", !.http = TRUE, !.rec = NewRecord]
<1>2. /\ mem.rec \in [Lobby -> Record] /\ mem.lease \in Lobby \cup {NoLobby}
      /\ mem.quarantined \in BOOLEAN /\ mem.used \in SUBSET Lobby
      /\ mem = [rec |-> mem.rec, lease |-> mem.lease, quarantined |-> mem.quarantined,
                used |-> mem.used]
  BY DEF Types, StoreData
<1>3. f \in [Lobby -> Record] /\ \A m \in Lobby : f[m] \in {NoRecord, mem.rec[m]}
  BY <1>2, RecordTypes
<1>4. /\ g \in [Lobby -> Record] /\ g[l] = NewRecord
      /\ \A m \in Lobby : m # l => g[m] \in {NoRecord, mem.rec[m]}
  BY <1>3, RecordTypes
<1>5. s = [rec |-> f, lease |-> mem.lease, quarantined |-> mem.quarantined, used |-> mem.used]
  BY <1>2 DEF Purged
<1>6. t = [rec |-> g, lease |-> l, quarantined |-> mem.quarantined, used |-> mem.used \cup {l}]
  <2> HIDE DEF f, s
  <2>1. s.rec = f /\ s.used = mem.used
    BY <1>5
  <2>2. t = [s EXCEPT !.rec = [s.rec EXCEPT ![l] = NewRecord], !.lease = l,
                      !.used = s.used \cup {l}]
    OBVIOUS
  <2>3. t = [s EXCEPT !.rec = g, !.lease = l, !.used = mem.used \cup {l}]
    BY <2>1, <2>2
  <2> HIDE DEF g, t
  <2> QED BY <1>5, <2>3
<1>7. mem.lease = NoLobby /\ l \notin mem.used
  <2>1. s.lease = NoLobby /\ l \notin s.used
    BY <1>1
  <2> QED BY <1>5, <2>1
<1>8. /\ anchor' = anchor /\ net' = net /\ vault' = vault /\ job[l] = Idle
  BY DEF CreateLobby, world
<1>9. \/ mem' = t /\ disk' = t /\ job' = [job EXCEPT ![l] = k]
      \/ mem' = mem /\ disk' \in {disk, t} /\ job' = job
  BY <1>1 DEF Commit, Lose
<1> HIDE DEF s, f, g, t
<1>10. /\ t \in StoreData /\ t.rec = g /\ t.lease = l /\ t.used = mem.used \cup {l}
  BY <1>2, <1>4, <1>6 DEF StoreData
<1>11. /\ k \in Job /\ k.pc = "reserve" /\ k.rec = NewRecord
  BY RecordTypes DEF Idle, Job
<1> HIDE DEF k
<1>12. /\ job \in [Lobby -> Job] /\ mem \in StoreData /\ disk \in StoreData
  BY DEF Types
<1>13. /\ mem' \in StoreData /\ disk' \in StoreData /\ job' \in [Lobby -> Job]
  BY <1>9, <1>10, <1>11, <1>12
<1>14. Types'
  BY <1>8, <1>13 DEF Types
<1>15. net[l] = "none" /\ vault[l] = "none"
  BY <1>7, JobFacts DEF Covers
<1>16. Knows(net[l], vault[l], anchor[l], k)
  BY <1>11, <1>15, RecordTypes DEF Knows, Agrees, Creating
<1>17. \A j \in {k, Idle} : Covers(net[l], vault[l], j, l, t)
  BY <1>4, <1>10, <1>11, <1>15, RecordTypes DEF Covers, Agrees, GoneFor, Creating
<1>18. ASSUME NEW m \in Lobby, m # l PROVE Covers(net[m], vault[m], job[m], m, t)
  <2>1. Covers(net[m], vault[m], job[m], m, mem)
    BY JobFacts
  <2>2. mem.lease # m
    BY <1>7, LobbyAssumption
  <2>3. GoneFor(net[m], vault[m]) /\ job[m].pc \notin Creating
    BY <2>1, <2>2 DEF Covers
  <2>4. Agrees(net[m], vault[m], t.rec[m])
        /\ (job[m].pc = "erase" => t.rec[m].lifecycle # "Active")
    BY <1>4, <1>10, <1>18, <2>1, RecordTypes DEF Covers, Agrees
  <2>5. m \notin t.used => net[m] = "none" /\ vault[m] = "none"
    BY <1>10, <2>1 DEF Covers
  <2> QED BY <2>3, <2>4, <2>5 DEF Covers
<1>19. ASSUME NEW m \in Lobby PROVE LobbyInv(m)'
  <2>1. /\ Covers(net[m], vault[m], job[m], m, mem) /\ Covers(net[m], vault[m], job[m], m, disk)
        /\ Knows(net[m], vault[m], anchor[m], job[m])
        /\ Anchored(net[m], anchor[m]) /\ (vault[m] = "erased" => net[m] = "absent")
    BY JobFacts
  <2>2. CASE mem' = t /\ disk' = t /\ job' = [job EXCEPT ![l] = k]
    <3>1. job'[m] = IF m = l THEN k ELSE job[m]
      BY <1>12, <2>2
    <3>2. /\ Covers(net[m], vault[m], job'[m], m, t)
          /\ Knows(net[m], vault[m], anchor[m], job'[m])
      BY <1>16, <1>17, <1>18, <2>1, <3>1
    <3> QED BY <1>8, <2>1, <2>2, <3>2 DEF LobbyInv, Whole
  <2>3. CASE mem' = mem /\ disk' \in {disk, t} /\ job' = job
    <3>1. Covers(net[m], vault[m], job[m], m, t)
      BY <1>8, <1>17, <1>18
    <3> QED BY <1>8, <2>1, <2>3, <3>1 DEF LobbyInv, Whole
  <2> QED BY <1>9, <2>2, <2>3
<1> QED BY <1>14, <1>19 DEF AllInv
-----------------------------------------------------------------------------
(* The calls of cleanup_resources. *)

LEMMA DeleteKeeps ==
    ASSUME Types, AllInv, NEW l \in Lobby, Delete(l)
    PROVE  Types' /\ AllInv'
<1> DEFINE j == job[l]
           r == j.rec
           d == IF net[l] = "present" THEN "deleting" ELSE net[l]
<1>1. /\ j \in Job /\ r \in Record /\ net[l] \in Tailnet
      /\ Knows(net[l], vault[l], anchor[l], j)
      /\ Covers(net[l], vault[l], j, l, mem) /\ Covers(net[l], vault[l], j, l, disk)
      /\ Anchored(net[l], anchor[l]) /\ (vault[l] = "erased" => net[l] = "absent")
  BY JobFacts
<1>2. /\ j.pc = "delete" /\ mem' = mem /\ disk' = disk /\ anchor' = anchor /\ vault' = vault
  BY DEF Delete, store
<1>3. /\ job \in [Lobby -> Job] /\ anchor \in [Lobby -> Anchor]
      /\ net \in [Lobby -> Tailnet] /\ vault \in [Lobby -> Custody]
  BY DEF Types
<1>4. /\ r.state # "None" /\ r.pending /\ r.lifecycle = "CleanupRequested"
      /\ Agrees(net[l], vault[l], r)
  BY <1>1, <1>2 DEF Knows
<1>5. PICK n \in Tailnet, q \in Record :
          /\ net' = [net EXCEPT ![l] = n] /\ job' = [job EXCEPT ![l] = At(j, "final", q)]
          /\ n = net[l] \/ (n = "deleting" /\ net[l] = "present" /\ vault[l] = "held")
          /\ q.lifecycle \in {"VerifyingAbsence", "CleanupPending", "ManualRemediation"}
          /\ q.pending /\ q.identity = r.identity /\ q.state = r.state
  <2>1. /\ [r EXCEPT !.lifecycle = "CleanupPending"] \in Record
        /\ [r EXCEPT !.lifecycle = "CleanupPending"].lifecycle = "CleanupPending"
        /\ [r EXCEPT !.lifecycle = "CleanupPending"].pending = r.pending
        /\ [r EXCEPT !.lifecycle = "CleanupPending"].identity = r.identity
        /\ [r EXCEPT !.lifecycle = "CleanupPending"].state = r.state
    BY <1>1 DEF Record
  <2>2. /\ Manual(r) \in Record /\ Manual(r).lifecycle = "ManualRemediation"
        /\ Manual(r).pending = TRUE
        /\ Manual(r).identity = r.identity /\ Manual(r).state = r.state
    BY <1>1, ManualTypes
  <2>3. net = [net EXCEPT ![l] = net[l]] /\ d \in Tailnet
    BY <1>1, <1>3 DEF Tailnet
  <2>4. \/ /\ vault[l] = "held" /\ net' = [net EXCEPT ![l] = d]
           /\ job' = [job EXCEPT ![l] = At(j, "final",
                         [r EXCEPT !.lifecycle = "VerifyingAbsence", !.acked = TRUE])]
        \/ /\ vault[l] = "held" /\ net' \in {net, [net EXCEPT ![l] = d]}
           /\ job' = [job EXCEPT ![l] = At(j, "final", [r EXCEPT !.lifecycle = "CleanupPending"])]
        \/ /\ net' = net
           /\ \E q \in {[r EXCEPT !.lifecycle = "CleanupPending"], Manual(r)} :
                 job' = [job EXCEPT ![l] = At(j, "final", q)]
    BY <1>1, <1>3 DEF Delete
  <2>5. CASE /\ vault[l] = "held" /\ net' = [net EXCEPT ![l] = d]
             /\ job' = [job EXCEPT ![l] = At(j, "final",
                          [r EXCEPT !.lifecycle = "VerifyingAbsence", !.acked = TRUE])]
    <3> DEFINE q == [r EXCEPT !.lifecycle = "VerifyingAbsence", !.acked = TRUE]
    <3>1. /\ q \in Record /\ q.lifecycle = "VerifyingAbsence" /\ q.pending = r.pending
          /\ q.identity = r.identity /\ q.state = r.state
      BY <1>1 DEF Record
    <3>2. job' = [job EXCEPT ![l] = At(j, "final", q)]
      BY <2>5
    <3> HIDE DEF q, r
    <3> QED BY <1>4, <2>3, <2>5, <3>1, <3>2
  <2> DEFINE c == [r EXCEPT !.lifecycle = "CleanupPending"]
  <2> HIDE DEF c
  <2>6. CASE /\ vault[l] = "held" /\ net' \in {net, [net EXCEPT ![l] = d]}
             /\ job' = [job EXCEPT ![l] = At(j, "final", c)]
    <3>1. PICK n \in {net[l], d} : net' = [net EXCEPT ![l] = n]
      BY <2>3, <2>6
    <3>2. c \in Record /\ c.lifecycle = "CleanupPending" /\ c.pending = r.pending
          /\ c.identity = r.identity /\ c.state = r.state
      BY <2>1 DEF c
    <3> HIDE DEF r
    <3> QED BY <1>1, <1>4, <2>3, <2>6, <3>1, <3>2
  <2>7. CASE net' = net /\ \E q \in {c, Manual(r)} : job' = [job EXCEPT ![l] = At(j, "final", q)]
    <3>1. PICK q \in {c, Manual(r)} : job' = [job EXCEPT ![l] = At(j, "final", q)]
      BY <2>7
    <3>2. c \in Record /\ c.lifecycle = "CleanupPending" /\ c.pending = r.pending
          /\ c.identity = r.identity /\ c.state = r.state
      BY <2>1 DEF c
    <3>3. /\ q \in Record /\ q.lifecycle \in {"CleanupPending", "ManualRemediation"}
          /\ q.pending /\ q.identity = r.identity /\ q.state = r.state
      BY <1>4, <2>2, <3>1, <3>2
    <3>4. net' = [net EXCEPT ![l] = net[l]]
      BY <2>3, <2>7
    <3> HIDE DEF r
    <3> QED BY <1>1, <3>1, <3>3, <3>4
  <2> QED BY <2>4, <2>5, <2>6, <2>7 DEF c
<1> DEFINE k == At(j, "final", q)
<1>6. Agrees(n, vault[l], q)
  BY <1>4, <1>5 DEF Agrees
<1>7. k \in Job /\ k.pc = "final" /\ Knows(n, vault[l], anchor[l], k)
  <2> HIDE DEF k, j, r
  <2>1. q.state # "None" /\ q.pending /\ k = At(j, "final", q)
    BY <1>4, <1>5 DEF k
  <2> QED BY <1>1, <1>6, <2>1, FinalKnows
<1>8. \A s \in {mem, disk} : Covers(n, vault[l], k, l, s)
  BY <1>1, <1>2, <1>5, <1>7 DEF Covers, Agrees, GoneFor, Creating
<1>9. Anchored(n, anchor[l]) /\ (vault[l] = "erased" => n = "absent")
  BY <1>1, <1>5 DEF Anchored
<1>10. Whole(l, mem, disk, k, anchor[l], n, vault[l])
  BY <1>7, <1>8, <1>9 DEF Whole
<1>11. job' = [job EXCEPT ![l] = k]
  BY <1>5
<1> HIDE DEF k
<1>12. /\ job' \in [Lobby -> Job] /\ job'[l] = k /\ \A m \in Lobby : m # l => job'[m] = job[m]
       /\ net' \in [Lobby -> Tailnet] /\ net'[l] = n
       /\ \A m \in Lobby : m # l => net'[m] = net[m]
       /\ anchor' \in [Lobby -> Anchor] /\ vault' \in [Lobby -> Custody]
  BY <1>2, <1>3, <1>5, <1>7, <1>11
<1> QED BY <1>2, <1>10, <1>12, LocalKeeps

(* What join_lobby writes of a mint that failed. *)
LEMMA MintFailedTypes ==
    ASSUME NEW r \in Record, NEW x, NEW q, q = MintFailed(r, x)
    PROVE  /\ q \in Record /\ q.state = "Failed" /\ q.pending = TRUE
           /\ q.identity = r.identity
           /\ q.lifecycle \in {"VerifyingAbsence", "CleanupPending"}
<1> DEFINE c == IF x = "deleted" THEN "VerifyingAbsence" ELSE "CleanupPending"
           f == r.requested \/ x # "unknown"
           g == r.acked \/ x = "deleted"
<1>1. q = [r EXCEPT !.state = "Failed", !.pending = TRUE, !.lifecycle = c, !.requested = f,
                    !.acked = g]
  BY DEF MintFailed
<1>2. c \in {"VerifyingAbsence", "CleanupPending"} /\ f \in BOOLEAN /\ g \in BOOLEAN
  BY DEF Record
<1> HIDE DEF c, f, g
<1> QED BY <1>1, <1>2 DEF Record, Ended

(* The policy gate of a join may delete the tailnet of a record that says *)
(* Active; its secret stays. *)
LEMMA MintingKeeps ==
    ASSUME Types, AllInv, NEW l \in Lobby, Mint(l)
    PROVE  Types' /\ AllInv'
<1> DEFINE j == job[l]
           r == j.rec
           d == IF net[l] = "present" THEN "deleting" ELSE net[l]
<1>1. /\ j \in Job /\ r \in Record /\ net[l] \in Tailnet
      /\ Knows(net[l], vault[l], anchor[l], j)
      /\ Covers(net[l], vault[l], j, l, mem) /\ Covers(net[l], vault[l], j, l, disk)
      /\ Anchored(net[l], anchor[l]) /\ (vault[l] = "erased" => net[l] = "absent")
  BY JobFacts
<1>2. /\ j.pc = "mint" /\ mem' = mem /\ disk' = disk /\ anchor' = anchor /\ vault' = vault
  BY DEF Mint, store
<1>3. /\ job \in [Lobby -> Job] /\ anchor \in [Lobby -> Anchor]
      /\ net \in [Lobby -> Tailnet] /\ vault \in [Lobby -> Custody]
  BY DEF Types
<1>4. r.state # "None" /\ Agrees(net[l], vault[l], r)
  BY <1>1, <1>2 DEF Knows
<1>5. d \in Tailnet /\ net = [net EXCEPT ![l] = net[l]]
      /\ (net[l] = "present" => [net EXCEPT ![l] = "deleting"] = [net EXCEPT ![l] = d])
  BY <1>1, <1>3 DEF Tailnet
<1>6. PICK n \in {net[l], d} : net' = [net EXCEPT ![l] = n]
  BY <1>5 DEF Mint
<1>7. job' = [job EXCEPT ![l] = Idle] \/ \E x : job' = [job EXCEPT ![l] = At(j, "final", MintFailed(r, x))]
  BY DEF Mint
<1>8. n \in Tailnet /\ (n = net[l] \/ (n = "deleting" /\ net[l] = "present"))
  BY <1>1, <1>5
<1> HIDE DEF d
<1>9. Agrees(n, vault[l], r)
  BY <1>4, <1>8 DEF Agrees
<1>10. PICK k \in Job : /\ job' = [job EXCEPT ![l] = k] /\ Knows(n, vault[l], anchor[l], k)
                        /\ k.pc \notin Creating \cup {"erase"}
  <2>1. CASE job' = [job EXCEPT ![l] = Idle]
    <3>1. Idle \in Job /\ Knows(n, vault[l], anchor[l], Idle) /\ Idle.pc \notin Creating \cup {"erase"}
      BY IdleKnows, RecordTypes DEF Creating
    <3> QED BY <2>1, <3>1
  <2>2. CASE \E x : job' = [job EXCEPT ![l] = At(j, "final", MintFailed(r, x))]
    <3>1. PICK x : job' = [job EXCEPT ![l] = At(j, "final", MintFailed(r, x))]
      BY <2>2
    <3> DEFINE q == MintFailed(r, x)
               k == At(j, "final", q)
    <3>2. /\ q \in Record /\ q.state = "Failed" /\ q.pending = TRUE /\ q.identity = r.identity
          /\ q.lifecycle \in {"VerifyingAbsence", "CleanupPending"}
      <4>1. r \in Record /\ q = MintFailed(r, x)
        BY <1>1
      <4> HIDE DEF q, r
      <4> QED BY <4>1, MintFailedTypes
    <3>3. job' = [job EXCEPT ![l] = k]
      BY <3>1
    <3> HIDE DEF q
    <3>4. Agrees(n, vault[l], q)
      BY <1>9, <3>2 DEF Agrees
    <3>5. k = At(j, "final", q)
      OBVIOUS
    <3> HIDE DEF k, j
    <3> QED BY <1>1, <3>2, <3>3, <3>4, <3>5, FinalKnows
  <2> QED BY <1>7, <2>1, <2>2
<1>11. \A s \in {mem, disk} : Covers(n, vault[l], k, l, s)
  BY <1>1, <1>8, <1>10 DEF Covers, Agrees, GoneFor
<1>12. Anchored(n, anchor[l]) /\ (vault[l] = "erased" => n = "absent")
  BY <1>1, <1>8 DEF Anchored
<1>13. Whole(l, mem, disk, k, anchor[l], n, vault[l])
  BY <1>10, <1>11, <1>12 DEF Whole
<1>14. /\ job' \in [Lobby -> Job] /\ job'[l] = k /\ \A m \in Lobby : m # l => job'[m] = job[m]
       /\ net' \in [Lobby -> Tailnet] /\ net'[l] = n
       /\ \A m \in Lobby : m # l => net'[m] = net[m]
       /\ anchor' \in [Lobby -> Anchor] /\ vault' \in [Lobby -> Custody]
  BY <1>2, <1>3, <1>6, <1>8, <1>10
<1> QED BY <1>2, <1>13, <1>14, LocalKeeps

LEMMA EraseKeeps ==
    ASSUME Types, AllInv, NEW l \in Lobby, Erase(l)
    PROVE  Types' /\ AllInv'
<1> DEFINE j == job[l]
           r == j.rec
           e == [r EXCEPT !.lifecycle = "DedicatedAbsent", !.pending = FALSE, !.erased = TRUE]
<1>1. /\ j \in Job /\ r \in Record /\ vault[l] \in Custody /\ anchor[l] \in Anchor
      /\ Knows(net[l], vault[l], anchor[l], j)
      /\ Covers(net[l], vault[l], j, l, mem) /\ Covers(net[l], vault[l], j, l, disk)
      /\ Anchored(net[l], anchor[l])
  BY JobFacts
<1>2. /\ j.pc = "erase" /\ mem' = mem /\ disk' = disk /\ net' = net
  BY DEF Erase, store
<1>3. /\ job \in [Lobby -> Job] /\ anchor \in [Lobby -> Anchor]
      /\ net \in [Lobby -> Tailnet] /\ vault \in [Lobby -> Custody]
  BY DEF Types
<1>4. /\ r.state # "None" /\ r.pending /\ Agrees(net[l], vault[l], r) /\ net[l] = "absent"
      /\ r.lifecycle = "VerifyingAbsence"
  BY <1>1, <1>2 DEF Knows
<1>5. /\ e \in Record /\ e.lifecycle = "DedicatedAbsent" /\ e.identity = r.identity
      /\ e.state = r.state /\ e.pending = FALSE
  BY <1>1 DEF Record
<1>6. \E v \in {vault[l], "erased"}, a \in {anchor[l], "none"}, q \in {r, e} :
          /\ vault' = [vault EXCEPT ![l] = v] /\ anchor' = [anchor EXCEPT ![l] = a]
          /\ job' = [job EXCEPT ![l] = At(j, "final", q)]
          /\ q = e => v = "erased"
  <2>1. vault = [vault EXCEPT ![l] = vault[l]] /\ anchor = [anchor EXCEPT ![l] = anchor[l]]
    BY <1>3
  <2>2. CASE /\ vault' = [vault EXCEPT ![l] = "erased"] /\ anchor' = [anchor EXCEPT ![l] = "none"]
             /\ job' = [job EXCEPT ![l] = At(j, "final", e)]
    <3> HIDE DEF e, r
    <3> QED BY <2>2
  <2>3. CASE /\ vault' \in {vault, [vault EXCEPT ![l] = "erased"]} /\ anchor' = anchor
             /\ job' = [job EXCEPT ![l] = At(j, "final", r)]
    <3>1. PICK v \in {vault[l], "erased"} : vault' = [vault EXCEPT ![l] = v]
      BY <2>1, <2>3
    <3> HIDE DEF e
    <3>2. r # e
      BY <1>4, <1>5
    <3> HIDE DEF r
    <3> QED BY <2>1, <2>3, <3>1, <3>2
  <2> QED BY <2>2, <2>3 DEF Erase
<1> HIDE DEF e
<1>7. PICK v \in {vault[l], "erased"}, a \in {anchor[l], "none"}, q \in {r, e} :
          /\ vault' = [vault EXCEPT ![l] = v] /\ anchor' = [anchor EXCEPT ![l] = a]
          /\ job' = [job EXCEPT ![l] = At(j, "final", q)]
          /\ q = e => v = "erased"
  BY <1>6
<1> DEFINE k == At(j, "final", q)
<1>8. v \in Custody /\ a \in Anchor
  BY <1>1 DEF Custody, Anchor
<1>9. /\ q \in Record /\ q.state # "None" /\ (q.pending \/ q.lifecycle = "DedicatedAbsent")
      /\ Agrees(net[l], v, q)
  BY <1>1, <1>4, <1>5, <1>7 DEF Agrees
<1>10. k \in Job /\ k.pc = "final" /\ Knows(net[l], v, a, k)
  <2>1. k = At(j, "final", q)
    OBVIOUS
  <2> HIDE DEF k, j, r
  <2> QED BY <1>1, <1>9, <2>1, FinalKnows
<1>11. \A s \in {mem, disk} : Covers(net[l], v, k, l, s)
  BY <1>1, <1>2, <1>4, <1>10 DEF Covers, Agrees, GoneFor, Creating
<1>12. Anchored(net[l], a) /\ (v = "erased" => net[l] = "absent")
  BY <1>1, <1>4 DEF Anchored
<1>13. Whole(l, mem, disk, k, a, net[l], v)
  BY <1>10, <1>11, <1>12 DEF Whole
<1>14. job' = [job EXCEPT ![l] = k]
  BY <1>7
<1> HIDE DEF k
<1>15. /\ job' \in [Lobby -> Job] /\ job'[l] = k /\ \A m \in Lobby : m # l => job'[m] = job[m]
       /\ vault' \in [Lobby -> Custody] /\ vault'[l] = v
       /\ \A m \in Lobby : m # l => vault'[m] = vault[m]
       /\ anchor' \in [Lobby -> Anchor] /\ anchor'[l] = a
       /\ \A m \in Lobby : m # l => anchor'[m] = anchor[m]
       /\ net' \in [Lobby -> Tailnet]
  BY <1>2, <1>3, <1>7, <1>8, <1>10, <1>14
<1> QED BY <1>2, <1>13, <1>15, LocalKeeps

LEMMA ObserveKeeps ==
    ASSUME Types, AllInv, NEW l \in Lobby, Observe(l)
    PROVE  Types' /\ AllInv'
<1> DEFINE j == job[l]
           r == j.rec
           p == [Unproven(r) EXCEPT !.pending = TRUE]
           f == [r EXCEPT !.first = TRUE, !.confirmed = FALSE, !.pending = TRUE]
           c == [r EXCEPT !.confirmed = TRUE, !.pending = TRUE]
           w == [r EXCEPT !.pending = TRUE]
<1>1. /\ j \in Job /\ r \in Record /\ anchor[l] \in Anchor
      /\ Knows(net[l], vault[l], anchor[l], j)
      /\ Covers(net[l], vault[l], j, l, mem) /\ Covers(net[l], vault[l], j, l, disk)
      /\ Anchored(net[l], anchor[l]) /\ (vault[l] = "erased" => net[l] = "absent")
  BY JobFacts
<1>2. /\ j.pc = "observe" /\ mem' = mem /\ disk' = disk /\ net' = net /\ vault' = vault
  BY DEF Observe, store, world
<1>3. /\ job \in [Lobby -> Job] /\ anchor \in [Lobby -> Anchor]
      /\ net \in [Lobby -> Tailnet] /\ vault \in [Lobby -> Custody]
  BY DEF Types
<1>4. /\ r.state # "None" /\ Agrees(net[l], vault[l], r) /\ r.identity
      /\ net[l] \in {"present", "deleting", "absent"}
      /\ r.first => net[l] = "absent"
      /\ r.lifecycle = "VerifyingAbsence"
  BY <1>1, <1>2 DEF Knows, Agrees, Anchored
<1>5. /\ p \in Record /\ p.lifecycle = r.lifecycle /\ p.identity = r.identity
      /\ p.state = r.state /\ p.pending = TRUE
  <2>1. /\ Unproven(r) \in Record
        /\ Unproven(r).lifecycle = r.lifecycle
        /\ Unproven(r).identity = r.identity /\ Unproven(r).state = r.state
    BY <1>1, UnprovenTypes
  <2> QED BY <2>1 DEF Record
<1>6. /\ f \in Record /\ f.lifecycle = r.lifecycle /\ f.identity = r.identity
      /\ f.state = r.state /\ f.pending = TRUE
  BY <1>1 DEF Record
<1>7. /\ c \in Record /\ c.lifecycle = r.lifecycle /\ c.identity = r.identity
      /\ c.state = r.state /\ c.pending = TRUE
  BY <1>1 DEF Record
<1>8. /\ w \in Record /\ w.lifecycle = r.lifecycle /\ w.identity = r.identity
      /\ w.state = r.state /\ w.pending = TRUE
  BY <1>1 DEF Record
<1>9. PICK x \in {"present", "first", "second", "final"}, q \in Record, a \in Anchor :
          /\ job' = [job EXCEPT ![l] = At(j, x, q)] /\ anchor' = [anchor EXCEPT ![l] = a]
          /\ q.lifecycle = r.lifecycle /\ q.identity = r.identity
          /\ q.state = r.state /\ q.pending = TRUE
          /\ x = "second" => net[l] = "absent"
          /\ Anchored(net[l], a)
  <2>1. anchor = [anchor EXCEPT ![l] = anchor[l]] /\ "none" \in Anchor /\ "fresh" \in Anchor
    BY <1>3 DEF Anchor
  <2>2. Anchored(net[l], "none")
    BY DEF Anchored
  <2>3. \/ /\ anchor' = [anchor EXCEPT ![l] = "none"]
           /\ job' = [job EXCEPT ![l] = At(j, "present", p)]
        \/ /\ net[l] # "present" /\ anchor' = [anchor EXCEPT ![l] = "fresh"]
           /\ job' = [job EXCEPT ![l] = At(j, "first", f)]
        \/ /\ r.first /\ anchor' = anchor
           /\ job' = [job EXCEPT ![l] = At(j, "second", c)]
        \/ /\ anchor' = anchor /\ job' = [job EXCEPT ![l] = At(j, "final", w)]
    BY <1>1 DEF Observe, Listed
  <2> HIDE DEF p, f, c, w, r
  <2>4. CASE /\ anchor' = [anchor EXCEPT ![l] = "none"]
             /\ job' = [job EXCEPT ![l] = At(j, "present", p)]
    BY <1>5, <2>1, <2>2, <2>4
  <2>5. CASE /\ net[l] # "present" /\ anchor' = [anchor EXCEPT ![l] = "fresh"]
             /\ job' = [job EXCEPT ![l] = At(j, "first", f)]
    <3>1. Anchored(net[l], "fresh")
      BY <1>4, <2>5 DEF Anchored
    <3> QED BY <1>6, <2>1, <2>5, <3>1
  <2>6. CASE /\ r.first /\ anchor' = anchor
             /\ job' = [job EXCEPT ![l] = At(j, "second", c)]
    BY <1>1, <1>4, <1>7, <2>1, <2>6
  <2>7. CASE anchor' = anchor /\ job' = [job EXCEPT ![l] = At(j, "final", w)]
    BY <1>1, <1>8, <2>1, <2>7
  <2> QED BY <2>3, <2>4, <2>5, <2>6, <2>7
<1> HIDE DEF p, f, c, w
<1> DEFINE k == At(j, x, q)
<1>10. Agrees(net[l], vault[l], q) /\ q.state # "None"
  BY <1>4, <1>9 DEF Agrees
<1>11. k \in Job /\ k.pc = x /\ k.rec = q
  <2>1. x \in PC
    BY DEF PC
  <2> QED BY <1>1, <2>1, AtTypes
<1> HIDE DEF k
<1>12. Knows(net[l], vault[l], a, k)
  BY <1>4, <1>9, <1>10, <1>11 DEF Knows, Creating
<1>13. \A s \in {mem, disk} : Covers(net[l], vault[l], k, l, s)
  BY <1>1, <1>11, CoversCalm DEF Creating
<1>14. Whole(l, mem, disk, k, a, net[l], vault[l])
  BY <1>1, <1>9, <1>12, <1>13 DEF Whole
<1>15. job' = [job EXCEPT ![l] = k]
  BY <1>9 DEF k
<1>16. /\ job' \in [Lobby -> Job] /\ job'[l] = k /\ \A m \in Lobby : m # l => job'[m] = job[m]
       /\ anchor' \in [Lobby -> Anchor] /\ anchor'[l] = a
       /\ \A m \in Lobby : m # l => anchor'[m] = anchor[m]
       /\ net' \in [Lobby -> Tailnet] /\ vault' \in [Lobby -> Custody]
  BY <1>2, <1>3, <1>9, <1>11, <1>15
<1> QED BY <1>2, <1>14, <1>16, LocalKeeps
-----------------------------------------------------------------------------
(* Who takes the lock, and who loses it. *)

LEMMA StartKeeps ==
    ASSUME Types, AllInv, NEW l \in Lobby, NEW k \in Job, job' = [job EXCEPT ![l] = k],
           mem' = mem, disk' = disk, anchor' = anchor, net' = net, vault' = vault,
           k.pc \notin Creating \cup {"erase"}, Knows(net[l], vault[l], anchor[l], k)
    PROVE  Types' /\ AllInv'
<1>1. /\ job \in [Lobby -> Job] /\ anchor \in [Lobby -> Anchor]
      /\ net \in [Lobby -> Tailnet] /\ vault \in [Lobby -> Custody]
  BY DEF Types
<1>2. /\ Covers(net[l], vault[l], job[l], l, mem) /\ Covers(net[l], vault[l], job[l], l, disk)
      /\ Anchored(net[l], anchor[l]) /\ (vault[l] = "erased" => net[l] = "absent")
  BY JobFacts
<1>3. Covers(net[l], vault[l], k, l, mem) /\ Covers(net[l], vault[l], k, l, disk)
  BY <1>2, CoversCalm
<1>4. Whole(l, mem, disk, k, anchor[l], net[l], vault[l])
  BY <1>2, <1>3 DEF Whole
<1>5. /\ job' \in [Lobby -> Job] /\ job'[l] = k /\ \A m \in Lobby : m # l => job'[m] = job[m]
  BY <1>1
<1> QED BY <1>1, <1>4, <1>5, LocalKeeps

LEMMA CancelKeeps ==
    ASSUME Types, AllInv, NEW l \in Lobby, Cancel(l)
    PROVE  Types' /\ AllInv'
<1>1. /\ Idle \in Job /\ Knows(net[l], vault[l], anchor[l], Idle)
      /\ Idle.pc \notin Creating \cup {"erase"}
  BY IdleKnows, RecordTypes DEF Creating
<1>2. /\ job' = [job EXCEPT ![l] = Idle] /\ mem' = mem /\ disk' = disk /\ anchor' = anchor
      /\ net' = net /\ vault' = vault
  BY DEF Cancel, store, world
<1> QED BY <1>1, <1>2, StartKeeps

(* apply_time_transitions, and the record for an operator. *)
LEMMA TimedOutAgrees ==
    ASSUME NEW n, NEW v, NEW r \in Record, Agrees(n, v, r), NEW q \in TimedOut(r)
    PROVE  q \in Record /\ q.state # "None" /\ Agrees(n, v, q)
<1>1. CASE q = [r EXCEPT !.state = "Failed", !.pending = TRUE]
  <2>1. /\ q \in Record /\ q.state = "Failed" /\ q.lifecycle = r.lifecycle
        /\ q.identity = r.identity
    BY <1>1 DEF Record, Ended
  <2> QED BY <2>1 DEF Agrees
<1>2. CASE q = [r EXCEPT !.state = "Expired", !.pending = TRUE]
  <2>1. /\ q \in Record /\ q.state = "Expired" /\ q.lifecycle = r.lifecycle
        /\ q.identity = r.identity
    BY <1>2 DEF Record, Ended
  <2> QED BY <2>1 DEF Agrees
<1> QED BY <1>1, <1>2 DEF TimedOut

LEMMA DeniedAgrees ==
    ASSUME NEW n, NEW v, NEW r \in Record, Agrees(n, v, r), r.state # "None"
    PROVE  Denied(r) \in Record /\ Denied(r).state # "None" /\ Agrees(n, v, Denied(r))
<1> DEFINE m == Manual(r)
           x == IF m.state \in Open THEN "Failed" ELSE m.state
           q == Denied(r)
<1>1. /\ m \in Record /\ m.lifecycle = "ManualRemediation" /\ m.pending = TRUE
      /\ m.identity = r.identity /\ m.state = r.state
  BY ManualTypes
<1>2. q = [m EXCEPT !.state = x]
  BY DEF Denied
<1> HIDE DEF m
<1>3. x \in Open \cup Ended \cup {"None", "Closing"} /\ x # "None"
  BY <1>1 DEF Record, Ended
<1> HIDE DEF x, q
<1>4. /\ q \in Record /\ q.state = x /\ q.lifecycle = m.lifecycle /\ q.pending = m.pending
      /\ q.identity = m.identity
  BY <1>1, <1>2, <1>3 DEF Record
<1>5. Agrees(n, v, q)
  BY <1>1, <1>4 DEF Agrees
<1> QED BY <1>3, <1>4, <1>5 DEF q

LEMMA RequestKeeps ==
    ASSUME Types, AllInv, NEW l \in Lobby, NEW then \in {"end", "close"}, Request(l, then)
    PROVE  Types' /\ AllInv'
<1> DEFINE r == mem.rec[l]
           start == [Idle EXCEPT !.http = TRUE, !.then = then]
<1>1. r \in Record /\ Agrees(net[l], vault[l], r) /\ anchor[l] \in Anchor
  BY JobFacts
<1>2. /\ r.state # "None" /\ mem' = mem /\ disk' = disk /\ anchor' = anchor
      /\ net' = net /\ vault' = vault
  BY DEF Request, store, world
<1>3. \/ \E m \in {Denied(r)} \cup TimedOut(r) : job' = [job EXCEPT ![l] = At(start, "maintain", m)]
      \/ job' = [job EXCEPT ![l] = Closed(At(start, "idle", r), anchor[l])]
  BY DEF Request
<1>4. start \in Job
  BY RecordTypes DEF Idle, Job
<1> HIDE DEF start, r
<1>5. CASE \E m \in {Denied(r)} \cup TimedOut(r) : job' = [job EXCEPT ![l] = At(start, "maintain", m)]
  <2>1. PICK m \in {Denied(r)} \cup TimedOut(r) : job' = [job EXCEPT ![l] = At(start, "maintain", m)]
    BY <1>5
  <2>2. m \in Record /\ m.state # "None" /\ Agrees(net[l], vault[l], m)
    BY <1>1, <1>2, DeniedAgrees, TimedOutAgrees
  <2> DEFINE k == At(start, "maintain", m)
  <2>3. job' = [job EXCEPT ![l] = k]
    BY <2>1
  <2>4. k \in Job /\ k.pc = "maintain" /\ k.rec = m
    BY <1>4, <2>2, MaintainStage, AtTypes
  <2> HIDE DEF k
  <2>5. Knows(net[l], vault[l], anchor[l], k) /\ k.pc \notin Creating \cup {"erase"}
    BY <2>2, <2>4 DEF Knows, Creating
  <2> QED BY <1>2, <2>3, <2>4, <2>5, StartKeeps
<1>6. CASE job' = [job EXCEPT ![l] = Closed(At(start, "idle", r), anchor[l])]
  <2> DEFINE i == At(start, "idle", r)
             k == Closed(i, anchor[l])
  <2>1. i \in Job /\ i.rec = r
    BY <1>1, <1>4, IdleStage, AtTypes
  <2>2. job' = [job EXCEPT ![l] = k]
    BY <1>6
  <2> HIDE DEF i
  <2>3. /\ k \in Job /\ Knows(net[l], vault[l], anchor[l], k)
        /\ k.pc \notin Creating \cup {"erase"}
    BY <1>1, <1>2, <2>1, ClosedKnows
  <2> HIDE DEF k
  <2> QED BY <1>2, <2>2, <2>3, StartKeeps
<1> QED BY <1>3, <1>5, <1>6

LEMMA ReapKeeps ==
    ASSUME Types, AllInv, NEW l \in Lobby, Reap(l)
    PROVE  Types' /\ AllInv'
<1> DEFINE r == mem.rec[l]
<1>1. r \in Record /\ Agrees(net[l], vault[l], r) /\ anchor[l] \in Anchor
  BY JobFacts
<1>2. /\ mem' = mem /\ disk' = disk /\ anchor' = anchor /\ net' = net /\ vault' = vault
  BY DEF Reap, store, world
<1>3. PICK m \in TimedOut(r) \cup
                (IF r.state = "Closing" \/ (r.pending /\ r.state \in Ended) THEN {r} ELSE {}) :
          job' = [job EXCEPT ![l] = Clean([Idle EXCEPT !.rec = m, !.finalize = (m.state = "Closing")],
                                          anchor[l])]
  BY DEF Reap
<1>4. m \in Record /\ m.state # "None" /\ Agrees(net[l], vault[l], m)
  <2>1. CASE m \in TimedOut(r)
    BY <1>1, <2>1, TimedOutAgrees
  <2>2. CASE m = r /\ r.state # "None"
    BY <1>1, <2>2
  <2> QED BY <1>3, <2>1, <2>2 DEF Ended
<1> DEFINE i == [Idle EXCEPT !.rec = m, !.finalize = (m.state = "Closing")]
           k == Clean(i, anchor[l])
<1>5. i \in Job /\ i.rec = m
  BY <1>4 DEF Idle, Job
<1>6. job' = [job EXCEPT ![l] = k]
  BY <1>3
<1> HIDE DEF i
<1>7. /\ k \in Job /\ Knows(net[l], vault[l], anchor[l], k)
      /\ k.pc \in {"final", "reset", "observe", "intent"}
  BY <1>1, <1>4, <1>5, CleanKnows
<1> HIDE DEF k
<1>8. k.pc \notin Creating \cup {"erase"}
  BY <1>7 DEF Creating
<1> QED BY <1>2, <1>6, <1>7, <1>8, StartKeeps

LEMMA JoinKeeps ==
    ASSUME Types, AllInv, NEW l \in Lobby, Join(l)
    PROVE  Types' /\ AllInv'
<1> DEFINE r == mem.rec[l]
           start == [Idle EXCEPT !.http = TRUE]
           k == At(start, "mint", r)
<1>1. r \in Record /\ Agrees(net[l], vault[l], r)
  BY JobFacts
<1>2. /\ r.state # "None" /\ job' = [job EXCEPT ![l] = k]
      /\ mem' = mem /\ disk' = disk /\ anchor' = anchor /\ net' = net /\ vault' = vault
  BY DEF Join, store, world
<1>3. start \in Job
  BY RecordTypes DEF Idle, Job
<1> HIDE DEF start, r
<1>4. k \in Job /\ k.pc = "mint" /\ k.rec = r
  BY <1>1, <1>3, MintStage, AtTypes
<1> HIDE DEF k
<1>5. Knows(net[l], vault[l], anchor[l], k) /\ k.pc \notin Creating \cup {"erase"}
  BY <1>1, <1>2, <1>4 DEF Knows, Creating
<1> QED BY <1>2, <1>4, <1>5, StartKeeps

LEMMA UnchangedKeeps ==
    ASSUME Types, AllInv, mem' = mem, disk' = disk, job' = job, anchor' = anchor,
           net' = net, vault' = vault
    PROVE  Types' /\ AllInv'
BY DEF Types, AllInv, LobbyInv

LEMMA BeginProtectedCleanupKeeps ==
    ASSUME Types, AllInv, NEW l \in Lobby, BeginProtectedCleanup(l)
    PROVE  Types' /\ AllInv'
<1> DEFINE r == [mem.rec[l] EXCEPT !.state = "Closing", !.pending = TRUE,
                                   !.lifecycle = "CleanupRequested"]
           i == [Idle EXCEPT !.rec = r, !.finalize = TRUE, !.then = "handled"]
           k == Clean(i, anchor[l])
<1>1. mem.rec[l] \in Record /\ Agrees(net[l], vault[l], mem.rec[l]) /\ anchor[l] \in Anchor
  BY JobFacts
<1>2. /\ mem' = mem /\ disk' = disk /\ anchor' = anchor /\ net' = net /\ vault' = vault
      /\ job' = job \/ job' = [job EXCEPT ![l] = k]
  BY DEF BeginProtectedCleanup, store, world
<1>3. /\ r \in Record /\ r.state = "Closing" /\ r.lifecycle = "CleanupRequested"
      /\ r.identity = mem.rec[l].identity
  BY <1>1 DEF Record
<1> HIDE DEF r
<1>4. Agrees(net[l], vault[l], r)
  BY <1>1, <1>3 DEF Agrees
<1>5. i \in Job /\ i.rec = r
  BY <1>3 DEF Idle, Job
<1> HIDE DEF i
<1>6. /\ k \in Job /\ Knows(net[l], vault[l], anchor[l], k)
      /\ k.pc \in {"final", "reset", "observe", "intent"}
  BY <1>1, <1>3, <1>4, <1>5, CleanKnows
<1> HIDE DEF k
<1>7. k.pc \notin Creating \cup {"erase"}
  BY <1>6 DEF Creating
<1>8. CASE job' = job
  BY <1>2, <1>8, UnchangedKeeps
<1>9. CASE job' = [job EXCEPT ![l] = k]
  BY <1>2, <1>6, <1>7, <1>9, StartKeeps
<1> QED BY <1>2, <1>8, <1>9
-----------------------------------------------------------------------------
(* The provider, the clock, crash and startup. *)

LEMMA WorldKeeps ==
    ASSUME Types, AllInv, NEW l \in Lobby, Arrive(l) \/ Settle(l) \/ Elapse(l)
    PROVE  Types' /\ AllInv'
<1> DEFINE j == job[l]
           v == vault[l]
<1>1. /\ anchor[l] \in Anchor /\ net[l] \in Tailnet /\ Knows(net[l], v, anchor[l], j)
      /\ Covers(net[l], v, j, l, mem) /\ Covers(net[l], v, j, l, disk)
      /\ Anchored(net[l], anchor[l]) /\ (v = "erased" => net[l] = "absent")
  BY JobFacts
<1>2. /\ job \in [Lobby -> Job] /\ anchor \in [Lobby -> Anchor]
      /\ net \in [Lobby -> Tailnet] /\ vault \in [Lobby -> Custody]
  BY DEF Types
<1>3. ASSUME NEW n \in {"present", "none"}, net[l] = "coming", net' = [net EXCEPT ![l] = n],
             mem' = mem, disk' = disk, job' = job, anchor' = anchor, vault' = vault
      PROVE  Types' /\ AllInv'
  <2>1. Knows(n, v, anchor[l], j)
    BY <1>1, <1>3 DEF Knows, Agrees
  <2>2. Covers(n, v, j, l, mem) /\ Covers(n, v, j, l, disk)
    BY <1>1, <1>3 DEF Covers, Agrees, GoneFor
  <2>3. Anchored(n, anchor[l]) /\ (v = "erased" => n = "absent")
    BY <1>1, <1>3 DEF Anchored
  <2>4. Whole(l, mem, disk, j, anchor[l], n, v)
    BY <2>1, <2>2, <2>3 DEF Whole
  <2>5. /\ net' \in [Lobby -> Tailnet] /\ net'[l] = n
        /\ \A m \in Lobby : m # l => net'[m] = net[m]
    BY <1>2, <1>3 DEF Tailnet
  <2> QED BY <1>2, <1>3, <2>4, <2>5, LocalKeeps
<1>4. CASE Arrive(l)
  BY <1>3, <1>4 DEF Arrive, store
<1>5. CASE Settle(l)
  <2>1. /\ net[l] = "deleting" /\ net' = [net EXCEPT ![l] = "absent"]
        /\ mem' = mem /\ disk' = disk /\ job' = job /\ anchor' = anchor /\ vault' = vault
    BY <1>5 DEF Settle, store
  <2>2. Knows("absent", v, anchor[l], j)
    BY <1>1, <2>1 DEF Knows, Agrees
  <2>3. Covers("absent", v, j, l, mem) /\ Covers("absent", v, j, l, disk)
    BY <1>1, <2>1 DEF Covers, Agrees, GoneFor
  <2>4. Whole(l, mem, disk, j, anchor[l], "absent", v)
    BY <1>1, <2>2, <2>3 DEF Whole, Anchored
  <2>5. /\ net' \in [Lobby -> Tailnet] /\ net'[l] = "absent"
        /\ \A m \in Lobby : m # l => net'[m] = net[m]
    BY <1>2, <2>1 DEF Tailnet
  <2> QED BY <1>2, <2>1, <2>4, <2>5, LocalKeeps
<1>6. CASE Elapse(l)
  <2>1. /\ anchor[l] = "fresh" /\ net[l] # "deleting" /\ anchor' = [anchor EXCEPT ![l] = "elapsed"]
        /\ mem' = mem /\ disk' = disk /\ job' = job /\ net' = net /\ vault' = vault
    BY <1>6 DEF Elapse, store, world
  <2>2. Knows(net[l], v, "elapsed", j)
    BY <1>1, <2>1 DEF Knows
  <2>3. Whole(l, mem, disk, j, "elapsed", net[l], v)
    BY <1>1, <2>1, <2>2 DEF Whole, Anchored
  <2>4. /\ anchor' \in [Lobby -> Anchor] /\ anchor'[l] = "elapsed"
        /\ \A m \in Lobby : m # l => anchor'[m] = anchor[m]
    BY <1>2, <2>1 DEF Anchor
  <2> QED BY <1>2, <2>1, <2>3, <2>4, LocalKeeps
<1> QED BY <1>4, <1>5, <1>6

(* Every handler is gone; the images are those there were. *)
LEMMA StopKeeps ==
    ASSUME Types, AllInv, mem' \in {mem, disk}, disk' = disk,
           job' = [l \in Lobby |-> Idle], anchor' \in {anchor, [l \in Lobby |-> "none"]},
           net' = net, vault' = vault
    PROVE  Types' /\ AllInv'
<1>1. /\ mem \in StoreData /\ disk \in StoreData /\ anchor \in [Lobby -> Anchor]
      /\ Idle \in Job /\ Idle.pc \notin Creating \cup {"erase"}
  BY RecordTypes DEF Types, Creating
<1>2. Types'
  BY <1>1 DEF Types, Anchor
<1>3. ASSUME NEW m \in Lobby PROVE LobbyInv(m)'
  <2>1. /\ Covers(net[m], vault[m], job[m], m, mem) /\ Covers(net[m], vault[m], job[m], m, disk)
        /\ Anchored(net[m], anchor[m]) /\ (vault[m] = "erased" => net[m] = "absent")
    BY JobFacts
  <2>2. Covers(net[m], vault[m], Idle, m, mem) /\ Covers(net[m], vault[m], Idle, m, disk)
    BY <1>1, <2>1, CoversCalm
  <2>3. Knows(net[m], vault[m], anchor'[m], Idle)
    BY IdleKnows
  <2>4. Anchored(net[m], anchor'[m])
    BY <2>1 DEF Anchored
  <2>5. job'[m] = Idle
    OBVIOUS
  <2> QED BY <2>1, <2>2, <2>3, <2>4, <2>5 DEF LobbyInv, Whole
<1> QED BY <1>2, <1>3 DEF AllInv

(* normalize_loaded_store never takes the lease from a lobby. *)
LEMMA NormalizedTypes ==
    ASSUME NEW s \in StoreData, NEW t, t = Normalized(s)
    PROVE  /\ t \in StoreData /\ t.rec = s.rec /\ t.used = s.used
           /\ \A l \in Lobby : s.lease = l => t.lease = l
<1> DEFINE real == {l \in Lobby : s.rec[l].state # "None" /\ ~Releases(s.rec[l])}
           e == IF s.lease = NoLobby /\ real # {} THEN CHOOSE l \in real : TRUE ELSE s.lease
           q == \/ s.quarantined
                \/ s.lease = NoLobby /\ Cardinality(real) > 1
                \/ s.lease # NoLobby /\ real # {s.lease}
<1>1. /\ s.rec \in [Lobby -> Record] /\ s.lease \in Lobby \cup {NoLobby}
      /\ s.quarantined \in BOOLEAN /\ s.used \in SUBSET Lobby
      /\ s = [rec |-> s.rec, lease |-> s.lease, quarantined |-> s.quarantined, used |-> s.used]
  BY DEF StoreData
<1>2. t = [s EXCEPT !.lease = e, !.quarantined = q]
  BY DEF Normalized
<1>3. e \in Lobby \cup {NoLobby} /\ \A l \in Lobby : s.lease = l => e = l
  <2>1. real # {} => (CHOOSE l \in real : TRUE) \in real
    OBVIOUS
  <2>2. real \subseteq Lobby
    OBVIOUS
  <2> HIDE DEF real
  <2> QED BY <1>1, <2>1, <2>2, LobbyAssumption
<1>4. q \in BOOLEAN
  BY <1>1
<1> HIDE DEF e, q
<1>5. t \in StoreData /\ t.rec = s.rec /\ t.lease = e /\ t.used = s.used
  BY <1>1, <1>2, <1>3, <1>4 DEF StoreData
<1> QED BY <1>3, <1>5

(* reconcile_startup hands records to an operator and keeps the leases. *)
LEMMA ReconciledTypes ==
    ASSUME NEW s \in StoreData, NEW listed, NEW t, t = Reconciled(s, listed)
    PROVE  /\ t \in StoreData /\ t.lease = s.lease /\ t.used = s.used
           /\ \A l \in Lobby : t.rec[l] \in {s.rec[l], Manual(s.rec[l])}
<1> DEFINE f == [l \in Lobby |-> IF l \in Suspects(s) THEN Manual(s.rec[l]) ELSE s.rec[l]]
           q == \/ s.quarantined
                \/ \E l \in Suspects(s) : s.lease # l
                \/ ~Brokered /\ ~UpstreamMatches(s, listed)
<1>1. /\ s.rec \in [Lobby -> Record] /\ s.lease \in Lobby \cup {NoLobby}
      /\ s.quarantined \in BOOLEAN /\ s.used \in SUBSET Lobby
      /\ s = [rec |-> s.rec, lease |-> s.lease, quarantined |-> s.quarantined, used |-> s.used]
  BY DEF StoreData
<1>2. t = [s EXCEPT !.rec = f, !.quarantined = q]
  BY DEF Reconciled
<1>3. f \in [Lobby -> Record] /\ \A l \in Lobby : f[l] \in {s.rec[l], Manual(s.rec[l])}
  BY <1>1, ManualTypes
<1>4. q \in BOOLEAN
  BY <1>1 DEF Brokered, UpstreamMatches
<1> HIDE DEF f, q
<1>5. t \in StoreData /\ t.rec = f /\ t.lease = s.lease /\ t.used = s.used
  BY <1>1, <1>2, <1>3, <1>4 DEF StoreData
<1> QED BY <1>3, <1>5

LEMMA RestartKeeps ==
    ASSUME Types, AllInv, DownIsIdle, Restart
    PROVE  Types' /\ AllInv' /\ mem'.used = disk.used /\ disk'.used = disk.used
<1> DEFINE s == Normalized(disk)
<1>1. PICK listed \in SUBSET Lobby : Commit(Reconciled(s, listed))
  BY DEF Restart
<1> DEFINE t == Reconciled(s, listed)
<1>2. mem' = t /\ disk' = t
  BY <1>1 DEF Commit
<1>3. /\ job' = job /\ anchor' = anchor /\ net' = net /\ vault' = vault
      /\ \A l \in Lobby : job[l] = Idle
  BY DEF Restart, world, DownIsIdle
<1>4. disk \in StoreData
  BY DEF Types
<1>5. /\ s \in StoreData /\ s.rec = disk.rec /\ s.used = disk.used
      /\ \A l \in Lobby : disk.lease = l => s.lease = l
  BY <1>4, NormalizedTypes
<1> HIDE DEF s
<1>6. /\ t \in StoreData /\ t.lease = s.lease /\ t.used = s.used
      /\ \A l \in Lobby : t.rec[l] \in {s.rec[l], Manual(s.rec[l])}
  BY <1>5, ReconciledTypes
<1> HIDE DEF t
<1>7. Types'
  BY <1>2, <1>3, <1>6 DEF Types
<1>8. ASSUME NEW m \in Lobby PROVE LobbyInv(m)'
  <2>1. /\ Covers(net[m], vault[m], job[m], m, disk)
        /\ Knows(net[m], vault[m], anchor[m], job[m])
        /\ Anchored(net[m], anchor[m]) /\ (vault[m] = "erased" => net[m] = "absent")
    BY JobFacts
  <2>2. disk.rec[m] \in Record
    BY <1>4 DEF StoreData
  <2>3. /\ Agrees(net[m], vault[m], disk.rec[m])
        /\ disk.rec[m].state = "None" \/ disk.lease # m => GoneFor(net[m], vault[m])
        /\ m \notin disk.used => net[m] = "none" /\ vault[m] = "none"
    BY <2>1 DEF Covers
  <2>4. Agrees(net[m], vault[m], t.rec[m]) /\ t.rec[m].state = disk.rec[m].state
    <3>1. /\ Agrees(net[m], vault[m], Manual(disk.rec[m]))
          /\ Manual(disk.rec[m]).state = disk.rec[m].state
      BY <2>2, <2>3, ManualTypes, ManualAgrees
    <3>2. t.rec[m] \in {disk.rec[m], Manual(disk.rec[m])}
      BY <1>5, <1>6
    <3> QED BY <2>3, <3>1, <3>2
  <2>5. Covers(net[m], vault[m], Idle, m, t)
    BY <1>5, <1>6, <2>3, <2>4, RecordTypes DEF Covers, Creating
  <2>6. job[m] = Idle
    BY <1>3
  <2> QED BY <1>2, <1>3, <2>1, <2>5, <2>6 DEF LobbyInv, Whole
<1> QED BY <1>2, <1>5, <1>6, <1>7, <1>8 DEF AllInv
-----------------------------------------------------------------------------
(* What no step of a lobby does: start a creation that was not under way, or *)
(* take over a cleanup that the launcher asked for. *)

Calm(j, k) ==
    /\ k.then = "handled" => j.then = "handled"
    /\ k.pc \in Creating => j.pc \in Creating

LEMMA IdleCalm == ASSUME NEW j PROVE Calm(j, Idle)
BY DEF Calm, Idle, Creating

LEMMA AtCalm ==
    ASSUME NEW j \in Job, NEW pc, pc \notin Creating, NEW r, NEW k, k = At(j, pc, r)
    PROVE  Calm(j, k)
<1>1. k.then = j.then /\ k.pc = pc
  BY DEF At, Job
<1> QED BY <1>1 DEF Calm

LEMMA Stages ==
    /\ "final" \notin Creating /\ "reset" \notin Creating /\ "observe" \notin Creating
    /\ "intent" \notin Creating /\ "delete" \notin Creating /\ "erase" \notin Creating
    /\ "close" \notin Creating /\ "maintain" \notin Creating /\ "present" \notin Creating
    /\ "first" \notin Creating /\ "second" \notin Creating /\ "idle" \notin Creating
    /\ "mint" \notin Creating
BY DEF Creating

LEMMA CleanCalm == ASSUME NEW j \in Job, NEW a PROVE Calm(j, Clean(j, a))
<1>1. PICK pc \in {"final", "reset", "observe", "intent"} : \E r : Clean(j, a) = At(j, pc, r)
  BY DEF Clean, Verify
<1>2. pc \notin Creating
  BY DEF Creating
<1> QED BY <1>1, <1>2, AtCalm

LEMMA ClosedCalm == ASSUME NEW j \in Job, NEW a PROVE Calm(j, Closed(j, a))
<1> DEFINE k == [j EXCEPT !.finalize = TRUE, !.then = "end"]
<1>1. k \in Job /\ k.then = "end" /\ k.pc = j.pc
  BY DEF Job
<1>2. \/ Closed(j, a) = Idle
      \/ \E r : Closed(j, a) = At(j, "close", r)
      \/ Closed(j, a) = Clean(k, a)
  BY DEF Closed
<1> HIDE DEF k
<1>3. CASE \E r : Closed(j, a) = At(j, "close", r)
  BY <1>3, Stages, AtCalm
<1>4. CASE Closed(j, a) = Clean(k, a)
  <2>1. Calm(k, Clean(k, a))
    BY <1>1, CleanCalm
  <2> QED BY <1>1, <1>4, <2>1 DEF Calm
<1> QED BY <1>2, <1>3, <1>4, IdleCalm

LEMMA ReplaceUsed ==
    ASSUME NEW s \in StoreData, NEW l, NEW r PROVE Replace(s, l, r).used = s.used
BY DEF Replace, StoreData

LEMMA WriteFrame ==
    ASSUME Types, NEW l \in Lobby, NEW r, NEW ok, NEW bad, Write(l, r, ok, bad)
    PROVE  /\ mem'.used = mem.used /\ disk'.used \in {disk.used, mem.used}
           /\ job'[l] \in {ok, bad, Idle}
           /\ \A m \in Lobby : m # l => job'[m] = job[m]
<1> DEFINE t == Replace(mem, l, r)
<1>1. t.used = mem.used
  BY ReplaceUsed DEF Types
<1> HIDE DEF t
<1>2. \/ mem' = mem /\ disk' = disk /\ job' = [job EXCEPT ![l] = bad]
      \/ mem' = t /\ disk' = t /\ job' = [job EXCEPT ![l] = ok]
      \/ /\ mem' = mem /\ disk' \in {disk, t}
         /\ \E k \in {bad, Idle} : job' = [job EXCEPT ![l] = k]
  BY DEF Write, Commit, Lose, store, t
<1>3. job \in [Lobby -> Job]
  BY DEF Types
<1> QED BY <1>1, <1>2, <1>3

(* A write whose two ways on are calm. *)
LEMMA WriteCalm ==
    ASSUME Types, NEW l \in Lobby, NEW r, NEW ok, NEW bad, Write(l, r, ok, bad),
           Calm(job[l], ok), Calm(job[l], bad)
    PROVE  /\ mem'.used = mem.used /\ disk'.used \in {disk.used, mem.used}
           /\ \A m \in Lobby : Calm(job[m], job'[m])
<1>1. /\ mem'.used = mem.used /\ disk'.used \in {disk.used, mem.used}
      /\ job'[l] \in {ok, bad, Idle}
      /\ \A m \in Lobby : m # l => job'[m] = job[m]
  BY WriteFrame
<1>2. Calm(job[l], job'[l])
  BY <1>1, IdleCalm
<1>3. \A m \in Lobby : Calm(job[m], job[m])
  BY DEF Calm
<1> QED BY <1>1, <1>2, <1>3

LEMMA JobCalm ==
    ASSUME Types, NEW l \in Lobby, NEW k, Calm(job[l], k), job' = [job EXCEPT ![l] = k],
           mem' = mem, disk' = disk
    PROVE  /\ mem'.used = mem.used /\ disk'.used \in {disk.used, mem.used}
           /\ \A m \in Lobby : Calm(job[m], job'[m])
<1>1. job \in [Lobby -> Job]
  BY DEF Types
<1>2. \A m \in Lobby : Calm(job[m], job[m])
  BY DEF Calm
<1> QED BY <1>1, <1>2

CalmStep ==
    /\ mem'.used = mem.used /\ disk'.used \in {disk.used, mem.used}
    /\ \A m \in Lobby : Calm(job[m], job'[m])

LEMMA WritesAreCalm ==
    ASSUME Types, NEW l \in Lobby,
           \/ WriteCreating(l) \/ FinishCreate(l) \/ WriteMaintained(l) \/ WriteClosing(l)
           \/ WriteIntent(l) \/ WriteReset(l) \/ WritePresent(l) \/ WriteFirst(l)
           \/ WriteSecond(l) \/ Final(l)
    PROVE  CalmStep
<1> DEFINE j == job[l]
<1>1. j \in Job
  BY DEF Types
<1>2. Calm(j, Idle)
  BY IdleCalm
<1>3. \A r : /\ Calm(j, At(j, "final", r)) /\ Calm(j, At(j, "observe", r))
            /\ Calm(j, At(j, "delete", r)) /\ Calm(j, At(j, "erase", r))
  BY <1>1, Stages, AtCalm
<1>4. CASE WriteCreating(l)
  <2> DEFINE r == [j.rec EXCEPT !.lifecycle = "Creating"]
             ok == [j EXCEPT !.pc = "prepare", !.rec = r]
  <2>1. j.pc = "reserve" /\ Write(l, r, ok, Idle)
    BY <1>4 DEF WriteCreating
  <2>2. ok.then = j.then
    BY <1>1 DEF Job
  <2>3. Calm(j, ok)
    BY <2>1, <2>2 DEF Calm, Creating
  <2> HIDE DEF r, ok
  <2> QED BY <1>2, <2>1, <2>3, WriteCalm DEF CalmStep
<1>5. CASE FinishCreate(l)
  <2>1. Write(l, Answered(j.rec, j.answer), Idle, Idle)
    BY <1>5 DEF FinishCreate
  <2> QED BY <1>2, <2>1, WriteCalm DEF CalmStep
<1>6. CASE WriteMaintained(l)
  <2>1. Write(l, j.rec, Clean(j, anchor[l]), Idle)
    BY <1>6 DEF WriteMaintained
  <2>2. Calm(j, Clean(j, anchor[l]))
    BY <1>1, CleanCalm
  <2> QED BY <1>2, <2>1, <2>2, WriteCalm DEF CalmStep
<1>7. CASE WriteClosing(l)
  <2> DEFINE k == [j EXCEPT !.finalize = TRUE, !.then = "end"]
  <2>1. Write(l, j.rec, Clean(k, anchor[l]), Idle)
    BY <1>7 DEF WriteClosing
  <2>2. k \in Job /\ k.then = "end" /\ k.pc = j.pc
    BY <1>1 DEF Job
  <2> HIDE DEF k
  <2>3. Calm(k, Clean(k, anchor[l]))
    BY <2>2, CleanCalm
  <2>4. Calm(j, Clean(k, anchor[l]))
    BY <2>2, <2>3 DEF Calm
  <2> QED BY <1>2, <2>1, <2>4, WriteCalm DEF CalmStep
<1>8. CASE WriteIntent(l)
  <2>1. Write(l, j.rec, At(j, "delete", j.rec), At(j, "final", Manual(j.rec)))
    BY <1>8 DEF WriteIntent
  <2> QED BY <1>3, <2>1, WriteCalm DEF CalmStep
<1>9. CASE WriteReset(l)
  <2>1. Write(l, j.rec, At(j, "observe", j.rec), At(j, "final", Manual(j.rec)))
    BY <1>9 DEF WriteReset
  <2> QED BY <1>3, <2>1, WriteCalm DEF CalmStep
<1>10. CASE WritePresent(l)
  <2>1. Write(l, j.rec, At(j, "final", j.rec), At(j, "final", Manual(j.rec)))
    BY <1>10 DEF WritePresent
  <2> QED BY <1>3, <2>1, WriteCalm DEF CalmStep
<1>11. CASE WriteFirst(l)
  <2>1. Write(l, j.rec, At(j, "final", j.rec), At(j, "final", Manual(Unproven(j.rec))))
    BY <1>11 DEF WriteFirst
  <2> QED BY <1>3, <2>1, WriteCalm DEF CalmStep
<1>12. CASE WriteSecond(l)
  <2> DEFINE q == [Manual(j.rec) EXCEPT !.confirmed = FALSE]
  <2>1. Write(l, j.rec, At(j, "erase", j.rec), At(j, "final", q))
    BY <1>12 DEF WriteSecond
  <2> HIDE DEF q
  <2> QED BY <1>3, <2>1, WriteCalm DEF CalmStep
<1>13. CASE Final(l)
  <2> DEFINE k == [j EXCEPT !.rec = Finalized(j)]
             ok == IF k.then = "close" THEN Closed(k, anchor[l]) ELSE Idle
  <2>1. Write(l, k.rec, ok, Idle)
    BY <1>13 DEF Final
  <2>2. k.then = j.then /\ k.pc = j.pc /\ k \in Job
    <3>1. Finalized(j) \in Record
      <4>1. j.rec \in Record
        BY <1>1 DEF Job
      <4>2. [j.rec EXCEPT !.state = "Destroyed"] \in Record
        BY <4>1 DEF Record, Ended
      <4> QED BY <4>1, <4>2 DEF Finalized
    <3> QED BY <1>1, <3>1 DEF Job
  <2> HIDE DEF k
  <2>3. Calm(k, ok)
    BY <2>2, ClosedCalm, IdleCalm
  <2> HIDE DEF ok
  <2>4. Calm(j, ok)
    BY <2>2, <2>3 DEF Calm
  <2> QED BY <1>2, <2>1, <2>4, WriteCalm DEF CalmStep
<1> QED BY <1>4, <1>5, <1>6, <1>7, <1>8, <1>9, <1>10, <1>11, <1>12, <1>13

LEMMA CallsAreCalm ==
    ASSUME Types, NEW l \in Lobby,
           Prepare(l) \/ Mint(l) \/ Delete(l) \/ Observe(l) \/ Erase(l) \/ Cancel(l)
    PROVE  CalmStep
<1> DEFINE j == job[l]
<1>1. j \in Job
  BY DEF Types
<1>2. CASE Prepare(l)
  <2>1. PICK x : job' = [job EXCEPT ![l].pc = "prepared", ![l].answer = x]
    BY <1>2 DEF Prepare
  <2> DEFINE k == [j EXCEPT !.pc = "prepared", !.answer = x]
  <2>2. job' = [job EXCEPT ![l] = k] /\ mem' = mem /\ disk' = disk /\ j.pc = "prepare"
    BY <1>2, <2>1 DEF Prepare, store
  <2>3. k.then = j.then
    BY <1>1 DEF Job
  <2>4. Calm(j, k)
    BY <2>2, <2>3 DEF Calm, Creating
  <2> HIDE DEF k
  <2> QED BY <2>2, <2>4, JobCalm DEF CalmStep
<1>3. CASE Delete(l) \/ Observe(l) \/ Erase(l)
  <2>1. PICK pc \in {"final", "present", "first", "second"} :
            \E r : job' = [job EXCEPT ![l] = At(j, pc, r)]
    <3>1. CASE Delete(l)
      BY <3>1 DEF Delete
    <3>2. CASE Observe(l)
      BY <3>2 DEF Observe
    <3>3. CASE Erase(l)
      BY <3>3 DEF Erase
    <3> QED BY <1>3, <3>1, <3>2, <3>3
  <2>2. mem' = mem /\ disk' = disk
    BY <1>3 DEF Delete, Observe, Erase, store
  <2>3. pc \notin Creating
    BY DEF Creating
  <2>4. PICK r : job' = [job EXCEPT ![l] = At(j, pc, r)]
    BY <2>1
  <2>5. Calm(j, At(j, pc, r))
    BY <1>1, <2>3, AtCalm
  <2> QED BY <2>2, <2>4, <2>5, JobCalm DEF CalmStep
<1>4. CASE Cancel(l)
  <2>1. job' = [job EXCEPT ![l] = Idle] /\ mem' = mem /\ disk' = disk
    BY <1>4 DEF Cancel, store
  <2> QED BY <2>1, IdleCalm, JobCalm DEF CalmStep
<1>5. CASE Mint(l)
  <2>1. /\ mem' = mem /\ disk' = disk
        /\ \/ job' = [job EXCEPT ![l] = Idle]
           \/ \E r : job' = [job EXCEPT ![l] = At(j, "final", r)]
    BY <1>5 DEF Mint, store
  <2>2. \A r : Calm(j, At(j, "final", r))
    BY <1>1, Stages, AtCalm
  <2> QED BY <2>1, <2>2, IdleCalm, JobCalm DEF CalmStep
<1> QED BY <1>2, <1>3, <1>4, <1>5

LEMMA StartsAreCalm ==
    ASSUME Types, NEW l \in Lobby,
           Request(l, "end") \/ Request(l, "close") \/ Join(l) \/ Reap(l)
    PROVE  CalmStep
<1>1. /\ mem' = mem /\ disk' = disk /\ job[l] = Idle /\ mem.rec[l] \in Record
  BY DEF Request, Join, Reap, store, Types, StoreData
<1>2. ASSUME NEW then \in {"end", "close"}, Request(l, then)
      PROVE  \E k : job' = [job EXCEPT ![l] = k] /\ k.then # "handled"
                    /\ k.pc \notin Creating
  <2> DEFINE start == [Idle EXCEPT !.http = TRUE, !.then = then]
             r == mem.rec[l]
  <2>1. start \in Job /\ start.then = then /\ start.pc = "idle"
    BY RecordTypes DEF Idle, Job
  <2>2. \/ \E m : job' = [job EXCEPT ![l] = At(start, "maintain", m)]
        \/ job' = [job EXCEPT ![l] = Closed(At(start, "idle", r), anchor[l])]
    BY <1>2 DEF Request
  <2> HIDE DEF start
  <2>3. CASE \E m : job' = [job EXCEPT ![l] = At(start, "maintain", m)]
    <3>1. PICK m : job' = [job EXCEPT ![l] = At(start, "maintain", m)]
      BY <2>3
    <3>2. Calm(start, At(start, "maintain", m))
      BY <2>1, Stages, AtCalm
    <3> QED BY <2>1, <3>1, <3>2, Stages DEF Calm
  <2>4. CASE job' = [job EXCEPT ![l] = Closed(At(start, "idle", r), anchor[l])]
    <3> DEFINE i == At(start, "idle", r)
    <3>1. i \in Job /\ i.then = start.then /\ i.pc = "idle"
      BY <1>1, <2>1, IdleStage, AtTypes
    <3> HIDE DEF i
    <3>2. Calm(i, Closed(i, anchor[l]))
      BY <3>1, ClosedCalm
    <3>3. job' = [job EXCEPT ![l] = Closed(i, anchor[l])]
      BY <2>4 DEF i
    <3> QED BY <2>1, <3>1, <3>2, <3>3, Stages DEF Calm
  <2> QED BY <2>2, <2>3, <2>4
<1>3. ASSUME Reap(l)
      PROVE  \E k : job' = [job EXCEPT ![l] = k] /\ k.then # "handled"
                    /\ k.pc \notin Creating
  <2>1. PICK m \in TimedOut(mem.rec[l]) \cup {mem.rec[l]} :
          job' = [job EXCEPT ![l] = Clean([Idle EXCEPT !.rec = m, !.finalize = (m.state = "Closing")],
                                          anchor[l])]
    BY <1>3 DEF Reap
  <2> DEFINE i == [Idle EXCEPT !.rec = m, !.finalize = (m.state = "Closing")]
  <2>2. m \in Record
    <3>1. CASE m \in TimedOut(mem.rec[l])
      <4>1. \E x \in {"Failed", "Expired"} : m = [mem.rec[l] EXCEPT !.state = x, !.pending = TRUE]
        BY <3>1 DEF TimedOut
      <4> QED BY <1>1, <4>1 DEF Record, Ended
    <3> QED BY <1>1, <3>1
  <2>3. i \in Job /\ i.then = "end" /\ i.pc = "idle"
    BY <2>2 DEF Idle, Job
  <2>4. job' = [job EXCEPT ![l] = Clean(i, anchor[l])]
    BY <2>1
  <2> HIDE DEF i
  <2>5. Calm(i, Clean(i, anchor[l]))
    BY <2>3, CleanCalm
  <2> QED BY <2>3, <2>4, <2>5, Stages DEF Calm
<1>6. ASSUME Join(l)
      PROVE  \E k : job' = [job EXCEPT ![l] = k] /\ k.then # "handled"
                    /\ k.pc \notin Creating
  <2> DEFINE start == [Idle EXCEPT !.http = TRUE]
             k == At(start, "mint", mem.rec[l])
  <2>1. start \in Job /\ start.then = "end"
    BY RecordTypes DEF Idle, Job
  <2>2. job' = [job EXCEPT ![l] = k]
    BY <1>6 DEF Join
  <2> HIDE DEF start
  <2>3. k.then = start.then /\ k.pc = "mint"
    BY <1>1, <2>1, MintStage, AtTypes
  <2> HIDE DEF k
  <2> QED BY <2>1, <2>2, <2>3, Stages
<1>4. PICK k : job' = [job EXCEPT ![l] = k] /\ k.then # "handled" /\ k.pc \notin Creating
  BY <1>2, <1>3, <1>6
<1>5. Calm(job[l], k)
  BY <1>4 DEF Calm
<1> QED BY <1>1, <1>4, <1>5, JobCalm DEF CalmStep
-----------------------------------------------------------------------------
(* The parts of the invariant that are about the process as a whole. *)

LEMMA BrokerStays ==
    ASSUME Next PROVE Brokered' = Brokered
<1> USE DEF Brokered
<1>1. CASE broker' = broker
  BY <1>1
<1>2. CASE Becomes("used") \/ Becomes("broken")
  BY <1>2 DEF Becomes
<1>3. ASSUME NEW l \in Lobby, Prepare(l) PROVE Becomes("used") \/ Becomes("broken")
  BY <1>3 DEF Prepare
<1>4. ASSUME NEW l \in Lobby, Delete(l) PROVE Becomes("used") \/ Becomes("broken")
  BY <1>4 DEF Delete
<1>5. ASSUME NEW l \in Lobby, Erase(l) PROVE Becomes("used") \/ Becomes("broken")
  BY <1>5 DEF Erase
<1>6. ASSUME NEW l \in Lobby, Observe(l) PROVE Becomes("used") \/ Becomes("broken") \/ broker' = broker
  BY <1>6 DEF Observe
<1>7. ASSUME NEW l \in Lobby,
             \/ WriteCreating(l) \/ FinishCreate(l) \/ WriteMaintained(l) \/ WriteClosing(l)
             \/ WriteIntent(l) \/ WriteReset(l) \/ WritePresent(l) \/ WriteFirst(l)
             \/ WriteSecond(l) \/ Final(l)
      PROVE  broker' = broker
  BY <1>7 DEF WriteCreating, FinishCreate, WriteMaintained, WriteClosing, WriteIntent, WriteReset,
              WritePresent, WriteFirst, WriteSecond, Final
<1>8. ASSUME NEW l \in Lobby,
             \/ CreateLobby(l) \/ Cancel(l) \/ Request(l, "end") \/ Request(l, "close")
             \/ Join(l) \/ Reap(l) \/ BeginProtectedCleanup(l) \/ CheckRelease(l) \/ Arrive(l) \/ Settle(l) \/ Elapse(l)
      PROVE  broker' = broker
  BY <1>8 DEF CreateLobby, Cancel, Request, Join, Reap, BeginProtectedCleanup, CheckRelease, Arrive,
              Settle, Elapse
<1>9. CleanupSignal \/ ReleaseLease \/ Crash \/ Restart => broker' = broker
  BY DEF CleanupSignal, ReleaseLease, Crash, Restart
<1>10. ASSUME NEW l \in Lobby, Mint(l) PROVE Becomes("used") \/ Becomes("broken") \/ broker' = broker
  BY <1>10 DEF Mint
<1> QED BY <1>1, <1>2, <1>3, <1>4, <1>5, <1>6, <1>7, <1>8, <1>9, <1>10 DEF Next, JobStep

LEMMA RunningStep ==
    ASSUME Types, DownIsIdle, NEW l \in Lobby, JobStep(l) \/ Cancel(l)
    PROVE  up /\ up' = up /\ over' = over
<1>1. job[l].pc # "idle" \/ job[l].http
  BY DEF JobStep, Cancel, WriteCreating, Prepare, FinishCreate, Mint, WriteMaintained, WriteClosing,
         WriteIntent, Delete, WriteReset, Observe, WritePresent, WriteFirst, WriteSecond, Erase, Final
<1>2. Idle.pc = "idle" /\ ~Idle.http
  BY DEF Idle
<1>3. up
  BY <1>1, <1>2 DEF DownIsIdle
<1>4. up' = up /\ over' = over
  BY DEF JobStep, Cancel, WriteCreating, Prepare, FinishCreate, Mint, WriteMaintained, WriteClosing,
         WriteIntent, Delete, WriteReset, Observe, WritePresent, WriteFirst, WriteSecond, Erase,
         Final, process
<1> QED BY <1>3, <1>4

LEMMA DownIsIdleNext ==
    ASSUME Types, DownIsIdle, Next PROVE DownIsIdle'
<1>1. ASSUME NEW l \in Lobby, JobStep(l) \/ Cancel(l) PROVE DownIsIdle'
  BY <1>1, RunningStep DEF DownIsIdle
<1>2. ASSUME NEW l \in Lobby,
             \/ CreateLobby(l) \/ Request(l, "end") \/ Request(l, "close") \/ Join(l) \/ Reap(l)
             \/ BeginProtectedCleanup(l) \/ CheckRelease(l) \/ Elapse(l)
      PROVE  DownIsIdle'
  <2>1. up /\ up' = up
    BY <1>2 DEF CreateLobby, Request, Join, Reap, BeginProtectedCleanup, CheckRelease, Elapse, process
  <2> QED BY <2>1 DEF DownIsIdle
<1>3. ASSUME NEW l \in Lobby, Arrive(l) \/ Settle(l) PROVE DownIsIdle'
  BY <1>3 DEF Arrive, Settle, process, DownIsIdle
<1>4. CASE CleanupSignal
  BY <1>4 DEF CleanupSignal, DownIsIdle
<1>5. CASE ReleaseLease
  <2>1. job' = [l \in Lobby |-> Idle] \/ (up' = up /\ up)
    BY <1>5 DEF ReleaseLease
  <2> QED BY <2>1 DEF DownIsIdle
<1>6. CASE Crash
  BY <1>6 DEF Crash, DownIsIdle
<1>7. CASE Restart
  BY <1>7 DEF Restart, DownIsIdle
<1> QED BY <1>1, <1>2, <1>3, <1>4, <1>5, <1>6, <1>7 DEF Next

(* Only the world's own steps and the calls of a handler change the world, and *)
(* none brings back what is gone. *)
LEMMA GoneStays ==
    ASSUME Types, Next, NEW m \in Lobby, GoneFor(net[m], vault[m]), job[m].pc \notin Creating
    PROVE  GoneFor(net'[m], vault'[m])
<1>1. net \in [Lobby -> Tailnet] /\ vault \in [Lobby -> Custody]
  BY DEF Types
<1>2. CASE net' = net /\ vault' = vault
  BY <1>2
<1>3. ASSUME NEW l \in Lobby, Prepare(l) PROVE GoneFor(net'[m], vault'[m])
  <2>1. l # m
    BY <1>3 DEF Prepare, Creating
  <2>2. net'[m] = net[m] /\ vault'[m] = vault[m]
    BY <1>1, <1>3, <2>1 DEF Prepare
  <2> QED BY <2>2
<1>4. ASSUME NEW l \in Lobby, Delete(l) PROVE GoneFor(net'[m], vault'[m])
  <2>1. /\ vault' = vault
        /\ net' = net \/ (vault[l] = "held" /\ \E n : net' = [net EXCEPT ![l] = n])
    BY <1>4 DEF Delete
  <2>2. l = m => vault[l] # "held"
    BY DEF GoneFor
  <2> QED BY <1>1, <2>1, <2>2
<1>5. ASSUME NEW l \in Lobby, Erase(l) PROVE GoneFor(net'[m], vault'[m])
  <2>1. net' = net /\ (vault' = vault \/ vault' = [vault EXCEPT ![l] = "erased"])
    BY <1>5 DEF Erase
  <2> QED BY <1>1, <2>1 DEF GoneFor
<1>6. ASSUME NEW l \in Lobby, Arrive(l) \/ Settle(l) PROVE GoneFor(net'[m], vault'[m])
  <2>1. l # m
    BY <1>6 DEF Arrive, Settle, GoneFor
  <2>2. vault' = vault /\ net'[m] = net[m]
    BY <1>1, <1>6, <2>1 DEF Arrive, Settle
  <2> QED BY <2>2
<1>7. ASSUME NEW l \in Lobby,
             \/ WriteCreating(l) \/ FinishCreate(l) \/ WriteMaintained(l) \/ WriteClosing(l)
             \/ WriteIntent(l) \/ WriteReset(l) \/ WritePresent(l) \/ WriteFirst(l)
             \/ WriteSecond(l) \/ Final(l) \/ Observe(l)
      PROVE  net' = net /\ vault' = vault
  BY <1>7 DEF WriteCreating, FinishCreate, WriteMaintained, WriteClosing, WriteIntent, WriteReset,
              WritePresent, WriteFirst, WriteSecond, Final, Observe, world
<1>8. ASSUME NEW l \in Lobby,
             \/ CreateLobby(l) \/ Cancel(l) \/ Request(l, "end") \/ Request(l, "close")
             \/ Join(l) \/ Reap(l) \/ BeginProtectedCleanup(l) \/ CheckRelease(l) \/ Elapse(l)
      PROVE  net' = net /\ vault' = vault
  BY <1>8 DEF CreateLobby, Cancel, Request, Join, Reap, BeginProtectedCleanup, CheckRelease, Elapse, world
<1>9. CleanupSignal \/ ReleaseLease \/ Crash \/ Restart => net' = net /\ vault' = vault
  BY DEF CleanupSignal, ReleaseLease, Crash, Restart, world
<1>10. ASSUME NEW l \in Lobby, Mint(l) PROVE GoneFor(net'[m], vault'[m])
  <2>1. vault' = vault /\ (net[l] # "present" => net' = net)
        /\ (net' = net \/ net' = [net EXCEPT ![l] = "deleting"])
    BY <1>10 DEF Mint
  <2>2. net'[m] = net[m] \/ (l = m /\ net[m] = "present")
    BY <1>1, <2>1
  <2> QED BY <2>1, <2>2 DEF GoneFor
<1> QED BY <1>2, <1>3, <1>4, <1>5, <1>6, <1>7, <1>8, <1>9, <1>10 DEF Next, JobStep

(* A calm step keeps what is known of the channel and of the release. *)
LEMMA CalmFits ==
    ASSUME Types, BrokerFits, ReleaseFits, Next, CalmStep, over' = over,
           signal' = signal \/ (signal' = "handled" /\ \E l \in Lobby : job[l].then = "handled")
    PROVE  BrokerFits' /\ ReleaseFits'
<1>1. Brokered' = Brokered
  BY BrokerStays
<1>2. signal' # "none" => Brokered'
  BY <1>1 DEF BrokerFits
<1>3. ASSUME NEW l \in Lobby, job'[l].then = "handled" PROVE Brokered'
  BY <1>1, <1>3 DEF BrokerFits, CalmStep, Calm
<1>4. Brokered' => mem'.used \subseteq {Served} /\ disk'.used \subseteq {Served}
  BY <1>1 DEF BrokerFits, CalmStep
<1>5. BrokerFits'
  BY <1>2, <1>3, <1>4 DEF BrokerFits, Served
<1>6. ASSUME signal' \in {"checked", "released"}, over', NEW m \in Lobby
      PROVE  GoneFor(net'[m], vault'[m]) /\ job'[m].pc \notin Creating
  <2>1. GoneFor(net[m], vault[m]) /\ job[m].pc \notin Creating
    BY <1>6 DEF ReleaseFits
  <2> QED BY <2>1, GoneStays DEF CalmStep, Calm
<1>7. ReleaseFits'
  BY <1>6 DEF ReleaseFits
<1> QED BY <1>5, <1>7

LEMMA LobbyFits ==
    ASSUME NetworkInv, Next, NEW l \in Lobby,
           \/ JobStep(l) \/ Cancel(l) \/ Request(l, "end") \/ Request(l, "close") \/ Join(l) \/ Reap(l)
           \/ Arrive(l) \/ Settle(l) \/ Elapse(l)
    PROVE  BrokerFits' /\ ReleaseFits'
<1>1. Types /\ BrokerFits /\ ReleaseFits
  BY DEF NetworkInv
<1>2. CASE /\ ~Final(l)
           /\ JobStep(l) \/ Cancel(l) \/ Request(l, "end") \/ Request(l, "close") \/ Join(l) \/ Reap(l)
  <2>1. CalmStep
    BY <1>1, <1>2, WritesAreCalm, CallsAreCalm, StartsAreCalm DEF JobStep
  <2>2. signal' = signal /\ over' = over
    BY <1>2 DEF JobStep, Cancel, WriteCreating, Prepare, FinishCreate, Mint, WriteMaintained, WriteClosing,
                WriteIntent, Delete, WriteReset, Observe, WritePresent, WriteFirst, WriteSecond,
                Erase, Request, Join, Reap, process
  <2> QED BY <1>1, <2>1, <2>2, CalmFits
<1>3. CASE Final(l)
  <2>1. CalmStep
    BY <1>1, <1>3, WritesAreCalm
  <2>2. over' = over /\ (signal' = signal \/ (signal' = "handled" /\ job[l].then = "handled"))
    <3>1. job[l] \in Job
      BY <1>1 DEF Types
    <3>2. [job[l] EXCEPT !.rec = Finalized(job[l])].then = job[l].then
      BY <3>1 DEF Job
    <3> QED BY <1>3, <3>2 DEF Final
  <2> QED BY <1>1, <2>1, <2>2, CalmFits
<1>4. CASE Arrive(l) \/ Settle(l) \/ Elapse(l)
  <2>1. mem' = mem /\ disk' = disk /\ job' = job /\ signal' = signal /\ over' = over
    BY <1>4 DEF Arrive, Settle, Elapse, store, process
  <2>2. CalmStep
    BY <2>1 DEF CalmStep, Calm
  <2> QED BY <1>1, <2>1, <2>2, CalmFits
<1> QED BY <1>2, <1>3, <1>4

LEMMA CreateFits ==
    ASSUME NetworkInv, NEW l \in Lobby, CreateLobby(l)
    PROVE  BrokerFits' /\ ReleaseFits'
<1>1. Types /\ BrokerFits /\ ReleaseFits
  BY DEF NetworkInv
<1>2. /\ signal' = signal /\ over' = over /\ broker' = broker /\ net' = net /\ vault' = vault
      /\ Brokered => ~over /\ l = Served
  BY DEF CreateLobby, process, world
<1>3. Brokered' = Brokered
  BY <1>2 DEF Brokered
<1>4. mem \in StoreData /\ job \in [Lobby -> Job]
  BY <1>1 DEF Types
<1>5. PICK t : /\ t.used = mem.used \cup {l}
               /\ mem' \in {mem, t} /\ disk' \in {disk, t}
  <2>1. PICK gone : LET s == Purged(mem, gone)
                        t == [s EXCEPT !.rec[l] = NewRecord, !.lease = l, !.used = @ \cup {l}]
                    IN  Commit(t) \/ Lose(t)
    BY DEF CreateLobby
  <2> DEFINE s == Purged(mem, gone)
             t == [s EXCEPT !.rec[l] = NewRecord, !.lease = l, !.used = @ \cup {l}]
             f == [m \in Lobby |-> IF m \in gone THEN NoRecord ELSE mem.rec[m]]
  <2>2. mem' \in {mem, t} /\ disk' \in {disk, t}
    BY <2>1 DEF Commit, Lose
  <2>3. s = [rec |-> f, lease |-> mem.lease, quarantined |-> mem.quarantined, used |-> mem.used]
    BY <1>4 DEF Purged, StoreData
  <2>4. t.used = mem.used \cup {l}
    BY <2>3
  <2> QED BY <2>2, <2>4
<1>6. PICK k : k.then = "end" /\ job' \in {job, [job EXCEPT ![l] = k]}
  <2>1. [Idle EXCEPT !.pc = "reserve", !.http = TRUE, !.rec = NewRecord].then = "end"
    BY DEF Idle
  <2> QED BY <2>1 DEF CreateLobby
<1>7. BrokerFits'
  <2>1. signal' # "none" => Brokered'
    BY <1>1, <1>2, <1>3 DEF BrokerFits
  <2>2. \A m \in Lobby : job'[m].then = "handled" => Brokered'
    BY <1>1, <1>3, <1>4, <1>6 DEF BrokerFits
  <2>3. Brokered' => mem'.used \subseteq {Served} /\ disk'.used \subseteq {Served}
    BY <1>1, <1>2, <1>3, <1>5 DEF BrokerFits
  <2> QED BY <2>1, <2>2, <2>3 DEF BrokerFits, Served
<1>8. ReleaseFits'
  <2>1. ~(signal' \in {"checked", "released"} /\ over')
    BY <1>1, <1>2 DEF BrokerFits
  <2> QED BY <2>1 DEF ReleaseFits
<1> QED BY <1>7, <1>8

(* The worker reads a record that is gone or destroyed, and by then nothing of *)
(* it is left. *)
LEMMA CheckFits ==
    ASSUME NetworkInv, NEW l \in Lobby, CheckRelease(l)
    PROVE  BrokerFits' /\ ReleaseFits'
<1>1. Types /\ AllInv /\ BrokerFits /\ ReleaseFits
  BY DEF NetworkInv
<1>2. /\ signal = "handled" /\ l = Served
      /\ mem.rec[l].state = "None" \/ (mem.rec[l].state = "Destroyed" /\ ~mem.rec[l].pending)
      /\ mem' = mem /\ disk' = disk /\ job' = job /\ broker' = broker /\ net' = net
      /\ vault' = vault
  BY DEF CheckRelease, store, world
<1>3. Brokered /\ mem.used \subseteq {l}
  BY <1>1, <1>2 DEF BrokerFits
<1>4. Brokered'
  BY <1>2, <1>3 DEF Brokered
<1>5. BrokerFits'
  BY <1>1, <1>2, <1>4 DEF BrokerFits, Served, Brokered
<1>6. ASSUME NEW m \in Lobby PROVE GoneFor(net[m], vault[m]) /\ job[m].pc \notin Creating
  <2>1. /\ Covers(net[m], vault[m], job[m], m, mem) /\ Knows(net[m], vault[m], anchor[m], job[m])
        /\ Agrees(net[m], vault[m], mem.rec[m]) /\ (vault[m] = "erased" => net[m] = "absent")
    BY <1>1, JobFacts
  <2>2. CASE m # l
    <3>1. m \notin mem.used
      BY <1>3, <2>2
    <3> QED BY <2>1, <3>1 DEF Covers, GoneFor
  <2>3. CASE m = l
    <3>1. job[m].pc \in Creating => mem.rec[m].state = "Provisioning"
      BY <2>1, RecordTypes DEF Covers, Knows
    <3>2. GoneFor(net[m], vault[m])
      BY <1>2, <2>1, <2>3 DEF Covers, Agrees, GoneFor
    <3> QED BY <1>2, <2>3, <3>1, <3>2
  <2> QED BY <2>2, <2>3
<1>7. ReleaseFits'
  BY <1>2, <1>6 DEF ReleaseFits
<1> QED BY <1>5, <1>7

LEMMA BeginFits ==
    ASSUME NetworkInv, NEW l \in Lobby, BeginProtectedCleanup(l)
    PROVE  BrokerFits' /\ ReleaseFits'
<1>1. BrokerFits
  BY DEF NetworkInv
<1>2. /\ signal = "sent" /\ signal' \in {"sent", "handled"}
      /\ mem' = mem /\ disk' = disk /\ broker' = broker
  BY DEF BeginProtectedCleanup, store
<1>3. Brokered /\ Brokered'
  BY <1>1, <1>2 DEF BrokerFits, Brokered
<1> QED BY <1>1, <1>2, <1>3 DEF BrokerFits, ReleaseFits, Served

LEMMA ProcessFits ==
    ASSUME NetworkInv, CleanupSignal \/ ReleaseLease \/ Crash \/ Restart
    PROVE  BrokerFits' /\ ReleaseFits'
<1>1. Types /\ AllInv /\ DownIsIdle /\ BrokerFits /\ ReleaseFits
  BY DEF NetworkInv
<1>2. broker' = broker /\ net' = net /\ vault' = vault
  BY DEF CleanupSignal, ReleaseLease, Crash, Restart, world
<1>3. Brokered' = Brokered
  BY <1>2 DEF Brokered
<1>4. Idle.then = "end" /\ Idle.pc \notin Creating
  BY DEF Idle, Creating
<1>5. CASE CleanupSignal
  <2>1. Brokered /\ signal' = "sent" /\ mem' = mem /\ disk' = disk /\ job' = job
    BY <1>5 DEF CleanupSignal, store
  <2> QED BY <1>1, <1>3, <2>1 DEF BrokerFits, ReleaseFits, Served
<1>6. CASE ReleaseLease
  <2>1. /\ signal = "checked" /\ mem' = mem /\ disk' = disk /\ over' = over
        /\ \/ signal' = "released" /\ job' = [m \in Lobby |-> Idle]
           \/ signal' = "handled" /\ job' = job
    BY <1>6 DEF ReleaseLease, store
  <2>2. BrokerFits'
    BY <1>1, <1>3, <2>1 DEF BrokerFits, Served
  <2>3. ReleaseFits'
    BY <1>1, <1>2, <1>4, <2>1 DEF ReleaseFits
  <2> QED BY <2>2, <2>3
<1>7. CASE Crash
  <2>1. /\ signal' = "none" /\ mem' = disk /\ disk' = disk /\ job' = [m \in Lobby |-> Idle]
    BY <1>7 DEF Crash
  <2> QED BY <1>1, <1>3, <1>4, <2>1 DEF BrokerFits, ReleaseFits, Served
<1>8. CASE Restart
  <2>1. mem'.used = disk.used /\ disk'.used = disk.used
    BY <1>1, <1>8, RestartKeeps
  <2>2. /\ job' = job /\ over' = over /\ signal # "released"
        /\ signal' = signal \/ (Brokered /\ signal' = "sent")
    BY <1>8 DEF Restart
  <2>3. BrokerFits'
    BY <1>1, <1>3, <2>1, <2>2 DEF BrokerFits, Served
  <2>4. ReleaseFits'
    BY <1>1, <1>2, <2>2 DEF ReleaseFits
  <2> QED BY <2>3, <2>4
<1> QED BY <1>5, <1>6, <1>7, <1>8
-----------------------------------------------------------------------------
LEMMA NetworkInit == Init => NetworkInv
<1> SUFFICES ASSUME Init PROVE NetworkInv
  OBVIOUS
<1>1. /\ Idle \in Job /\ NoRecord \in Record /\ Idle.pc = "idle" /\ Idle.then = "end"
      /\ NoRecord.state = "None" /\ NoRecord.lifecycle = "Reserved" /\ ~NoRecord.identity
  BY RecordTypes DEF Idle
<1>2. /\ mem \in StoreData /\ disk = mem /\ mem.used = {} /\ mem.lease = NoLobby
      /\ \A l \in Lobby : mem.rec[l] = NoRecord
  BY <1>1 DEF Init, StoreData
<1>3. Types
  BY <1>1, <1>2 DEF Init, Types, Anchor, Tailnet, Custody
<1>4. ASSUME NEW l \in Lobby PROVE LobbyInv(l)
  <2>1. job[l] = Idle /\ net[l] = "none" /\ vault[l] = "none" /\ anchor[l] = "none"
    BY DEF Init
  <2>2. Covers("none", "none", Idle, l, mem)
    BY <1>1, <1>2 DEF Covers, Agrees, GoneFor, Creating
  <2>3. Knows("none", "none", "none", Idle)
    BY IdleKnows
  <2> QED BY <1>2, <2>1, <2>2, <2>3 DEF LobbyInv, Whole, Anchored
<1>5. DownIsIdle
  BY DEF Init, DownIsIdle
<1>6. BrokerFits /\ ReleaseFits
  BY <1>1, <1>2 DEF Init, BrokerFits, ReleaseFits
<1> QED BY <1>3, <1>4, <1>5, <1>6 DEF NetworkInv, AllInv

LEMMA NetworkNext == NetworkInv /\ [Next]_vars => NetworkInv'
<1> SUFFICES ASSUME NetworkInv, [Next]_vars PROVE NetworkInv'
  OBVIOUS
<1>1. Types /\ AllInv /\ DownIsIdle /\ BrokerFits /\ ReleaseFits
  BY DEF NetworkInv
<1>2. CASE UNCHANGED vars
  BY <1>1, <1>2 DEF vars, NetworkInv, Types, AllInv, LobbyInv, DownIsIdle, BrokerFits, ReleaseFits,
                    Brokered
<1>3. CASE Next
  <2>1. DownIsIdle'
    BY <1>1, <1>3, DownIsIdleNext
  <2>2. ASSUME NEW l \in Lobby,
               \/ CreateLobby(l) \/ JobStep(l) \/ Cancel(l)
               \/ Request(l, "end") \/ Request(l, "close") \/ Join(l) \/ Reap(l)
               \/ BeginProtectedCleanup(l) \/ CheckRelease(l)
               \/ Arrive(l) \/ Settle(l) \/ Elapse(l)
        PROVE  Types' /\ AllInv' /\ BrokerFits' /\ ReleaseFits'
    <3>1. BrokerFits' /\ ReleaseFits'
      BY <1>3, <2>2, LobbyFits, CreateFits, CheckFits, BeginFits
    <3>2. CASE JobStep(l)
      BY <1>1, <3>1, <3>2, WriteCreatingKeeps, PrepareKeeps, FinishCreateKeeps, MintingKeeps, WriteMaintainedKeeps,
         WriteClosingKeeps, WriteIntentKeeps, DeleteKeeps, WriteResetKeeps, ObserveKeeps,
         WritePresentKeeps, WriteFirstKeeps, WriteSecondKeeps, EraseKeeps, FinalKeeps DEF JobStep
    <3>3. CASE CheckRelease(l)
      <4>1. /\ mem' = mem /\ disk' = disk /\ job' = job /\ anchor' = anchor /\ net' = net
            /\ vault' = vault
        BY <3>3 DEF CheckRelease, store, world
      <4> QED BY <1>1, <3>1, <4>1, UnchangedKeeps
    <3> QED BY <1>1, <2>2, <3>1, <3>2, <3>3, CreateLobbyKeeps, CancelKeeps, RequestKeeps, JoinKeeps, ReapKeeps,
               BeginProtectedCleanupKeeps, WorldKeeps
  <2>3. CASE CleanupSignal \/ ReleaseLease \/ Crash \/ Restart
    <3>1. BrokerFits' /\ ReleaseFits'
      BY <2>3, ProcessFits
    <3>2. CASE CleanupSignal
      <4>1. /\ mem' = mem /\ disk' = disk /\ job' = job /\ anchor' = anchor /\ net' = net
            /\ vault' = vault
        BY <3>2 DEF CleanupSignal, store, world
      <4> QED BY <1>1, <2>1, <3>1, <4>1, UnchangedKeeps DEF NetworkInv
    <3>3. CASE ReleaseLease
      <4>1. /\ mem' = mem /\ disk' = disk /\ anchor' = anchor /\ net' = net /\ vault' = vault
            /\ job' = job \/ job' = [m \in Lobby |-> Idle]
        BY <3>3 DEF ReleaseLease, store, world
      <4> QED BY <1>1, <2>1, <3>1, <4>1, UnchangedKeeps, StopKeeps DEF NetworkInv
    <3>4. CASE Crash
      <4>1. /\ mem' = disk /\ disk' = disk /\ anchor' = [m \in Lobby |-> "none"]
            /\ net' = net /\ vault' = vault /\ job' = [m \in Lobby |-> Idle]
        BY <3>4 DEF Crash, world
      <4> QED BY <1>1, <2>1, <3>1, <4>1, StopKeeps DEF NetworkInv
    <3>5. CASE Restart
      BY <1>1, <2>1, <3>1, <3>5, RestartKeeps DEF NetworkInv
    <3> QED BY <2>3, <3>2, <3>3, <3>4, <3>5
  <2> QED BY <1>3, <2>1, <2>2, <2>3 DEF Next, NetworkInv
<1> QED BY <1>2, <1>3

LEMMA NetworkInvSuffices == NetworkInv => NothingIsStranded
<1> SUFFICES ASSUME NetworkInv PROVE NothingIsStranded
  OBVIOUS
<1>1. \A l \in Lobby : /\ Covers(net[l], vault[l], job[l], l, mem)
                       /\ Covers(net[l], vault[l], job[l], l, disk)
                       /\ vault[l] = "erased" => net[l] = "absent"
  BY DEF NetworkInv, AllInv, LobbyInv, Whole
<1>2. LeaseCoversNetwork
  BY <1>1 DEF LeaseCoversNetwork, Covers, GoneFor, Exists
<1>3. SecretOutlivesNetwork
  BY <1>1 DEF SecretOutlivesNetwork
<1>4. ActiveIsDeletable
  BY <1>1 DEF ActiveIsDeletable, Covers, Agrees
<1>5. LeaseIsReleasedLast
  BY DEF NetworkInv, ReleaseFits, LeaseIsReleasedLast, GoneFor, Exists
<1> QED BY <1>2, <1>3, <1>4, <1>5 DEF NothingIsStranded

(* Nothing a creation left in the world is out of reach, whatever fails and *)
(* whenever: a tailnet or a secret that may exist is covered by the lease in *)
(* memory and on disk, the secret outlives its tailnet, an Active record names *)
(* its tailnet and has the secret to delete it, also when the policy gate of a *)
(* join has deleted the tailnet under it, and a cleanup begun at the deadline *)
(* releases the external Lease last. *)
THEOREM NetworkIsCovered == Spec => []NothingIsStranded
<1>1. Init => NetworkInv
  BY NetworkInit
<1>2. NetworkInv /\ [Next]_vars => NetworkInv'
  BY NetworkNext
<1>3. NetworkInv => NothingIsStranded
  BY NetworkInvSuffices
<1> QED BY <1>1, <1>2, <1>3, PTL DEF Spec

-----------------------------------------------------------------------------
(* Joining a lobby: THEOREM AdmissionIsAccounted.  join_lobby writes the     *)
(* issuance in doubt before it asks the provider, and lets a player in again *)
(* only when the records of that issuance and of its credential have lapsed. *)
(* Their keys may outlast them; the invariant follows a key from the         *)
(* reservation to whatever becomes of the request, and past its record to    *)
(* the reservation that superseded it.                                       *)

CONSTANTS Rider, Invitation, Capacity, AttemptLimit, MaxIssued

VARIABLES admission, join, issued, keys, lapsed, dead, spent, leaving, dropped

Admission == INSTANCE LobbyAdmission

Issuance == 0..MaxIssued

Roll ==
    [state : {"Forming", "InMatch", "Failed", "Closing"},
     roster : SUBSET Rider, capable : SUBSET Rider,
     invitations : [Invitation -> {"none", "live", "used", "expired"}],
     credential : [Rider -> Issuance], revoked : SUBSET Issuance, pending : [Rider -> Issuance],
     replays : SUBSET [request : 1..2, rider : Rider], attempts : Seq(Rider),
     cleanup : BOOLEAN]

Spending == [invitation : Invitation, issuance : 1..MaxIssued, rider : Rider,
             late : SUBSET (1..MaxIssued)]

Joining == [rider : Rider, key : 1..MaxIssued, request : 1..2, minted : BOOLEAN]

AdmissionTypes ==
    /\ admission \in Roll
    /\ join \in Joining \cup {Admission!NoJoin}
    /\ issued \in Issuance
    /\ keys \in [1..MaxIssued -> Rider \cup {0}]
    /\ dead \subseteq Issuance /\ dropped \subseteq Issuance
    /\ lapsed \subseteq 1..MaxIssued
    /\ spent \subseteq Spending
    /\ leaving \subseteq Rider

(* A reservation of p was made when key k had outlasted its record. *)
Superseded(p, k) == \E s \in spent : s.rider = p /\ k \in s.late

(* A live key is the recorded credential, the issuance in doubt, or outlasts *)
(* its record. *)
OnRecord ==
    \A p \in Rider, k \in 1..MaxIssued :
        keys[k] = p /\ k \notin dead \cup dropped =>
            k = admission.credential[p] \/ k = admission.pending[p] \/ Superseded(p, k)

(* While an issuance is in doubt, the credential before it is dead or        *)
(* outlasts its record. *)
OneInDoubt ==
    \A p \in Rider : admission.pending[p] # 0 =>
        \/ admission.credential[p] \in dead \cup {0}
        \/ Superseded(p, admission.credential[p])

(* A recorded credential is a key of its rider. *)
Recorded ==
    \A p \in Rider : admission.credential[p] # 0 => keys[admission.credential[p]] = p

(* What a reservation knows of the keys made before. *)
Overtaken ==
    \A s \in spent : \A k \in 1..MaxIssued :
        keys[k] = s.rider /\ k < s.issuance /\ k \notin dead \cup dropped => k \in s.late

(* Keys come from reservations, and what outlasted its record when one was   *)
(* made is gone before it lapses. *)
LateLapsed == \A s \in spent : s.late \subseteq lapsed
LateGone == \A s \in spent : s.issuance \in lapsed => s.late \subseteq dead
Issued == (\A s \in spent : s.issuance <= issued) /\ (\A k \in lapsed : k <= issued)
KeysReserved ==
    \A k \in 1..MaxIssued : keys[k] # 0 =>
        \E s \in spent : s.issuance = k /\ s.rider = keys[k]
SpentFits == LateLapsed /\ LateGone /\ Issued /\ KeysReserved

(* The request that holds the lock is the newest issuance, on record as in   *)
(* doubt, and its key exists once the provider was asked. *)
JoinFits ==
    join # Admission!NoJoin =>
        /\ join.key = issued /\ admission.pending[join.rider] = join.key
        /\ ~join.minted => keys[join.key] = 0
        /\ join.minted => keys[join.key] = join.rider
        /\ \E s \in spent : s.issuance = join.key /\ s.rider = join.rider

Unissued == \A k \in 1..MaxIssued : k > issued => keys[k] = 0

(* What a leave left behind is left to cleanup. *)
LeftToCleanup ==
    /\ dropped # {} => admission.cleanup
    /\ \A p \in Rider \ admission.roster : admission.credential[p] # 0 => admission.cleanup

InvitationsPay == \A s \in spent : admission.invitations[s.invitation] = "used"

KeysInv ==
    /\ AdmissionTypes
    /\ OnRecord /\ OneInDoubt /\ Recorded /\ Overtaken /\ SpentFits /\ JoinFits /\ Unissued /\ LeftToCleanup
    /\ admission.revoked \subseteq dead
    /\ InvitationsPay /\ Admission!InvitationAdmitsOnce

(* Issuances and invitations are counted, and 0 names no rider. *)
AdmissionBounds == MaxIssued \in Nat /\ 0 \notin Rider /\ Invitation \subseteq Nat

LEMMA KeysInit == ASSUME AdmissionBounds, Admission!Init PROVE KeysInv
<1>1. AdmissionTypes
  BY DEF AdmissionBounds, Admission!Init, AdmissionTypes, Roll, Issuance
<1>2. /\ spent = {} /\ lapsed = {} /\ dropped = {} /\ join = Admission!NoJoin
      /\ \A k \in 1..MaxIssued : keys[k] = 0
      /\ \A p \in Rider : admission.credential[p] = 0 /\ admission.pending[p] = 0
      /\ admission.revoked = {}
  BY DEF Admission!Init
<1>3. OnRecord /\ OneInDoubt /\ Recorded /\ Overtaken /\ Unissued
  BY <1>2 DEF OnRecord, OneInDoubt, Recorded, Overtaken, Unissued, AdmissionBounds
<1>4. SpentFits /\ JoinFits /\ LeftToCleanup
  BY <1>2 DEF SpentFits, LateLapsed, LateGone, Issued, KeysReserved, JoinFits, LeftToCleanup
<1>5. InvitationsPay /\ Admission!InvitationAdmitsOnce /\ admission.revoked \subseteq dead
  BY <1>2 DEF InvitationsPay, Admission!InvitationAdmitsOnce
<1> QED BY <1>1, <1>3, <1>4, <1>5 DEF KeysInv

(* A step that leaves the credentials, the issuances in doubt and the keys   *)
(* as they are; keys may die, cleanup may be asked for. *)
LEMMA KeysAlone ==
    ASSUME AdmissionBounds, KeysInv, AdmissionTypes',
           admission'.credential = admission.credential,
           admission'.pending = admission.pending,
           admission'.revoked = admission.revoked,
           admission'.roster = admission.roster,
           admission.cleanup => admission'.cleanup,
           \A i \in Invitation : admission.invitations[i] = "used" =>
                                     admission'.invitations[i] = "used",
           UNCHANGED <<issued, keys, spent, dropped>>,
           join' = join \/ join' = Admission!NoJoin,
           dead \subseteq dead', lapsed \subseteq lapsed',
           \A k \in lapsed' \ lapsed : /\ k <= issued
                                       /\ \A s \in spent : s.issuance = k => s.late \subseteq dead
    PROVE  KeysInv'
<1>1. OnRecord' /\ OneInDoubt' /\ Unissued' /\ admission'.revoked \subseteq dead'
  BY DEF KeysInv, OnRecord, OneInDoubt, Unissued, Superseded
<1>5. Recorded' /\ Overtaken'
  BY DEF KeysInv, Recorded, Overtaken
<1>6. SpentFits'
  <2>1. LateLapsed' /\ KeysReserved'
    BY DEF KeysInv, SpentFits, LateLapsed, KeysReserved
  <2>2. Issued'
    BY DEF KeysInv, SpentFits, Issued
  <2>3. LateGone'
    BY DEF KeysInv, SpentFits, LateGone
  <2> QED BY <2>1, <2>2, <2>3 DEF SpentFits
<1>2. JoinFits'
  BY DEF KeysInv, JoinFits
<1>3. LeftToCleanup'
  BY DEF KeysInv, LeftToCleanup
<1>4. InvitationsPay' /\ Admission!InvitationAdmitsOnce'
  <2>1. \A s \in spent : s.invitation \in Invitation
    BY DEF KeysInv, AdmissionTypes, Spending
  <2> QED BY <2>1 DEF KeysInv, InvitationsPay, Admission!InvitationAdmitsOnce
<1> QED BY <1>1, <1>2, <1>3, <1>4, <1>5, <1>6 DEF KeysInv

LEMMA QuietAdmission ==
    ASSUME AdmissionBounds, KeysInv,
           \/ \E i \in Invitation : Admission!CreateInvitation(i) \/ Admission!InvitationExpires(i)
           \/ \E p \in Rider, r \in 1..2 : Admission!JoinAgain(p, r)
           \/ Admission!AbandonJoin
           \/ \E p \in Rider : Admission!AuthorizeLeave(p)
           \/ Admission!Start \/ Admission!Close \/ Admission!AttemptAges
           \/ \E k \in 1..MaxIssued : Admission!RecordLapses(k) \/ Admission!KeyExpires(k)
           \/ UNCHANGED Admission!vars
    PROVE  KeysInv'
<1>0. AdmissionTypes /\ admission \in Roll
  BY DEF KeysInv, AdmissionTypes
<1>1. ASSUME NEW i \in Invitation, Admission!CreateInvitation(i) \/ Admission!InvitationExpires(i) PROVE KeysInv'
  <2>1. PICK v \in {"live", "expired"} : admission' = [admission EXCEPT !.invitations[i] = v]
    BY <1>1 DEF Admission!CreateInvitation, Admission!InvitationExpires
  <2>2. admission.invitations[i] # "used"
    <3>1. CASE Admission!CreateInvitation(i)
      <4>1. admission.invitations[i] = "none"
        BY <3>1 DEF Admission!CreateInvitation, AdmissionBounds
      <4> QED BY <4>1
    <3>2. CASE Admission!InvitationExpires(i)
      BY <3>2 DEF Admission!InvitationExpires
    <3> QED BY <1>1, <3>1, <3>2
  <2>3. /\ admission' \in Roll
        /\ admission'.credential = admission.credential /\ admission'.pending = admission.pending
        /\ admission'.revoked = admission.revoked /\ admission'.roster = admission.roster
        /\ admission'.cleanup = admission.cleanup
        /\ \A j \in Invitation : j # i => admission'.invitations[j] = admission.invitations[j]
    BY ONLY <1>0, <2>1, i \in Invitation DEF Roll
  <2>4. UNCHANGED <<join, issued, keys, lapsed, dead, spent, leaving, dropped>>
    BY <1>1 DEF Admission!CreateInvitation, Admission!InvitationExpires
  <2>5. AdmissionTypes'
    BY <1>0, <2>3, <2>4 DEF AdmissionTypes
  <2> QED BY <2>2, <2>3, <2>4, <2>5, KeysAlone
<1>2. ASSUME NEW p \in Rider, NEW r \in 1..2, Admission!JoinAgain(p, r) PROVE KeysInv'
  <2>1. admission' = [admission EXCEPT !.replays = @ \cup {[request |-> r, rider |-> p]}]
    BY <1>2 DEF Admission!JoinAgain
  <2>2. /\ admission' \in Roll
        /\ admission'.credential = admission.credential /\ admission'.pending = admission.pending
        /\ admission'.revoked = admission.revoked /\ admission'.roster = admission.roster
        /\ admission'.cleanup = admission.cleanup
        /\ admission'.invitations = admission.invitations
    BY ONLY <1>0, <2>1, p \in Rider, r \in 1..2 DEF Roll
  <2>3. UNCHANGED <<join, issued, keys, lapsed, dead, spent, leaving, dropped>>
    BY <1>2 DEF Admission!JoinAgain
  <2>4. AdmissionTypes'
    BY <1>0, <2>2, <2>3 DEF AdmissionTypes
  <2> QED BY <2>2, <2>3, <2>4, KeysAlone
<1>3. CASE Admission!AbandonJoin
  <2>1. AdmissionTypes'
    BY <1>0, <1>3 DEF AdmissionTypes, Admission!AbandonJoin
  <2> QED BY <1>3, <2>1, KeysAlone DEF Admission!AbandonJoin
<1>4. ASSUME NEW p \in Rider, Admission!AuthorizeLeave(p) PROVE KeysInv'
  <2>1. AdmissionTypes'
    BY <1>0, <1>4 DEF AdmissionTypes, Admission!AuthorizeLeave
  <2> QED BY <1>4, <2>1, KeysAlone DEF Admission!AuthorizeLeave
<1>5. CASE Admission!Start \/ Admission!Close \/ Admission!AttemptAges
  <2>1. \/ admission' = [admission EXCEPT !.state = "InMatch"]
        \/ admission' = [admission EXCEPT !.state = "Closing", !.cleanup = TRUE]
        \/ admission' = [admission EXCEPT !.attempts = Tail(@)] /\ admission.attempts # <<>>
    BY <1>5 DEF Admission!Start, Admission!Close, Admission!AttemptAges
  <2>2. /\ admission' \in Roll
        /\ admission'.credential = admission.credential /\ admission'.pending = admission.pending
        /\ admission'.revoked = admission.revoked /\ admission'.roster = admission.roster
        /\ admission.cleanup => admission'.cleanup
        /\ admission'.invitations = admission.invitations
    <3>1. admission.attempts # <<>> => Tail(admission.attempts) \in Seq(Rider)
      BY <1>0 DEF Roll
    <3> QED BY ONLY <1>0, <2>1, <3>1 DEF Roll
  <2>3. UNCHANGED <<join, issued, keys, lapsed, dead, spent, leaving, dropped>>
    BY <1>5 DEF Admission!Start, Admission!Close, Admission!AttemptAges
  <2>4. AdmissionTypes'
    BY <1>0, <2>2, <2>3 DEF AdmissionTypes
  <2> QED BY <2>2, <2>3, <2>4, KeysAlone
<1>6. ASSUME NEW k \in 1..MaxIssued, Admission!KeyExpires(k) PROVE KeysInv'
  <2>1. k \in Issuance
    BY DEF Issuance, AdmissionBounds
  <2>2. AdmissionTypes'
    BY <1>0, <1>6, <2>1 DEF AdmissionTypes, Admission!KeyExpires
  <2> QED BY <1>6, <2>2, KeysAlone DEF Admission!KeyExpires
<1>8. ASSUME NEW k \in 1..MaxIssued, Admission!RecordLapses(k) PROVE KeysInv'
  <2>1. /\ k \in 1..issued /\ issued \in Nat
        /\ \A s \in spent : s.issuance = k => s.late \subseteq dead
        /\ lapsed' = lapsed \cup {k}
        /\ UNCHANGED <<admission, join, issued, keys, dead, spent, leaving, dropped>>
    BY <1>0, <1>8 DEF Admission!RecordLapses, AdmissionTypes, Issuance, AdmissionBounds
  <2>2. AdmissionTypes'
    BY <1>0, <2>1 DEF AdmissionTypes
  <2> QED BY <2>1, <2>2, KeysAlone
<1>7. CASE UNCHANGED Admission!vars
  <2>1. AdmissionTypes'
    BY <1>0, <1>7 DEF AdmissionTypes, Admission!vars
  <2> QED BY <1>7, <2>1, KeysAlone DEF Admission!vars
<1> QED BY <1>1, <1>2, <1>3, <1>4, <1>5, <1>6, <1>7, <1>8

(* The reservation: what the rider had before is dead or outlasts its        *)
(* record, its new issuance is in doubt. *)
LEMMA ReserveKeeps ==
    ASSUME AdmissionBounds, KeysInv, NEW p \in Rider, NEW r \in 1..2, NEW i \in Invitation, Admission!Reserve(p, r, i)
    PROVE  KeysInv'
<1> DEFINE n == issued + 1
<1> DEFINE new == [invitation |-> i, issuance |-> n, rider |-> p, late |-> Admission!Outlasting]
<1>0. /\ AdmissionTypes /\ admission \in Roll /\ OnRecord /\ OneInDoubt /\ Recorded
      /\ Overtaken /\ SpentFits /\ Unissued /\ LeftToCleanup
      /\ admission.revoked \subseteq dead /\ InvitationsPay /\ Admission!InvitationAdmitsOnce
  BY DEF KeysInv, AdmissionTypes
<1>1. n \in 1..MaxIssued /\ n \in Issuance /\ issued \in Nat
  BY <1>0 DEF AdmissionTypes, Issuance, AdmissionBounds, Admission!Reserve
<1> HIDE DEF n
<1>2. admission' = [admission EXCEPT !.invitations[i] = "used", !.pending[p] = n,
                                     !.attempts = Append(@, p)]
  BY DEF Admission!Reserve, Admission!Reservation, n
<1>3. Append(admission.attempts, p) \in Seq(Rider)
  BY <1>0 DEF Roll
<1>4. /\ admission' \in Roll
      /\ admission'.credential = admission.credential
      /\ admission'.pending[p] = n
      /\ \A q \in Rider : q # p => admission'.pending[q] = admission.pending[q]
      /\ admission'.revoked = admission.revoked /\ admission'.roster = admission.roster
      /\ admission'.cleanup = admission.cleanup
      /\ admission'.invitations[i] = "used"
      /\ \A j \in Invitation : j # i => admission'.invitations[j] = admission.invitations[j]
  BY ONLY <1>0, <1>1, <1>2, <1>3, p \in Rider, i \in Invitation DEF Roll
<1>5. /\ join' = [rider |-> p, key |-> n, request |-> r, minted |-> FALSE]
      /\ issued' = n /\ spent' = spent \cup {new}
      /\ UNCHANGED <<keys, lapsed, dead, leaving, dropped>>
  BY DEF Admission!Reserve, n
<1>6. AdmissionTypes'
  <2>1. join' \in Joining
    BY <1>1, <1>5 DEF Joining
  <2>2. new \in Spending
    BY <1>0, <1>1 DEF Spending, AdmissionTypes, Admission!Outlasting
  <2> QED BY <1>0, <1>1, <1>4, <1>5, <2>1, <2>2 DEF AdmissionTypes
<1>14. /\ new.invitation = i /\ new.issuance = n /\ new.rider = p
       /\ new.late \subseteq lapsed
       /\ \A k \in lapsed : keys[k] # 0 /\ k \notin dead => k \in new.late
  BY DEF Admission!Outlasting
<1> HIDE DEF new
<1>15. ASSUME NEW q, NEW k, Superseded(q, k) PROVE Superseded(q, k)'
  BY <1>5, <1>15 DEF Superseded
<1>7. /\ admission.credential[p] \in dead \cup lapsed \cup {0}
      /\ admission.pending[p] \in lapsed \cup {0}
      /\ admission.invitations[i] = "live"
  BY <1>0 DEF Admission!Reserve, Admission!Admits, Admission!LiveCredential
<1>16. ASSUME NEW k \in 1..MaxIssued, keys[k] = p, k \notin dead \cup dropped
       PROVE  k \in new.late
  <2>1. keys[k] # 0 /\ k # 0
    BY <1>16 DEF AdmissionBounds
  <2>2. k \in lapsed
    <3>1. CASE Superseded(p, k)
      BY <1>0, <3>1 DEF Superseded, SpentFits, LateLapsed
    <3>2. CASE k = admission.credential[p] \/ k = admission.pending[p]
      BY <1>7, <1>16, <2>1, <3>2
    <3> QED BY <1>0, <1>16, <3>1, <3>2 DEF OnRecord
  <2> QED BY <1>14, <1>16, <2>1, <2>2
<1>8. OnRecord'
  <2> SUFFICES ASSUME NEW q \in Rider, NEW k \in 1..MaxIssued, keys[k] = q, k \notin dead \cup dropped
               PROVE  k = admission'.credential[q] \/ k = admission'.pending[q] \/ Superseded(q, k)'
    BY <1>5 DEF OnRecord
  <2>1. CASE q = p
    BY <1>5, <1>14, <1>16, <2>1 DEF Superseded
  <2>2. CASE q # p
    BY <1>0, <1>4, <1>15, <2>2 DEF OnRecord
  <2> QED BY <2>1, <2>2
<1>9. OneInDoubt'
  <2> SUFFICES ASSUME NEW q \in Rider, admission'.pending[q] # 0,
                      admission.credential[q] \notin dead \cup {0}
               PROVE  Superseded(q, admission.credential[q])'
    BY <1>4, <1>5 DEF OneInDoubt
  <2>1. CASE q = p
    <3>1. /\ admission.credential[p] \in lapsed /\ keys[admission.credential[p]] = p
          /\ admission.credential[p] \notin dead /\ p # 0
      BY <1>0, <1>7, <2>1 DEF Recorded, AdmissionBounds
    <3>2. admission.credential[p] \in new.late
      BY <1>14, <3>1
    <3>3. new \in spent' /\ new.rider = p
      BY <1>5, <1>14
    <3> QED BY <1>4, <2>1, <3>2, <3>3 DEF Superseded
  <2>2. CASE q # p
    BY <1>0, <1>4, <1>15, <2>2 DEF OneInDoubt
  <2> QED BY <2>1, <2>2
<1>17. Recorded'
  BY <1>0, <1>4, <1>5 DEF Recorded
<1>18. Overtaken'
  BY <1>0, <1>5, <1>14, <1>16 DEF Overtaken
<1>19. SpentFits'
  <2>1. ASSUME NEW s \in spent' PROVE /\ s.issuance <= n /\ s.late \subseteq lapsed
                                      /\ s.issuance \in lapsed => s.late \subseteq dead
    <3>1. CASE s = new
      <4>1. n \notin lapsed
        BY <1>0, <1>1 DEF SpentFits, Issued, n
      <4> QED BY <1>1, <1>14, <3>1, <4>1
    <3>2. CASE s \in spent
      <4>1. s.issuance \in Nat
        BY <1>0, <3>2 DEF AdmissionTypes, Spending, AdmissionBounds
      <4>2. s.issuance <= issued /\ s.late \subseteq lapsed
        BY <1>0, <3>2 DEF SpentFits, Issued, LateLapsed
      <4>3. s.issuance \in lapsed => s.late \subseteq dead
        BY <1>0, <3>2 DEF SpentFits, LateGone
      <4>4. issued <= n
        BY <1>1 DEF n
      <4> QED BY <1>1, <4>1, <4>2, <4>3, <4>4
    <3> QED BY <1>5, <2>1, <3>1, <3>2
  <2>2. \A k \in lapsed : k <= n
    BY <1>0, <1>1 DEF SpentFits, Issued, n, AdmissionTypes, AdmissionBounds
  <2>3. KeysReserved'
    BY <1>0, <1>5 DEF SpentFits, KeysReserved
  <2>4. LateLapsed' /\ LateGone'
    BY <1>5, <2>1 DEF LateLapsed, LateGone
  <2>5. Issued'
    BY <1>5, <2>1, <2>2 DEF Issued
  <2> QED BY <2>3, <2>4, <2>5 DEF SpentFits
<1>10. JoinFits'
  <2>1. keys[n] = 0
    BY <1>0, <1>1 DEF Unissued, n
  <2> QED BY <1>4, <1>5, <1>14, <2>1 DEF JoinFits
<1>11. Unissued'
  BY <1>0, <1>1, <1>5 DEF Unissued, n
<1>12. LeftToCleanup'
  BY <1>0, <1>4, <1>5 DEF LeftToCleanup
<1>13. InvitationsPay' /\ Admission!InvitationAdmitsOnce'
  <2>1. \A s \in spent : s.invitation \in Invitation /\ s.invitation # i
    BY <1>0, <1>7 DEF AdmissionTypes, Spending, InvitationsPay
  <2> QED BY <1>0, <1>4, <1>5, <1>14, <2>1 DEF InvitationsPay, Admission!InvitationAdmitsOnce
<1> QED BY <1>0, <1>4, <1>5, <1>6, <1>8, <1>9, <1>10, <1>11, <1>12, <1>13,
           <1>17, <1>18, <1>19 DEF KeysInv

(* The key is made while its issuance is in doubt. *)
LEMMA MintKeeps ==
    ASSUME AdmissionBounds, KeysInv, Admission!MintCredential
    PROVE  KeysInv'
<1>0. /\ AdmissionTypes /\ OnRecord /\ Recorded /\ Overtaken /\ SpentFits /\ JoinFits /\ Unissued
  BY DEF KeysInv
<1>1. /\ join \in Joining /\ join.key \in 1..MaxIssued /\ join.rider \in Rider
      /\ admission.pending[join.rider] = join.key /\ join.key = issued
      /\ keys[join.key] = 0 /\ \E s \in spent : s.issuance = join.key /\ s.rider = join.rider
  BY <1>0 DEF AdmissionTypes, Joining, Admission!MintCredential, JoinFits
<1>2. /\ keys' \in [1..MaxIssued -> Rider \cup {0}]
      /\ keys'[join.key] = join.rider
      /\ \A k \in 1..MaxIssued : k # join.key => keys'[k] = keys[k]
  BY <1>0, <1>1 DEF AdmissionTypes, Admission!MintCredential
<1>3. /\ join' \in Joining /\ join'.key = join.key /\ join'.rider = join.rider /\ join'.minted
  <2>1. join' = [join EXCEPT !.minted = TRUE]
    BY DEF Admission!MintCredential
  <2> QED BY ONLY <1>1, <2>1 DEF Joining
<1>4. UNCHANGED <<admission, issued, lapsed, dead, spent, leaving, dropped>>
  BY DEF Admission!MintCredential
<1>5. AdmissionTypes'
  BY <1>0, <1>2, <1>3, <1>4 DEF AdmissionTypes
<1>6. OnRecord'
  BY <1>0, <1>1, <1>2, <1>4 DEF OnRecord, Superseded
<1>10. Recorded'
  <2> SUFFICES ASSUME NEW p \in Rider, admission.credential[p] # 0
               PROVE  keys'[admission.credential[p]] = p
    BY <1>4 DEF Recorded
  <2>1. keys[admission.credential[p]] = p /\ admission.credential[p] \in 1..MaxIssued
    BY <1>0 DEF Recorded, AdmissionTypes, Roll, Issuance, AdmissionBounds
  <2> QED BY <1>1, <1>2, <2>1 DEF AdmissionBounds
<1>11. Overtaken'
  <2> SUFFICES ASSUME NEW s \in spent, NEW k \in 1..MaxIssued, keys'[k] = s.rider,
                      k < s.issuance, k \notin dead \cup dropped
               PROVE  k \in s.late
    BY <1>4 DEF Overtaken
  <2>1. k # join.key
    <3>1. s.issuance \in Nat /\ issued \in Nat /\ s.issuance <= issued
      BY <1>0 DEF SpentFits, Issued, AdmissionTypes, Spending, Issuance, AdmissionBounds
    <3> QED BY <1>1, <3>1
  <2> QED BY <1>0, <1>2, <2>1 DEF Overtaken
<1>12. SpentFits'
  <2>1. KeysReserved'
    BY <1>0, <1>1, <1>2, <1>4 DEF SpentFits, KeysReserved
  <2> QED BY <1>0, <1>4, <2>1 DEF SpentFits, LateLapsed, LateGone, Issued
<1>7. JoinFits'
  BY <1>1, <1>2, <1>3, <1>4 DEF JoinFits
<1>8. Unissued'
  BY <1>0, <1>1, <1>2, <1>4 DEF Unissued, AdmissionTypes, Issuance, AdmissionBounds
<1>9. /\ OneInDoubt' /\ LeftToCleanup' /\ admission'.revoked \subseteq dead'
      /\ InvitationsPay' /\ Admission!InvitationAdmitsOnce'
  BY <1>4 DEF KeysInv, OneInDoubt, Superseded, LeftToCleanup, InvitationsPay, Admission!InvitationAdmitsOnce
<1> QED BY <1>5, <1>6, <1>7, <1>8, <1>9, <1>10, <1>11, <1>12 DEF KeysInv

(* The issuance becomes the credential, or is given up as never made. *)
LEMMA JoinAnswerKeeps ==
    ASSUME AdmissionBounds, KeysInv, Admission!RecordJoin \/ Admission!RefuseJoin
    PROVE  KeysInv'
<1>0. /\ AdmissionTypes /\ admission \in Roll /\ OnRecord /\ OneInDoubt /\ JoinFits /\ Unissued
      /\ Recorded /\ Overtaken /\ SpentFits
      /\ LeftToCleanup /\ admission.revoked \subseteq dead /\ InvitationsPay /\ Admission!InvitationAdmitsOnce
  BY DEF KeysInv, AdmissionTypes
<1> DEFINE p == join.rider
<1>1. /\ join \in Joining /\ join.key \in 1..MaxIssued /\ join.key \in Issuance /\ p \in Rider
      /\ join.request \in 1..2 /\ 0 \in Issuance
      /\ admission.pending[p] = join.key /\ join.key = issued
      /\ join.key # 0
      /\ ~join.minted => keys[join.key] = 0
      /\ join.minted => keys[join.key] = p
  <2>1. join # Admission!NoJoin
    BY DEF Admission!RecordJoin, Admission!RefuseJoin, Admission!NoJoin
  <2> QED BY <1>0, <2>1 DEF AdmissionTypes, Joining, JoinFits, Issuance, AdmissionBounds
<1>2. /\ join' = Admission!NoJoin
      /\ UNCHANGED <<issued, keys, lapsed, dead, spent, leaving, dropped>>
  BY DEF Admission!RecordJoin, Admission!RefuseJoin
<1>3. admission.credential[p] \in dead \cup {0} \/ Superseded(p, admission.credential[p])
  BY <1>0, <1>1 DEF OneInDoubt
<1>6. Overtaken' /\ SpentFits' /\ \A q, k : Superseded(q, k)' = Superseded(q, k)
  BY <1>0, <1>2 DEF Overtaken, SpentFits, LateLapsed, LateGone, Issued, KeysReserved, Superseded
<1> HIDE DEF p
<1>4. CASE Admission!RecordJoin
  <2> DEFINE in == admission.roster \cup {p}
  <2> DEFINE may == admission.capable \cup {p}
  <2> DEFINE told == admission.replays \cup {[request |-> join.request, rider |-> p]}
  <2>0. /\ in \in SUBSET Rider /\ may \in SUBSET Rider
        /\ told \in SUBSET [request : 1..2, rider : Rider]
    BY <1>0, <1>1 DEF Roll
  <2>1. admission' = [admission EXCEPT !.pending[p] = 0, !.roster = in, !.capable = may,
                                       !.credential[p] = join.key, !.replays = told]
    BY <1>4 DEF Admission!RecordJoin, p
  <2> HIDE DEF may, told, in
  <2>2. /\ admission' \in Roll
        /\ admission'.pending[p] = 0 /\ admission'.credential[p] = join.key
        /\ \A q \in Rider : q # p => /\ admission'.pending[q] = admission.pending[q]
                                     /\ admission'.credential[q] = admission.credential[q]
        /\ admission'.roster = in
        /\ admission'.revoked = admission.revoked /\ admission'.cleanup = admission.cleanup
        /\ admission'.invitations = admission.invitations
    BY ONLY <1>0, <1>1, <2>0, <2>1 DEF Roll
  <2>3. AdmissionTypes'
    BY <1>0, <1>2, <2>2 DEF AdmissionTypes
  <2>4. OnRecord'
    BY <1>0, <1>1, <1>2, <1>3, <1>6, <2>2 DEF OnRecord, AdmissionBounds
  <2>7. Recorded'
    <3>1. join.minted
      BY <1>4 DEF Admission!RecordJoin
    <3> QED BY <1>0, <1>1, <1>2, <2>2, <3>1 DEF Recorded
  <2>5. OneInDoubt' /\ JoinFits' /\ Unissued' /\ LeftToCleanup'
    BY <1>0, <1>2, <1>6, <2>2 DEF OneInDoubt, JoinFits, Unissued, LeftToCleanup, in
  <2>6. InvitationsPay' /\ Admission!InvitationAdmitsOnce'
    BY <1>0, <1>2, <2>2 DEF InvitationsPay, Admission!InvitationAdmitsOnce
  <2> QED BY <1>0, <1>2, <1>6, <2>2, <2>3, <2>4, <2>5, <2>6, <2>7 DEF KeysInv
<1>5. CASE Admission!RefuseJoin
  <2>1. PICK ambiguous \in BOOLEAN :
            /\ join.minted => ambiguous
            /\ admission' = Admission!MintFailed(admission, p, ambiguous)
    BY <1>5 DEF Admission!RefuseJoin, p
  <2>2. PICK e \in {join.key, 0} :
            /\ admission' = [admission EXCEPT !.state = "Failed", !.cleanup = TRUE, !.pending[p] = e]
            /\ e = 0 => ~join.minted
    <3>1. CASE ambiguous
      BY <1>1, <2>1, <3>1 DEF Admission!MintFailed
    <3>2. CASE ~ambiguous
      BY <1>1, <2>1, <3>2 DEF Admission!MintFailed
    <3> QED BY <3>1, <3>2
  <2>3. /\ admission' \in Roll
        /\ admission'.pending[p] = e
        /\ \A q \in Rider : q # p => admission'.pending[q] = admission.pending[q]
        /\ admission'.credential = admission.credential
        /\ admission'.roster = admission.roster
        /\ admission'.revoked = admission.revoked /\ admission'.cleanup = TRUE
        /\ admission'.invitations = admission.invitations
    BY ONLY <1>0, <1>1, <2>2 DEF Roll
  <2>4. AdmissionTypes'
    BY <1>0, <1>2, <2>3 DEF AdmissionTypes
  <2>5. OnRecord'
    BY <1>0, <1>1, <1>2, <1>6, <2>2, <2>3 DEF OnRecord, AdmissionBounds
  <2>8. Recorded'
    BY <1>0, <1>2, <2>3 DEF Recorded
  <2>6. OneInDoubt' /\ JoinFits' /\ Unissued' /\ LeftToCleanup'
    BY <1>0, <1>1, <1>2, <1>3, <1>6, <2>3 DEF OneInDoubt, JoinFits, Unissued, LeftToCleanup
  <2>7. InvitationsPay' /\ Admission!InvitationAdmitsOnce'
    BY <1>0, <1>2, <2>3 DEF InvitationsPay, Admission!InvitationAdmitsOnce
  <2> QED BY <1>0, <1>2, <1>6, <2>3, <2>4, <2>5, <2>6, <2>7, <2>8 DEF KeysInv
<1> QED BY <1>4, <1>5

(* A leave forgets an issuance in doubt; the credential it could not revoke  *)
(* stays on record. *)
LEMMA DepartureKeeps ==
    ASSUME AdmissionBounds, KeysInv, NEW p \in Rider, Admission!Leave(p)
    PROVE  KeysInv'
<1>0. /\ AdmissionTypes /\ admission \in Roll /\ OnRecord /\ OneInDoubt /\ JoinFits /\ Unissued
      /\ Recorded /\ Overtaken /\ SpentFits
      /\ LeftToCleanup /\ admission.revoked \subseteq dead /\ InvitationsPay /\ Admission!InvitationAdmitsOnce
  BY DEF KeysInv, AdmissionTypes
<1>1. /\ join = Admission!NoJoin /\ leaving' \subseteq Rider
      /\ UNCHANGED <<join, issued, keys, lapsed, spent>>
  BY <1>0 DEF Admission!Leave, Admission!Unlocked, AdmissionTypes
<1>2. CASE UNCHANGED <<admission, dead, dropped>>
  <2>1. AdmissionTypes'
    BY <1>0, <1>1, <1>2 DEF AdmissionTypes
  <2> QED BY <1>1, <1>2, <2>1, KeysAlone
<1>3. ASSUME NEW done \in BOOLEAN,
             admission' = Admission!Departed(admission, p, done),
             dead' = IF done THEN dead \cup {admission.credential[p]} ELSE dead,
             dropped' = dropped \cup ({admission.pending[p]} \ {0})
      PROVE  KeysInv'
  <2> DEFINE gone == IF done THEN admission.revoked \cup {admission.credential[p]}
                     ELSE admission.revoked
  <2> DEFINE left == {r \in admission.replays : r.rider # p}
  <2>1. admission' = [admission EXCEPT !.roster = @ \ {p}, !.pending[p] = 0, !.capable = @ \ {p},
                                       !.replays = left, !.revoked = gone, !.cleanup = TRUE]
    BY <1>3 DEF Admission!Departed
  <2>2. /\ gone \in SUBSET Issuance /\ gone \subseteq dead'
        /\ dead' \subseteq Issuance /\ dropped' \subseteq Issuance /\ dead \subseteq dead' /\ 0 \in Issuance
        /\ left \in SUBSET [request : 1..2, rider : Rider]
    <3>1. /\ admission.credential[p] \in Issuance /\ admission.pending[p] \in Issuance
          /\ admission.revoked \subseteq Issuance /\ dead \subseteq Issuance /\ dropped \subseteq Issuance
      BY <1>0 DEF AdmissionTypes, Roll
    <3>2. left \in SUBSET [request : 1..2, rider : Rider] /\ 0 \in Issuance
      BY <1>0 DEF Roll, Issuance, AdmissionBounds
    <3>3. CASE done
      BY <1>0, <1>3, <3>1, <3>2, <3>3
    <3>4. CASE ~done
      BY <1>0, <1>3, <3>1, <3>2, <3>4
    <3> QED BY <3>3, <3>4
  <2> HIDE DEF gone, left
  <2>3. /\ admission' \in Roll
        /\ admission'.pending[p] = 0
        /\ \A q \in Rider : q # p => admission'.pending[q] = admission.pending[q]
        /\ admission'.credential = admission.credential
        /\ admission'.revoked = gone /\ admission'.cleanup = TRUE
        /\ admission'.invitations = admission.invitations
    BY ONLY <1>0, <2>1, <2>2, p \in Rider DEF Roll
  <2>4. AdmissionTypes'
    BY <1>0, <1>1, <2>2, <2>3 DEF AdmissionTypes
  <2>5. OnRecord'
    <3> SUFFICES ASSUME NEW q \in Rider, NEW k \in 1..MaxIssued, keys[k] = q,
                        k \notin dead' \cup dropped'
                 PROVE  k = admission'.credential[q] \/ k = admission'.pending[q] \/ Superseded(q, k)
      BY <1>1 DEF OnRecord, Superseded
    <3>1. k \notin dead \cup dropped /\ k # 0
      BY <1>3, <2>2 DEF AdmissionBounds
    <3>2. k = admission.credential[q] \/ k = admission.pending[q] \/ Superseded(q, k)
      BY <1>0, <3>1 DEF OnRecord
    <3> QED BY <1>3, <2>3, <3>1, <3>2
  <2>6. OneInDoubt' /\ JoinFits' /\ Unissued' /\ LeftToCleanup'
    BY <1>0, <1>1, <2>2, <2>3 DEF OneInDoubt, Superseded, JoinFits, Unissued, LeftToCleanup
  <2>8. Recorded' /\ Overtaken' /\ SpentFits'
    BY <1>0, <1>1, <1>3, <2>2, <2>3
    DEF Recorded, Overtaken, SpentFits, LateLapsed, LateGone, Issued, KeysReserved
  <2>7. InvitationsPay' /\ Admission!InvitationAdmitsOnce'
    BY <1>0, <1>1, <2>3 DEF InvitationsPay, Admission!InvitationAdmitsOnce
  <2> QED BY <2>2, <2>3, <2>4, <2>5, <2>6, <2>7, <2>8 DEF KeysInv
<1> QED BY <1>2, <1>3 DEF Admission!Leave

LEMMA KeysStep == ASSUME AdmissionBounds, KeysInv, [Admission!Next]_Admission!vars PROVE KeysInv'
<1>1. ASSUME NEW p \in Rider, NEW r \in 1..2, NEW i \in Invitation, Admission!Reserve(p, r, i)
      PROVE  KeysInv'
  BY <1>1, ReserveKeeps
<1>2. CASE Admission!MintCredential \/ Admission!RecordJoin \/ Admission!RefuseJoin
  BY <1>2, MintKeeps, JoinAnswerKeeps
<1>3. ASSUME NEW p \in Rider, Admission!Leave(p) PROVE KeysInv'
  BY <1>3, DepartureKeeps
<1> QED BY <1>1, <1>2, <1>3, QuietAdmission DEF Admission!Next

LEMMA KeysInvSuffices == ASSUME AdmissionBounds, KeysInv PROVE Admission!KeysAreAccountedFor
<1> USE DEF KeysInv
<1>0. ASSUME NEW p \in Rider, NEW k \in Admission!LiveKeys(p) \ dropped,
             NEW l \in Admission!LiveKeys(p) \ dropped, k < l
      PROVE  /\ k \in lapsed
             /\ \E s \in spent : s.issuance = l /\ s.rider = p /\ k \in s.late
  <2>1. /\ k \in 1..MaxIssued /\ keys[k] = p /\ k \notin dead \cup dropped
        /\ l \in 1..MaxIssued /\ keys[l] = p /\ p # 0
    BY DEF Admission!LiveKeys, AdmissionBounds
  <2>2. PICK s \in spent : s.issuance = l /\ s.rider = p
    BY <2>1 DEF SpentFits, KeysReserved
  <2>3. k \in s.late
    BY <1>0, <2>1, <2>2 DEF Overtaken
  <2> QED BY <2>2, <2>3 DEF SpentFits, LateLapsed
<1>1. ASSUME NEW p \in Rider
      PROVE  /\ \A k, l \in Admission!LiveKeys(p) \ (dropped \cup lapsed) : k = l
             /\ \A k, l, m \in Admission!LiveKeys(p) \ dropped : k = l \/ l = m \/ k = m
  <2>1. \A k \in Admission!LiveKeys(p) : k \in Nat /\ k \notin dead
    BY DEF Admission!LiveKeys, AdmissionBounds
  <2>2. \A k, l \in Admission!LiveKeys(p) \ (dropped \cup lapsed) : k = l
    BY <1>0, <2>1
  <2>3. ASSUME NEW k \in Admission!LiveKeys(p) \ dropped, NEW l \in Admission!LiveKeys(p) \ dropped,
               NEW m \in Admission!LiveKeys(p) \ dropped, k < l, l < m
        PROVE  FALSE
    <3>1. l \in lapsed
      BY <1>0, <2>3
    <3>2. PICK s \in spent : s.issuance = l /\ k \in s.late
      BY <1>0, <2>3
    <3> QED BY <2>1, <3>1, <3>2 DEF SpentFits, LateGone
  <2>4. ASSUME NEW k \in Admission!LiveKeys(p) \ dropped, NEW l \in Admission!LiveKeys(p) \ dropped,
               NEW m \in Admission!LiveKeys(p) \ dropped
        PROVE  k = l \/ l = m \/ k = m
    <3>1. k \in Nat /\ l \in Nat /\ m \in Nat
      BY <2>1
    <3>2. /\ ~(k < l /\ l < m) /\ ~(k < m /\ m < l) /\ ~(l < k /\ k < m)
          /\ ~(l < m /\ m < k) /\ ~(m < k /\ k < l) /\ ~(m < l /\ l < k)
      BY <2>3
    <3> QED BY ONLY <3>1, <3>2
  <2> QED BY <2>2, <2>4
<1>2. Admission!LiveKeysAreAccountedFor
  <2> SUFFICES ASSUME NEW p \in Rider, NEW k \in Admission!LiveKeys(p), ~admission.cleanup
               PROVE  \/ p \in admission.roster /\ admission.credential[p] = k
                      \/ admission.pending[p] = k
                      \/ \E s \in spent : s.rider = p /\ k \in s.late
    BY DEF Admission!LiveKeysAreAccountedFor
  <2>1. k \in 1..MaxIssued /\ keys[k] = p /\ k \notin dead /\ k # 0
    BY DEF Admission!LiveKeys, AdmissionBounds
  <2>2. dropped = {}
    BY DEF LeftToCleanup
  <2> QED BY <2>1, <2>2 DEF OnRecord, Superseded, LeftToCleanup
<1> QED
  BY <1>1, <1>2 DEF Admission!KeysAreAccountedFor, Admission!OneLiveKeyPerPlayer

(* However joins hang up, time out, crash or are refused between the         *)
(* reservation, the provider and the record, and whoever leaves meanwhile:   *)
(* but for one it left in doubt, a rider holds at most one live key whose    *)
(* record stands and at most one beside it that outlasts its record; an      *)
(* invitation pays for one issuance; and every live key is on record, left   *)
(* to a cleanup that was asked for, or the last before the newest issuance   *)
(* (join_lobby, leave_lobby).                                                *)
THEOREM AdmissionIsAccounted == AdmissionBounds => (Admission!Spec => []Admission!KeysAreAccountedFor)
<1> SUFFICES ASSUME AdmissionBounds
             PROVE  Admission!Spec => []Admission!KeysAreAccountedFor
  OBVIOUS
<1>1. Admission!Init => KeysInv
  BY KeysInit
<1>2. KeysInv /\ [Admission!Next]_Admission!vars => KeysInv'
  BY KeysStep
<1>3. KeysInv => Admission!KeysAreAccountedFor
  BY KeysInvSuffices
<1> QED BY <1>1, <1>2, <1>3, PTL DEF Admission!Spec
=============================================================================
