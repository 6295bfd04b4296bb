----------------------- MODULE CleanupSupervisorProofs -----------------------
(***************************************************************************)
(* Proofs about CleanupSupervisor for any number of crashes, I/O errors,   *)
(* reruns and restored snapshots: what a step of run_cleanup relies on is  *)
(* in the committed ledger, and a committed quarantine is final.           *)
(***************************************************************************)
EXTENDS CleanupSupervisor, TLAPS, SequenceTheorems

-----------------------------------------------------------------------------
(* The inductive invariant.                                                *)

\* The steps of run_cleanup after its first durable transition.
Running == Steps \ {"down", "fail_closed", "loaded", "permits", "cleanup_only", "returned",
                    "stopped"}

\* The steps at which an intent, an observation or a proof is already written.
Releasing == {"release", "outcome_release", "released"}
Tombstoned == {"intent_release"} \cup Releasing
VaultGone == {"tombstone"} \cup Tombstoned
Erasing == {"erase", "outcome_erase"} \cup VaultGone
SeenTwice == {"intent_erase"} \cup Erasing
Spaced == {"intent_second", "observe_second", "outcome_second", "absent_second"}
SeenOnce == {"wait"} \cup Spaced \cup SeenTwice
NetworkGone == {"absent_first"} \cup SeenOnce
Deleting == {"delete", "outcome_delete", "intent_first", "observe_first", "outcome_first"}
            \cup NetworkGone

\* What run_cleanup has at step q when its ledger is l: evidence in the ledger, and
\* the facts about the world that the evidence stands for.
Ready(q, l) ==
    /\ q \in Running \cup {"cleanup_only"} => ~Quarantined(l)
    /\ q \in Deleting => Has(l, Intent("Delete"))
    /\ q \in SeenOnce => Has(l, Absence("First"))
    /\ q \in SeenTwice => Has(l, Absence("Second"))
    /\ q \in Erasing => Has(l, Intent("VaultErase"))
    /\ q \in Tombstoned => Has(l, Note("VaultTombstoneReadback"))
    /\ q \in Releasing => Has(l, Intent("LeaseRelease"))
    /\ q \in NetworkGone \/ (q = "outcome_first" /\ result = "absent") => network = "absent"
    /\ q \in VaultGone \/ (q = "outcome_erase" /\ result = "succeeded") => vault = "erased"
    /\ q \in Spaced => elapsed

\* The entry durable_transition appends at step q.
Writes(q, e) ==
    \/ q \in {"fail_closed", "quarantine"} /\ e = Note("Quarantined")
    \/ q = "cleanup_only" /\ e = Note("CleanupOnly")
    \/ q = "intent_delete" /\ e = Intent("Delete")
    \/ q = "outcome_delete" /\ e = Outcome("Delete")
    \/ q = "intent_first" /\ e = Intent("First")
    \/ q = "outcome_first" /\ e = Outcome("First")
    \/ q = "absent_first" /\ e = Absence("First")
    \/ q = "intent_second" /\ e = Intent("Second")
    \/ q = "outcome_second" /\ e = Outcome("Second")
    \/ q = "absent_second" /\ e = Absence("Second")
    \/ q = "intent_erase" /\ e = Intent("VaultErase")
    \/ q = "outcome_erase" /\ e = Outcome("VaultErase")
    \/ q = "tombstone" /\ e = Note("VaultTombstoneReadback")
    \/ q = "intent_release" /\ e = Intent("LeaseRelease")
    \/ q = "outcome_release" /\ e = Outcome("LeaseRelease")
    \/ q = "released" /\ e = Note("Released")

\* persist took e for a repetition or an extension of the head, or for a quarantine.
Fits(e) ==
    \/ Append(ledger, e) = headFile
    \/ ledger = headFile
    \/ e = Note("Quarantined")

\* Between the two files the entry was admitted.
HalfWritten == half => \E e \in Entry : Writes(pc, e) /\ Fits(e)

\* In the middle of a run the process holds exactly the committed ledger.
Synced == pc \in Running => ledger = headFile

CInv == TypeOK /\ Ready(pc, ledger) /\ HalfWritten /\ Synced /\ CleanupInOrder

-----------------------------------------------------------------------------
(* Facts about ledgers.                                                    *)

LEMMA HasAppend ==
    ASSUME NEW l \in Seq(Entry), NEW e \in Entry
    PROVE  \A x : Has(Append(l, e), x) <=> Has(l, x) \/ x = e
<1>1. /\ DOMAIN Append(l, e) = 1..(Len(l) + 1) /\ DOMAIN l = 1..Len(l) /\ Len(l) \in Nat
      /\ Append(l, e)[Len(l) + 1] = e
      /\ \A i \in DOMAIN l : Append(l, e)[i] = l[i]
  OBVIOUS
<1>2. QED
  BY <1>1 DEF Has

\* A step writes one entry, and only some steps write.
LEMMA OneWrite ==
    ASSUME NEW q, NEW e, Writes(q, e)
    PROVE  /\ e \in Entry
           /\ \A f : Writes(q, f) => f = e
           /\ q \notin {"down", "loaded", "permits", "delete", "observe_first",
                        "observe_second", "wait", "erase", "release", "returned", "stopped"}
<1>1. e \in Entry
  BY DEF Writes, Entry, Note, Intent, Outcome, Absence
<1>2. \A f : Writes(q, f) => f = e
  BY DEF Writes
<1>3. QED
  BY <1>1, <1>2 DEF Writes

LEMMA NotHalf ==
    ASSUME HalfWritten,
           pc \in {"down", "loaded", "permits", "delete", "observe_first", "observe_second",
                   "wait", "erase", "release", "returned", "stopped"}
    PROVE  ~half
BY OneWrite DEF HalfWritten

\* The head is repeated, extended or quarantined: evidence in it is not lost.
LEMMA HeadKept ==
    ASSUME TypeOK, NEW e \in Entry, Fits(e), headFile' \in {headFile, Append(ledger, e)}
    PROVE  /\ Quarantined(headFile) => Quarantined(headFile)'
           /\ \/ Quarantined(headFile)'
              \/ \A x : Has(headFile, x) => Has(headFile, x)'
<1>1. \A x : Has(Append(ledger, e), x) <=> Has(ledger, x) \/ x = e
  BY HasAppend DEF TypeOK
<1>2. CASE headFile' = headFile
  BY <1>2 DEF Quarantined, Has
<1>3. CASE headFile' = Append(ledger, e) /\ (Append(ledger, e) = headFile \/ ledger = headFile)
  BY <1>1, <1>3 DEF Quarantined, Has
<1>4. CASE headFile' = Append(ledger, e) /\ e = Note("Quarantined")
  <2>1. Has(Append(ledger, e), Note("Quarantined"))
    BY <1>1, <1>4
  <2>2. Quarantined(headFile)'
    BY <1>4, <2>1 DEF Quarantined, Has
  <2>3. QED
    BY <2>2
<1>5. QED
  BY <1>2, <1>3, <1>4 DEF Fits

\* A step that leaves the world alone keeps the order of evidence and effects.
LEMMA OrderKept ==
    ASSUME TypeOK, CleanupInOrder, NEW e \in Entry, Fits(e),
           headFile' \in {headFile, Append(ledger, e)}, UNCHANGED world, PagesAreSpaced'
    PROVE  CleanupInOrder'
<1>1. \/ Quarantined(headFile)'
      \/ /\ Quarantined(headFile) => Quarantined(headFile)'
         /\ \A x : Has(headFile, x) => Has(headFile, x)'
  BY HeadKept
<1>2. LeaseIsLast'
  BY <1>1 DEF CleanupInOrder, LeaseIsLast, Proven, world
<1>3. IntentsComeFirst'
  BY <1>1 DEF CleanupInOrder, IntentsComeFirst, world
<1>4. QED
  BY <1>2, <1>3 DEF CleanupInOrder

-----------------------------------------------------------------------------
(* Durable transitions.                                                    *)

\* A durable transition keeps the invariant if the step it leads to has what it
\* needs in the ledger that is committed; whatever fails on the way leads out of the
\* run.
LEMMA DurableStep ==
    ASSUME CInv, NEW from \in Steps, NEW e, NEW to \in Steps, Writes(from, e),
           Durable(from, e, to),
           pc = from => Ready(to, Append(ledger, e)),
           e = Absence("First") => to \notin Spaced
    PROVE  CInv'
<1>0. e \in Entry /\ TypeOK /\ CleanupInOrder
  BY OneWrite DEF CInv
<1>1. Append(ledger, e) \in Seq(Entry)
  BY <1>0 DEF TypeOK
<1>2. Admissible(e) => Fits(e)
  BY DEF Admissible, Fits
<1>3. pc = from /\ half => Fits(e)
  BY OneWrite DEF CInv, HalfWritten
<1>4. CASE ReplaceLedger(from, e)
  <2>1. UNCHANGED <<headFile, ledger, pc, result, elapsed, network, vault, lease, faults>>
        /\ half' = TRUE /\ pc = from /\ Fits(e) /\ ledgerFile' = Append(ledger, e)
    BY <1>2, <1>4 DEF ReplaceLedger, world
  <2>2. TypeOK'
    BY <1>0, <1>1, <2>1 DEF TypeOK
  <2>3. Ready(pc, ledger)'
    BY <2>1 DEF CInv, Ready, Quarantined, Has
  <2>4. Fits(e)' /\ Writes(pc, e)'
    BY <2>1 DEF Fits, Writes
  <2>5. HalfWritten'
    BY <1>0, <2>4 DEF HalfWritten
  <2>6. Synced'
    BY <2>1 DEF CInv, Synced
  <2>7. PagesAreSpaced'
    BY <1>0, <2>1 DEF CleanupInOrder, PagesAreSpaced
  <2>8. CleanupInOrder'
    BY <1>0, <2>1, <2>7, OrderKept DEF world
  <2>9. QED
    BY <2>2, <2>3, <2>5, <2>6, <2>8 DEF CInv
<1>5. CASE ReplaceHead(from, e, to)
  <2>1. /\ UNCHANGED <<ledgerFile, result, network, vault, lease, faults>>
        /\ headFile' = Append(ledger, e) /\ ledger' = Append(ledger, e)
        /\ pc = from /\ half /\ pc' = to /\ half' = FALSE
        /\ elapsed' = (elapsed /\ e # Absence("First"))
    BY <1>5 DEF ReplaceHead, world
  <2>2. TypeOK'
    BY <1>0, <1>1, <2>1 DEF TypeOK
  <2>3. Ready(to, Append(ledger, e)) /\ (to \in Spaced => elapsed')
    BY <2>1 DEF Ready
  <2>4. Ready(pc, ledger)'
    BY <2>1, <2>3 DEF Ready, Quarantined, Has
  <2>5. HalfWritten' /\ Synced'
    BY <2>1 DEF HalfWritten, Synced
  <2>6. PagesAreSpaced'
    BY <2>1, <2>3 DEF PagesAreSpaced, Spaced
  <2>7. CleanupInOrder'
    BY <1>0, <1>3, <2>1, <2>6, OrderKept DEF world
  <2>8. QED
    BY <2>2, <2>4, <2>5, <2>7 DEF CInv
<1>6. CASE Refuse(from, e) \/ IoError(from, e)
  <2>1. /\ UNCHANGED <<ledgerFile, ledger, result, elapsed, network, vault, lease>>
        /\ pc = from /\ pc' \in {"down", "returned"} /\ half' = FALSE
        /\ headFile' = headFile \/ (half /\ headFile' = Append(ledger, e))
        /\ faults' \in Nat
    BY <1>0, <1>6 DEF Refuse, IoError, Failed, files, world, TypeOK
  <2>2. TypeOK'
    BY <1>0, <1>1, <2>1 DEF TypeOK, Steps
  <2>3. Ready(pc, ledger)'
    BY <2>1 DEF Ready, Running, Steps, Deleting, NetworkGone, SeenOnce, Spaced, SeenTwice, Erasing,
                VaultGone, Tombstoned, Releasing
  <2>4. HalfWritten' /\ Synced' /\ PagesAreSpaced'
    BY <2>1 DEF HalfWritten, Synced, Running, PagesAreSpaced
  <2>5. CleanupInOrder'
    <3>1. CASE headFile' = headFile
      BY <1>0, <2>1, <2>4, <3>1 DEF CleanupInOrder, LeaseIsLast, IntentsComeFirst, Proven,
                                    Quarantined, Has
    <3>2. CASE half /\ headFile' = Append(ledger, e)
      BY <1>0, <1>3, <2>1, <2>4, <3>2, OrderKept DEF world
    <3>3. QED
      BY <2>1, <3>1, <3>2
  <2>6. QED
    BY <2>2, <2>3, <2>4, <2>5 DEF CInv
<1>7. QED
  BY <1>4, <1>5, <1>6 DEF Durable

-----------------------------------------------------------------------------
(* Steps that write nothing.                                               *)

\* A step that leaves files and world alone keeps the invariant if the step it
\* leads to has what it needs.
LEMMA GotoStep ==
    ASSUME CInv, ~half, pc' \in Steps, ledger' \in Seq(Entry), Ready(pc', ledger'),
           pc' \in Running => ledger' = headFile,
           UNCHANGED <<ledgerFile, headFile, half, result, elapsed, network, vault, lease>>,
           faults' \in Nat
    PROVE  CInv'
<1>1. TypeOK'
  BY DEF CInv, TypeOK
<1>2. Ready(pc, ledger)'
  BY DEF Ready, Quarantined, Has
<1>3. HalfWritten' /\ Synced'
  BY DEF HalfWritten, Synced
<1>4. PagesAreSpaced'
  BY DEF Ready, PagesAreSpaced, Spaced
<1>5. CleanupInOrder'
  BY <1>4 DEF CInv, CleanupInOrder, LeaseIsLast, IntentsComeFirst, Proven, Quarantined, Has
<1>6. QED
  BY <1>1, <1>2, <1>3, <1>5 DEF CInv

\* A step outside the run needs nothing.
LEMMA IdleIsReady ==
    ASSUME NEW q \in {"down", "fail_closed", "loaded", "permits", "returned", "stopped"}, NEW l
    PROVE  Ready(q, l) /\ q \in Steps /\ q \notin Running
BY DEF Ready, Running, Steps, Deleting, NetworkGone, SeenOnce, Spaced, SeenTwice, Erasing,
       VaultGone, Tombstoned, Releasing

LEMMA LoadStep ==
    ASSUME CInv, Load \/ Resume \/ Permits \/ Exit \/ Wait
    PROVE  CInv'
<1>0. TypeOK /\ Ready(pc, ledger) /\ HalfWritten /\ Synced
  BY DEF CInv
<1>1. CASE Load
  <2>1. /\ ~half /\ ledger' = ledgerFile /\ pc' \in {"stopped", "loaded", "fail_closed"}
        /\ UNCHANGED <<ledgerFile, headFile, half, result, elapsed, network, vault, lease, faults>>
    BY <1>0, <1>1, NotHalf DEF Load, files, world
  <2>2. ledger' \in Seq(Entry)
    BY <1>0, <2>1 DEF TypeOK
  <2>3. QED
    BY <1>0, <2>1, <2>2, IdleIsReady, GotoStep DEF TypeOK
<1>2. CASE Exit \/ Resume
  <2>1. /\ ~half /\ ledger' = ledger /\ pc' \in {"down", "permits"}
        /\ UNCHANGED <<ledgerFile, headFile, half, result, elapsed, network, vault, lease, faults>>
    BY <1>0, <1>2, NotHalf DEF Exit, Resume, Goto, files, world
  <2>2. QED
    BY <1>0, <2>1, IdleIsReady, GotoStep DEF TypeOK
<1>3. CASE Permits
  <2>1. /\ ~half /\ ledger' = ledger /\ pc' \in {"stopped", "cleanup_only"}
        /\ pc' = "cleanup_only" => ~Quarantined(ledger)
        /\ UNCHANGED <<ledgerFile, headFile, half, result, elapsed, network, vault, lease, faults>>
    BY <1>0, <1>3, NotHalf DEF Permits, Goto, files, world
  <2>2. ~Quarantined(ledger) =>
           Ready("cleanup_only", ledger) /\ "cleanup_only" \in Steps \ Running
    BY DEF Ready, Running, Steps, Deleting, NetworkGone, SeenOnce, Spaced, SeenTwice, Erasing,
           VaultGone, Tombstoned, Releasing
  <2>3. QED
    BY <1>0, <2>1, <2>2, IdleIsReady, GotoStep DEF TypeOK
<1>4. CASE Wait
  <2>1. /\ pc = "wait" /\ ledger' = ledger /\ pc' \in {"intent_second", "quarantine"}
        /\ pc' = "intent_second" => elapsed
        /\ UNCHANGED <<ledgerFile, headFile, half, result, elapsed, network, vault, lease, faults>>
    BY <1>4 DEF Wait, Goto, files, world
  <2>2. ~half
    BY <1>0, <2>1, NotHalf
  <2>3. Ready(pc', ledger) /\ pc' \in Steps /\ ledger = headFile
    BY <1>0, <2>1
       DEF Ready, Synced, Running, Steps, Deleting, NetworkGone, SeenOnce, Spaced, SeenTwice,
           Erasing, VaultGone, Tombstoned, Releasing
  <2>4. QED
    BY <1>0, <2>1, <2>2, <2>3, GotoStep DEF TypeOK
<1>5. QED
  BY <1>1, <1>2, <1>3, <1>4

-----------------------------------------------------------------------------
(* Broker calls.                                                           *)

\* The run continues at the outcome with the ledger it called with; what changed in
\* the world has its intent there.
LEMMA CallStep ==
    ASSUME CInv, NEW from \in Running, NEW r, NEW to \in Running, Call(from, r, to),
           r \in {"succeeded", "failed", "unknown", "absent", "unproven", "mismatch"},
           ~half,
           network' \in {"present", "deleting", "absent"},
           vault' \in {"held", "erased"}, lease' \in {"held", "released"},
           network = "absent" => network' = "absent", vault = "erased" => vault' = "erased",
           network' # "present" => network # "present" \/ Has(ledger, Intent("Delete")),
           vault' = "erased" => vault = "erased" \/ Has(ledger, Intent("VaultErase")),
           lease' = "released" =>
              \/ lease = "released"
              \/ network = "absent" /\ vault = "erased" /\ Proven(ledger),
           Ready(to, ledger)'
    PROVE  CInv'
<1>1. /\ pc = from /\ pc' = to /\ result' = r
      /\ UNCHANGED <<ledgerFile, headFile, ledger, half, elapsed, faults>>
  BY DEF Call, files
<1>2. ledger = headFile
  BY <1>1 DEF CInv, Synced
<1>3. TypeOK'
  BY <1>1 DEF CInv, TypeOK, Running
<1>4. Ready(pc, ledger)' /\ HalfWritten' /\ Synced'
  BY <1>1, <1>2 DEF HalfWritten, Synced, Ready
<1>5. \A x : Has(headFile, x)' <=> Has(headFile, x)
  BY <1>1 DEF Has
<1>6. LeaseIsLast'
  BY <1>1, <1>2, <1>5 DEF CInv, CleanupInOrder, LeaseIsLast, Proven, Quarantined
<1>7. IntentsComeFirst'
  BY <1>1, <1>2, <1>5 DEF CInv, CleanupInOrder, IntentsComeFirst, Quarantined
<1>8. PagesAreSpaced'
  BY <1>4 DEF Ready, PagesAreSpaced, Spaced
<1>9. QED
  BY <1>3, <1>4, <1>6, <1>7, <1>8 DEF CInv, CleanupInOrder

\* The steps that call the broker, and the outcomes they lead to.
LEMMA BrokerStep ==
    ASSUME CInv, \/ Delete \/ EraseVault \/ ReleaseLease
                 \/ Observe("observe_first", "outcome_first")
                 \/ Observe("observe_second", "outcome_second")
    PROVE  CInv'
<1> USE DEF Running, Steps, Deleting, NetworkGone, SeenOnce, Spaced, SeenTwice, Erasing,
            VaultGone, Tombstoned, Releasing
<1>0. TypeOK /\ Ready(pc, ledger) /\ HalfWritten /\ Synced
  BY DEF CInv
<1>1. CASE Delete
  <2>1. CASE ~Has(ledger, Note("IdentityBound"))
    <3>1. /\ ~half /\ ledger' = ledger /\ pc' = "stopped"
          /\ UNCHANGED <<ledgerFile, headFile, half, result, elapsed, network, vault, lease, faults>>
      BY <1>0, <1>1, <2>1, NotHalf DEF Delete, Goto, files, world
    <3>2. QED
      BY <1>0, <3>1, IdleIsReady, GotoStep DEF TypeOK
  <2>2. CASE Has(ledger, Note("IdentityBound"))
    <3>1. PICK r \in {"succeeded", "unknown", "failed"} :
             /\ Call("delete", r, "outcome_delete")
             /\ network' \in Deleted(r)
             /\ UNCHANGED <<vault, lease>>
      BY <1>1, <2>2 DEF Delete
    <3>2. /\ pc = "delete" /\ pc' = "outcome_delete" /\ UNCHANGED ledger
      BY <3>1 DEF Call
    <3>3. Has(ledger, Intent("Delete")) /\ ~Quarantined(ledger) /\ ~half
      BY <1>0, <3>2, NotHalf DEF Ready
    <3>4. /\ network' \in {"present", "deleting", "absent"}
          /\ network = "absent" => network' = "absent"
      BY <3>1 DEF Deleted
    <3>5. Ready("outcome_delete", ledger)'
      BY <3>2, <3>3 DEF Ready, Quarantined, Has
    <3>6. QED
      BY <1>0, <3>1, <3>3, <3>4, <3>5, CallStep DEF TypeOK
  <2>3. QED
    BY <2>1, <2>2
<1>2. ASSUME NEW from, NEW to, <<from, to>> \in {<<"observe_first", "outcome_first">>,
                                             <<"observe_second", "outcome_second">>},
             Observe(from, to)
      PROVE  CInv'
  <2>1. PICK r \in {"absent", "unproven", "unknown"} :
           /\ r = "absent" => network = "absent"
           /\ Call(from, r, to)
           /\ UNCHANGED world
    BY <1>2 DEF Observe
  <2>2. pc = from /\ pc' = to /\ result' = r /\ UNCHANGED <<ledger, elapsed, network, vault, lease>>
    BY <2>1 DEF Call, world
  <2>3. ~half
    BY <1>0, <1>2, <2>2, NotHalf
  <2>4. Ready(to, ledger)'
    BY <1>0, <1>2, <2>1, <2>2 DEF Ready, Quarantined, Has
  <2>5. QED
    BY <1>0, <1>2, <2>1, <2>2, <2>3, <2>4, CallStep DEF TypeOK
<1>3. CASE EraseVault
  <2>1. PICK r \in {"succeeded", "mismatch", "unknown"} :
           /\ Call("erase", r, "outcome_erase")
           /\ vault' \in CASE r = "succeeded" -> {"erased"}
                           [] r = "mismatch" -> {vault}
                           [] r = "unknown" -> {vault, "erased"}
           /\ UNCHANGED <<network, lease>>
    BY <1>3 DEF EraseVault
  <2>2. /\ vault' \in {vault, "erased"} /\ (r = "succeeded" => vault' = "erased")
        /\ UNCHANGED <<network, lease>>
    BY <2>1
  <2>3. pc = "erase" /\ pc' = "outcome_erase" /\ result' = r /\ UNCHANGED <<ledger, elapsed>>
    BY <2>1 DEF Call
  <2>4. Has(ledger, Intent("VaultErase")) /\ ~half
    BY <1>0, <2>3, NotHalf DEF Ready
  <2>5. Ready("outcome_erase", ledger)'
    BY <1>0, <2>2, <2>3 DEF Ready, Quarantined, Has
  <2>6. vault' \in {"held", "erased"} /\ (vault = "erased" => vault' = "erased")
    BY <1>0, <2>2 DEF TypeOK
  <2>7. QED
    BY <1>0, <2>1, <2>2, <2>4, <2>5, <2>6, CallStep DEF TypeOK
<1>4. CASE ReleaseLease
  <2>1. PICK r \in {"succeeded", "unknown"} :
           /\ Call("release", r, "outcome_release")
           /\ lease' \in IF r = "succeeded" THEN {"released"} ELSE {lease, "released"}
           /\ UNCHANGED <<network, vault>>
    BY <1>4 DEF ReleaseLease
  <2>2. pc = "release" /\ pc' = "outcome_release" /\ UNCHANGED <<ledger, elapsed>>
    BY <2>1 DEF Call
  <2>3. lease' \in {"held", "released"}
    BY <1>0, <2>1 DEF TypeOK
  <2>4. network = "absent" /\ vault = "erased" /\ Proven(ledger) /\ ~half
    BY <1>0, <2>2, NotHalf DEF Ready, Proven
  <2>5. Ready("outcome_release", ledger)'
    BY <1>0, <2>1, <2>2 DEF Ready, Quarantined, Has
  <2>6. QED
    BY <1>0, <2>1, <2>3, <2>4, <2>5, CallStep DEF TypeOK
<1>5. QED
  BY <1>1, <1>2, <1>3, <1>4

-----------------------------------------------------------------------------
(* The durable transitions of a run, in its order.                         *)

\* Where a durable transition of run_cleanup leads to.
Leads(q, to) ==
    \/ q = "cleanup_only" /\ to = "intent_delete"
    \/ q = "intent_delete" /\ to = "delete"
    \/ q = "outcome_delete" /\ to \in {"intent_first", "quarantine"}
    \/ q = "intent_first" /\ to = "observe_first"
    \/ q = "outcome_first" /\ to \in {"absent_first", "quarantine"}
          /\ (to = "absent_first" => result = "absent")
    \/ q = "absent_first" /\ to = "wait"
    \/ q = "intent_second" /\ to = "observe_second"
    \/ q = "outcome_second" /\ to \in {"absent_second", "quarantine"}
    \/ q = "absent_second" /\ to = "intent_erase"
    \/ q = "intent_erase" /\ to = "erase"
    \/ q = "outcome_erase" /\ to \in {"tombstone", "quarantine"}
          /\ (to = "tombstone" => result = "succeeded")
    \/ q = "tombstone" /\ to = "intent_release"
    \/ q = "intent_release" /\ to = "release"
    \/ q = "outcome_release" /\ to \in {"released", "quarantine"}
    \/ q = "released" /\ to = "stopped"
    \/ q = "quarantine" /\ to = "returned"

\* The entry a step writes is what the next one lacks.
LEMMA LeadsOn ==
    ASSUME CInv, NEW from, NEW e, NEW to, Writes(from, e), Leads(from, to), pc = from
    PROVE  Ready(to, Append(ledger, e))
<1>1. e \in Entry /\ TypeOK /\ Ready(from, ledger)
  BY OneWrite DEF CInv
<1>2. \A x : Has(Append(ledger, e), x) <=> Has(ledger, x) \/ x = e
  BY <1>1, HasAppend DEF TypeOK
<1> DEFINE l == Append(ledger, e)
<1> HIDE DEF l
<1>3. \A x : Has(l, x) <=> Has(ledger, x) \/ x = e
  BY <1>2 DEF l
<1>4. Note("Quarantined") = e => to \in {"returned"}
  BY DEF Writes, Leads, Note, Intent, Outcome, Absence
<1> USE DEF Running, Steps, Deleting, NetworkGone, SeenOnce, Spaced, SeenTwice, Erasing,
            VaultGone, Tombstoned, Releasing
<1>5. to \in Running => ~Quarantined(l)
  BY <1>1, <1>3, <1>4 DEF Ready, Quarantined, Leads
<1>6. /\ to \in Deleting => Has(l, Intent("Delete"))
      /\ to \in SeenOnce => Has(l, Absence("First"))
      /\ to \in SeenTwice => Has(l, Absence("Second"))
  BY <1>1, <1>3 DEF Ready, Leads, Writes
<1>7. /\ to \in Erasing => Has(l, Intent("VaultErase"))
      /\ to \in Tombstoned => Has(l, Note("VaultTombstoneReadback"))
      /\ to \in Releasing => Has(l, Intent("LeaseRelease"))
  BY <1>1, <1>3 DEF Ready, Leads, Writes
<1>8. /\ to \in NetworkGone \/ (to = "outcome_first" /\ result = "absent") => network = "absent"
      /\ to \in VaultGone \/ (to = "outcome_erase" /\ result = "succeeded") => vault = "erased"
      /\ to \in Spaced => elapsed
  BY <1>1 DEF Ready, Leads
<1>9. to # "cleanup_only"
  BY DEF Leads
<1>10. QED
  BY <1>5, <1>6, <1>7, <1>8, <1>9 DEF Ready, l

LEMMA RunStep ==
    ASSUME CInv, RunCleanup
    PROVE  CInv'
<1>1. ASSUME NEW from, NEW e, NEW to, Writes(from, e), Leads(from, to), Durable(from, e, to)
      PROVE  CInv'
  <2>1. from \in Steps /\ to \in Steps
    BY <1>1 DEF Leads, Steps
  <2>2. e = Absence("First") => to \notin Spaced
    BY <1>1 DEF Writes, Leads, Spaced, Note, Intent, Outcome, Absence
  <2>3. pc = from => Ready(to, Append(ledger, e))
    BY <1>1, LeadsOn
  <2>4. QED
    BY <1>1, <2>1, <2>2, <2>3, DurableStep
<1>2. \/ Delete \/ Wait \/ EraseVault \/ ReleaseLease
      \/ Observe("observe_first", "outcome_first")
      \/ Observe("observe_second", "outcome_second")
      \/ \E from, e, to : Writes(from, e) /\ Leads(from, to) /\ Durable(from, e, to)
  BY DEF RunCleanup, Writes, Leads, AfterErasure
<1>3. QED
  BY <1>1, <1>2, BrokerStep, LoadStep

-----------------------------------------------------------------------------
(* Recovery and the surroundings.                                          *)

LEMMA RecoveryStep ==
    ASSUME CInv, FailClosed \/ Claim
    PROVE  CInv'
<1>0. TypeOK /\ HalfWritten
  BY DEF CInv
<1>1. CASE FailClosed
  <2>1. /\ Durable("fail_closed", Note("Quarantined"), "loaded")
        /\ Writes("fail_closed", Note("Quarantined"))
        /\ Note("Quarantined") # Absence("First")
    BY <1>1 DEF FailClosed, Writes, Note, Absence
  <2>2. "fail_closed" \in Steps
    BY DEF Steps
  <2>3. QED
    BY <2>1, <2>2, IdleIsReady, DurableStep
<1>2. CASE Claim
  <2>1. /\ pc = "loaded" /\ pc' \in {"stopped", "permits"}
        /\ ledger' \in {ledger, Append(ledger, Note("CleanupOnly"))} /\ faults' \in Nat
        /\ UNCHANGED <<ledgerFile, headFile, half, result, elapsed, network, vault, lease>>
    BY <1>0, <1>2 DEF Claim, files, world, TypeOK
  <2>2. ~half
    BY <1>0, <2>1, NotHalf
  <2>3. Note("CleanupOnly") \in Entry
    BY DEF Note, Entry
  <2>4. ledger' \in Seq(Entry)
    BY <1>0, <2>1, <2>3 DEF TypeOK
  <2>5. QED
    BY <2>1, <2>2, <2>4, IdleIsReady, GotoStep
<1>3. QED
  BY <1>1, <1>2

\* A crash, a rerun, the clock, the provider and a restored snapshot.
LEMMA SurroundingsStep ==
    ASSUME CInv, Elapse \/ Vanish \/ Crash \/ Rerun \/ RestoreLedger
    PROVE  CInv'
<1>0. TypeOK /\ Ready(pc, ledger) /\ HalfWritten /\ Synced /\ CleanupInOrder
  BY DEF CInv
<1>1. ASSUME TypeOK', Ready(pc, ledger)', HalfWritten', PagesAreSpaced',
             UNCHANGED <<ledger, headFile, vault, lease>>,
             pc' \in {"down", "permits"} \/ UNCHANGED pc,
             network' = network \/ (network = "deleting" /\ network' = "absent")
      PROVE  CInv'
  <2>1. Synced'
    BY <1>0, <1>1 DEF Synced, Running
  <2>2. \A x : Has(headFile, x)' <=> Has(headFile, x)
    BY <1>1 DEF Has
  <2>3. LeaseIsLast' /\ IntentsComeFirst'
    BY <1>0, <1>1, <2>2 DEF CleanupInOrder, LeaseIsLast, IntentsComeFirst, Proven, Quarantined
  <2>4. QED
    BY <1>1, <2>1, <2>3 DEF CInv, CleanupInOrder
<1>2. CASE Elapse \/ Vanish \/ RestoreLedger
  <2>1. /\ UNCHANGED <<headFile, ledger, pc, half, result, vault, lease>>
        /\ elapsed' \in BOOLEAN /\ (elapsed => elapsed') /\ faults' \in Nat
        /\ network' = network \/ (network = "deleting" /\ network' = "absent")
    <3>0. elapsed \in BOOLEAN /\ faults \in Nat
      BY <1>0 DEF TypeOK
    <3>1. CASE Elapse
      BY <3>0, <3>1 DEF Elapse, files, world
    <3>2. CASE Vanish
      BY <3>0, <3>2 DEF Vanish, files
    <3>3. CASE RestoreLedger
      BY <3>0, <3>3 DEF RestoreLedger, world
    <3>4. QED
      BY <1>2, <3>1, <3>2, <3>3
  <2>2. ledgerFile' \in Seq(Entry) /\ (half => ledgerFile' = ledgerFile)
    <3>1. CASE RestoreLedger
      <4>1. PICK n \in 1..Len(ledgerFile) - 1 : ledgerFile' = SubSeq(ledgerFile, 1, n)
        BY <3>1 DEF RestoreLedger
      <4>2. \A i \in 1..n : ledgerFile[i] \in Entry
        BY <1>0 DEF TypeOK
      <4>3. n \in Int
        BY <1>0 DEF TypeOK
      <4>4. SubSeq(ledgerFile, 1, n) \in Seq(Entry)
        BY <4>2, <4>3, SubSeqProperties
      <4>5. QED
        BY <3>1, <4>1, <4>4 DEF RestoreLedger
    <3>2. CASE Elapse \/ Vanish
      BY <1>0, <3>2 DEF Elapse, Vanish, files, TypeOK
    <3>3. QED
      BY <1>2, <3>1, <3>2
  <2>3. TypeOK'
    BY <1>0, <2>1, <2>2 DEF TypeOK
  <2>4. Ready(pc, ledger)' /\ HalfWritten'
    <3>1. Ready(pc, ledger)'
      BY <1>0, <2>1 DEF Ready, Quarantined, Has
    <3>2. HalfWritten'
      BY <1>0, <2>1 DEF HalfWritten, Writes, Fits, Quarantined, Has
    <3>3. QED
      BY <3>1, <3>2
  <2>5. PagesAreSpaced'
    BY <1>0, <2>1 DEF CleanupInOrder, PagesAreSpaced
  <2>6. QED
    BY <1>1, <2>1, <2>3, <2>4, <2>5
<1>3. CASE Crash \/ Rerun
  <2>1. /\ UNCHANGED <<ledgerFile, headFile, ledger, result, elapsed, network, vault, lease>>
        /\ pc' \in {"down", "permits"} /\ half' = FALSE /\ faults' \in Nat
    BY <1>0, <1>3, NotHalf DEF Crash, Rerun, files, world, TypeOK
  <2>2. TypeOK'
    BY <1>0, <2>1 DEF TypeOK, Steps
  <2>3. Ready(pc, ledger)'
    BY <2>1 DEF Ready, Running, Steps, Deleting, NetworkGone, SeenOnce, Spaced, SeenTwice,
                Erasing, VaultGone, Tombstoned, Releasing
  <2>4. HalfWritten' /\ PagesAreSpaced'
    BY <2>1 DEF HalfWritten, PagesAreSpaced
  <2>5. QED
    BY <1>1, <2>1, <2>2, <2>3, <2>4
<1>4. QED
  BY <1>2, <1>3

LEMMA CInvariant == Spec => []CInv
<1>1. Init => CInv
  <2>1. Init => TypeOK
    <3>1. Note("Reserved") \in Entry /\ Note("IdentityBound") \in Entry
      BY DEF Note, Entry
    <3>2. /\ <<Note("Reserved")>> \in Seq(Entry)
          /\ <<Note("Reserved"), Note("IdentityBound")>> \in Seq(Entry)
      BY <3>1
    <3>3. "permits" \in Steps
      BY DEF Steps
    <3>4. Init => ledgerFile \in Seq(Entry) /\ headFile \in Seq(Entry) /\ ledger \in Seq(Entry)
      BY <3>2 DEF Init
    <3>5. Init => half \in BOOLEAN /\ elapsed \in BOOLEAN
      BY DEF Init
    <3>6. Init => /\ pc \in Steps /\ result = "none" /\ network = "present" /\ vault = "held"
                  /\ lease = "held" /\ faults \in Nat
      BY <3>3 DEF Init
    <3>7. QED
      BY <3>4, <3>5, <3>6 DEF TypeOK
  <2>2. Init => HalfWritten /\ Synced /\ CleanupInOrder
    BY DEF Init, HalfWritten, Synced, Running, CleanupInOrder, LeaseIsLast, IntentsComeFirst,
           PagesAreSpaced
  <2>3. Init => Ready(pc, ledger)
    BY IdleIsReady DEF Init
  <2>4. QED
    BY <2>1, <2>2, <2>3 DEF CInv
<1>2. CInv /\ [Next]_vars => CInv'
  <2>1. SUFFICES ASSUME CInv, [Next]_vars PROVE CInv'
    OBVIOUS
  <2>2. CASE UNCHANGED vars
    <3>1. \A x : (Has(headFile, x)' <=> Has(headFile, x)) /\ (Has(ledger, x)' <=> Has(ledger, x))
      BY <2>2 DEF vars, Has
    <3>2. TypeOK' /\ HalfWritten' /\ Synced'
      BY <2>1, <2>2, <3>1 DEF CInv, vars, TypeOK, HalfWritten, Writes, Fits, Synced, Quarantined
    <3>3. Ready(pc, ledger)'
      BY <2>1, <2>2, <3>1 DEF CInv, vars, Ready, Quarantined
    <3>4. CleanupInOrder'
      BY <2>1, <2>2, <3>1 DEF CInv, vars, CleanupInOrder, LeaseIsLast, IntentsComeFirst, Proven,
                              PagesAreSpaced, Quarantined
    <3>5. QED
      BY <3>2, <3>3, <3>4 DEF CInv
  <2>3. QED
    BY <2>1, <2>2, LoadStep, RecoveryStep, RunStep, SurroundingsStep DEF Next, Supervisor
<1>3. QED
  BY <1>1, <1>2, PTL DEF Spec

-----------------------------------------------------------------------------
\* The lease outlives the network and its secret, every effect on the world has its
\* intent in the committed ledger, and the two pages that prove the absence are spaced,
\* whatever number of crashes, I/O errors, lost answers, reruns and restored snapshots
\* interrupts run_cleanup.
THEOREM CleanupKeepsOrder == Spec => []CleanupInOrder
<1>1. CInv => CleanupInOrder
  BY DEF CInv
<1>2. QED
  BY <1>1, CInvariant, PTL

\* A committed quarantine is never lifted, and the supervisor touches nothing under
\* it: a process that still holds an older ledger writes nothing but quarantines, and
\* the broker is called only with the committed ledger, which is not quarantined.
THEOREM QuarantineHolds == Spec => QuarantineIsFinal
<1> DEFINE Final == Quarantined(headFile) =>
                      /\ Quarantined(headFile')
                      /\ UNCHANGED <<vault, lease>>
                      /\ network' # network => network = "deleting"
<1>1. ASSUME CInv, [Next]_vars PROVE Final
  <2>0. TypeOK /\ HalfWritten /\ Ready(pc, ledger) /\ Synced
    BY <1>1 DEF CInv
  <2>1. ASSUME NEW from, NEW e, NEW to, Writes(from, e), Durable(from, e, to) PROVE Final
    <3>1. e \in Entry /\ (pc = from /\ half => Fits(e))
      BY <2>0, <2>1, OneWrite DEF HalfWritten
    <3>2. /\ UNCHANGED <<network, vault, lease>>
          /\ headFile' = headFile \/ (pc = from /\ half /\ headFile' = Append(ledger, e))
      BY <2>1 DEF Durable, ReplaceLedger, ReplaceHead, Refuse, IoError, files, world
    <3>3. CASE headFile' = headFile
      BY <3>2, <3>3
    <3>4. CASE pc = from /\ half /\ headFile' = Append(ledger, e)
      <4>1. Quarantined(headFile) => Quarantined(headFile)'
        BY <2>0, <3>1, <3>4, HeadKept
      <4>2. QED
        BY <3>2, <4>1 DEF Quarantined, Has
    <3>5. QED
      BY <3>2, <3>3, <3>4
  <2>2. ASSUME NEW q \in Running, pc = q PROVE ~Quarantined(headFile)
    BY <2>0, <2>2 DEF Ready, Synced
  <2>3. CASE Delete \/ EraseVault \/ ReleaseLease
    <3>1. pc \in Running
      BY <2>3 DEF Delete, Goto, EraseVault, ReleaseLease, Call, Running, Steps
    <3>2. QED
      BY <2>2, <3>1
  <2>4. CASE \/ Load \/ Exit \/ Claim \/ Resume \/ Permits \/ Wait
             \/ Observe("observe_first", "outcome_first")
             \/ Observe("observe_second", "outcome_second")
    BY <2>4 DEF Load, Exit, Claim, Resume, Permits, Wait, Observe, Call, Goto, files, world
  <2>5. CASE Elapse \/ Vanish \/ Crash \/ Rerun \/ RestoreLedger \/ UNCHANGED vars
    BY <2>5 DEF Elapse, Vanish, Crash, Rerun, RestoreLedger, files, world, vars
  <2>6. CASE FailClosed
    BY <2>1, <2>6 DEF FailClosed, Writes
  <2>7. CASE RunCleanup
    <3>1. \/ Delete \/ Wait \/ EraseVault \/ ReleaseLease
          \/ Observe("observe_first", "outcome_first")
          \/ Observe("observe_second", "outcome_second")
          \/ \E from, e, to : Writes(from, e) /\ Durable(from, e, to)
      BY <2>7 DEF RunCleanup, Writes
    <3>2. QED
      BY <2>1, <2>3, <2>4, <3>1
  <2>8. QED
    BY <1>1, <2>3, <2>4, <2>5, <2>6, <2>7 DEF Next, Supervisor
<1>2. CInv /\ [Next]_vars => [Final]_vars
  BY <1>1
<1>3. QED
  BY <1>2, CInvariant, PTL DEF Spec, QuarantineIsFinal
=============================================================================
