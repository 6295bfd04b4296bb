-------------------------- MODULE CleanupSupervisor --------------------------
(***************************************************************************)
(* The rehearsal supervisor (spurfire-server/src/supervision.rs): a        *)
(* cleanup that deletes a provider network, proves its absence twice,      *)
(* erases the vault secret and only then releases the lease.  Every        *)
(* external call stands between a durable intent and a durable outcome.    *)
(*                                                                         *)
(* The ledger is a hash chain, so an entry's hash stands for the whole     *)
(* prefix it ends: ledgers and the head file are sequences of entries.     *)
(* LedgerStore::persist replaces two files one after the other; the        *)
(* process may die, or an fsync fail, between them, and an older ledger    *)
(* file may be restored behind its back.                                   *)
(***************************************************************************)
EXTENDS Naturals, Sequences

CONSTANT MaxFaults   \* bound on crashes, I/O errors, reruns, claims and restores

ASSUME FaultAssumption == MaxFaults \in Nat

VARIABLES
    ledgerFile, \* supervisor-ledger.json
    headFile,   \* supervisor-ledger.head
    ledger,     \* the SupervisorLedger in memory
    pc,         \* the next statement of load, claim_recovery or run_cleanup
    half,       \* persist has replaced the ledger file and not yet the head
    result,     \* what the last broker call returned
    elapsed,    \* MIN_ABSENCE_SEPARATION passed since the first observation
    network, vault, lease,  \* the provider network, the vault secret, the lease
    faults

vars == <<ledgerFile, headFile, ledger, pc, half, result, elapsed,
          network, vault, lease, faults>>

world == <<network, vault, lease>>
files == <<ledgerFile, headFile>>

-----------------------------------------------------------------------------
(* Ledger entries: Transition, with the operation it is about.             *)

Entry == [kind : {"Reserved", "IdentityBound", "CleanupOnly", "Released",
                  "Quarantined", "Intent", "Outcome", "AbsenceObserved",
                  "VaultTombstoneReadback"},
          about : {"None", "Delete", "First", "Second", "VaultErase", "LeaseRelease"}]

Note(kind) == [kind |-> kind, about |-> "None"]
Intent(op) == [kind |-> "Intent", about |-> op]
Outcome(op) == [kind |-> "Outcome", about |-> op]
Absence(ordinal) == [kind |-> "AbsenceObserved", about |-> ordinal]

Has(l, e) == \E i \in DOMAIN l : l[i] = e
Quarantined(l) == Has(l, Note("Quarantined"))

Steps == {"down", "fail_closed", "loaded", "permits", "cleanup_only",
          "intent_delete", "delete", "outcome_delete",
          "intent_first", "observe_first", "outcome_first", "absent_first", "wait",
          "intent_second", "observe_second", "outcome_second", "absent_second",
          "intent_erase", "erase", "outcome_erase", "tombstone",
          "intent_release", "release", "outcome_release", "released",
          "quarantine", "returned", "stopped"}

TypeOK ==
    /\ ledgerFile \in Seq(Entry) /\ headFile \in Seq(Entry) /\ ledger \in Seq(Entry)
    /\ pc \in Steps
    /\ half \in BOOLEAN /\ elapsed \in BOOLEAN
    /\ result \in {"none", "succeeded", "failed", "unknown", "absent", "unproven", "mismatch"}
    /\ network \in {"present", "deleting", "absent"}
    /\ vault \in {"held", "erased"}
    /\ lease \in {"held", "released"}
    /\ faults \in Nat

Init ==
    /\ ledger \in {<<Note("Reserved")>>, <<Note("Reserved"), Note("IdentityBound")>>}
    /\ ledgerFile = ledger /\ headFile = ledger
    /\ pc = "permits"
    /\ half = FALSE /\ elapsed = FALSE /\ result = "none"
    /\ network = "present" /\ vault = "held" /\ lease = "held"
    /\ faults = 0

-----------------------------------------------------------------------------
(* LedgerStore::persist and durable_transition.                            *)

\* Fault: an append is accepted on its sequence number alone.
AdmissibleBySequence(e) ==
    Len(ledger) <= Len(headFile) \/ e = Note("Quarantined")

\* SupervisorLedger::validate: reserved first and once, and nothing but
\* quarantine after a quarantine.  The flags are derived, so they agree.
Valid(l) ==
    /\ l # <<>>
    /\ \A i \in DOMAIN l : (l[i] = Note("Reserved")) <=> (i = 1)
    /\ \A i, j \in DOMAIN l :
          i < j /\ l[i] = Note("Quarantined") => l[j] = Note("Quarantined")

\* A valid ledger is admitted when the head file is repeated or extended by
\* it; a quarantine whatever the head says.
Admissible(e) ==
    /\ Valid(Append(ledger, e))
    /\ \/ Append(ledger, e) = headFile
       \/ ledger = headFile
       \/ e = Note("Quarantined")

\* Where an error returned by durable_transition leaves the process.
Failed(from) == IF from = "fail_closed" THEN "down" ELSE "returned"

\* The ledger file is replaced first.
ReplaceLedger(from, e) ==
    /\ pc = from /\ ~half /\ Admissible(e)
    /\ ledgerFile' = Append(ledger, e)
    /\ half' = TRUE
    /\ UNCHANGED <<headFile, ledger, pc, result, elapsed, world, faults>>

\* Then the head: the transition is durable and stays in memory.
ReplaceHead(from, e, to) ==
    /\ pc = from /\ half
    /\ headFile' = Append(ledger, e)
    /\ ledger' = Append(ledger, e)
    /\ pc' = to
    /\ half' = FALSE
    /\ elapsed' = (elapsed /\ e # Absence("First"))
    /\ UNCHANGED <<ledgerFile, result, world, faults>>

\* persist refuses the append.
Refuse(from, e) ==
    /\ pc = from /\ ~half /\ ~Admissible(e)
    /\ pc' = Failed(from)
    /\ UNCHANGED <<files, ledger, half, result, elapsed, world, faults>>

\* An I/O error: before the ledger file is replaced, between the files, or in
\* the directory fsync after the head is.  The ledger in memory is rolled back.
IoError(from, e) ==
    /\ pc = from /\ faults < MaxFaults
    /\ half \/ Admissible(e)
    /\ headFile' \in {headFile} \cup (IF half THEN {Append(ledger, e)} ELSE {})
    /\ pc' = Failed(from)
    /\ half' = FALSE
    /\ faults' = faults + 1
    /\ UNCHANGED <<ledgerFile, ledger, result, elapsed, world>>

Durable(from, e, to) ==
    \/ ReplaceLedger(from, e)
    \/ ReplaceHead(from, e, to)
    \/ Refuse(from, e)
    \/ IoError(from, e)

-----------------------------------------------------------------------------
(* load, claim_recovery and the permit check of run_cleanup.               *)

Goto(from, to) ==
    /\ pc = from
    /\ pc' = to
    /\ UNCHANGED <<files, ledger, half, result, elapsed, world, faults>>

\* Fault: load trusts the ledger file.
LoadUnchecked ==
    /\ pc = "down"
    /\ ledger' = ledgerFile
    /\ pc' = "loaded"
    /\ UNCHANGED <<files, half, result, elapsed, world, faults>>

\* A ledger the head does not name is quarantined before it is used.
Load ==
    /\ pc = "down"
    /\ ledger' = ledgerFile
    /\ pc' = IF ~Valid(ledgerFile) THEN "stopped"
             ELSE IF ledgerFile = headFile THEN "loaded" ELSE "fail_closed"
    /\ UNCHANGED <<files, half, result, elapsed, world, faults>>

FailClosed == Durable("fail_closed", Note("Quarantined"), "loaded")

\* claim_recovery: a quarantined or released ledger cannot be claimed.  The claim is
\* appended in memory alone, so the first durable entry of the run_cleanup that
\* follows is two ahead of the head, and persist refuses it.
Claim ==
    /\ pc = "loaded" /\ faults < MaxFaults
    /\ IF Quarantined(ledger) \/ Has(ledger, Note("Released"))
       THEN pc' = "stopped" /\ UNCHANGED ledger
       ELSE pc' = "permits" /\ ledger' = Append(ledger, Note("CleanupOnly"))
    /\ faults' = faults + 1
    /\ UNCHANGED <<files, half, result, elapsed, world>>

\* run_cleanup on the ledger as it was loaded.
Resume == Goto("loaded", "permits")

\* permits(Delete) refuses a quarantined ledger alone: cleanup has no deadline.
Permits ==
    Goto("permits", IF Quarantined(ledger) THEN "stopped" ELSE "cleanup_only")

-----------------------------------------------------------------------------
(* run_cleanup.                                                            *)

\* A broker call at from: r is its answer; the world changes as it may have.
Call(from, r, to) ==
    /\ pc = from
    /\ result' = r
    /\ pc' = to
    /\ UNCHANGED <<files, ledger, half, elapsed, faults>>

\* A deletion may go on after its answer, an unknown answer may hide one, and
\* nothing brings a network back.
Deleted(r) ==
    {n \in {"present", "deleting", "absent"} :
        /\ network = "absent" => n = "absent"
        /\ r = "failed" => n = network
        /\ r = "succeeded" => n # "present"
        /\ n = "present" => network = "present"}

\* Without a bound identity run_cleanup gives up, and a rerun would only append
\* the same entries again.
Delete ==
    IF ~Has(ledger, Note("IdentityBound"))
    THEN Goto("delete", "stopped")
    ELSE \E r \in {"succeeded", "unknown", "failed"} :
           /\ Call("delete", r, "outcome_delete")
           /\ network' \in Deleted(r)
           /\ UNCHANGED <<vault, lease>>

\* An uncached, fully paginated page of the exact identity tells the truth; any
\* other answer, and an error, proves nothing.
Observe(from, to) ==
    \E r \in {"absent", "unproven", "unknown"} :
        /\ r = "absent" => network = "absent"
        /\ Call(from, r, to)
        /\ UNCHANGED world

EraseVault ==
    \E r \in {"succeeded", "mismatch", "unknown"} :
        /\ Call("erase", r, "outcome_erase")
        /\ vault' \in CASE r = "succeeded" -> {"erased"}
                        [] r = "mismatch" -> {vault}
                        [] r = "unknown" -> {vault, "erased"}
        /\ UNCHANGED <<network, lease>>

ReleaseLease ==
    \E r \in {"succeeded", "unknown"} :
        /\ Call("release", r, "outcome_release")
        /\ lease' \in IF r = "succeeded" THEN {"released"} ELSE {lease, "released"}
        /\ UNCHANGED <<network, vault>>

\* wait_until sleeps the interval out; a clock that still shows less fails the
\* cleanup.
Wait == Goto("wait", IF elapsed THEN "intent_second" ELSE "quarantine")

\* Fault: an unknown answer of the vault is taken for its erasure.
AfterErasureLenient == IF result = "mismatch" THEN "quarantine" ELSE "tombstone"

\* The step that follows the recorded outcome of the erasure.
AfterErasure == IF result = "succeeded" THEN "tombstone" ELSE "quarantine"

RunCleanup ==
    \/ Durable("cleanup_only", Note("CleanupOnly"), "intent_delete")
    \/ Durable("intent_delete", Intent("Delete"), "delete")
    \/ Delete
    \/ Durable("outcome_delete", Outcome("Delete"),
               IF result = "failed" THEN "quarantine" ELSE "intent_first")
    \/ Durable("intent_first", Intent("First"), "observe_first")
    \/ Observe("observe_first", "outcome_first")
    \/ Durable("outcome_first", Outcome("First"),
               IF result = "absent" THEN "absent_first" ELSE "quarantine")
    \/ Durable("absent_first", Absence("First"), "wait")
    \/ Wait
    \/ Durable("intent_second", Intent("Second"), "observe_second")
    \/ Observe("observe_second", "outcome_second")
    \/ Durable("outcome_second", Outcome("Second"),
               IF result = "absent" THEN "absent_second" ELSE "quarantine")
    \/ Durable("absent_second", Absence("Second"), "intent_erase")
    \/ Durable("intent_erase", Intent("VaultErase"), "erase")
    \/ EraseVault
    \/ Durable("outcome_erase", Outcome("VaultErase"), AfterErasure)
    \/ Durable("tombstone", Note("VaultTombstoneReadback"), "intent_release")
    \/ Durable("intent_release", Intent("LeaseRelease"), "release")
    \/ ReleaseLease
    \/ Durable("outcome_release", Outcome("LeaseRelease"),
               IF result = "succeeded" THEN "released" ELSE "quarantine")
    \/ Durable("released", Note("Released"), "stopped")
    \/ Durable("quarantine", Note("Quarantined"), "returned")

-----------------------------------------------------------------------------
(* The supervisor's surroundings.                                          *)

\* Five seconds pass.
Elapse ==
    /\ ~elapsed
    /\ elapsed' = TRUE
    /\ UNCHANGED <<files, ledger, pc, half, result, world, faults>>

\* A deletion the provider accepted takes effect.
Vanish ==
    /\ network = "deleting"
    /\ network' = "absent"
    /\ UNCHANGED <<files, ledger, pc, half, result, elapsed, vault, lease, faults>>

Crash ==
    /\ pc # "down" /\ faults < MaxFaults
    /\ pc' = "down"
    /\ half' = FALSE
    /\ faults' = faults + 1
    /\ UNCHANGED <<files, ledger, result, elapsed, world>>

\* run_cleanup returned an error: the caller runs it again on the ledger it
\* holds, or gives up and a new process loads the files.
Rerun ==
    /\ faults < MaxFaults
    /\ pc = "returned"
    /\ pc' = "permits"
    /\ faults' = faults + 1
    /\ UNCHANGED <<files, ledger, half, result, elapsed, world>>

Exit == Goto("returned", "down")

\* An earlier snapshot of the ledger file is put back.
RestoreLedger ==
    /\ faults < MaxFaults /\ ~half
    /\ \E n \in 1..Len(ledgerFile) - 1 : ledgerFile' = SubSeq(ledgerFile, 1, n)
    /\ faults' = faults + 1
    /\ UNCHANGED <<headFile, ledger, pc, half, result, elapsed, world>>

Supervisor == Load \/ FailClosed \/ Resume \/ Permits \/ RunCleanup \/ Exit

Next == Supervisor \/ Claim \/ Elapse \/ Vanish \/ Crash \/ Rerun \/ RestoreLedger

Spec == Init /\ [][Next]_vars

\* The supervisor is sequential code, restarted when it dies, and time passes.  Nothing
\* makes a caller claim.
FairSpec == Spec /\ WF_vars(Supervisor) /\ WF_vars(Elapse) /\ WF_vars(Vanish)

-----------------------------------------------------------------------------
(* Properties.                                                             *)

\* The evidence run_cleanup gathers before it asks for the lease.
Proven(l) ==
    /\ Has(l, Absence("First")) /\ Has(l, Absence("Second"))
    /\ Has(l, Note("VaultTombstoneReadback"))
    /\ Has(l, Intent("LeaseRelease"))

\* The lease outlives every crash, lost answer and rerun until the network is
\* gone and the secret erased, and the durable ledger shows the evidence or is
\* quarantined ("every cleanup fault retains lease or quarantines").
LeaseIsLast ==
    lease = "released" =>
        /\ network = "absent" /\ vault = "erased"
        /\ Proven(headFile) \/ Quarantined(headFile)

\* Every effect on the world has its intent in the committed ledger ("Every
\* external operation has a durable intent"), unless a restored snapshot lost
\* it, which quarantines.
IntentsComeFirst ==
    /\ network # "present" => Has(headFile, Intent("Delete")) \/ Quarantined(headFile)
    /\ vault = "erased" => Has(headFile, Intent("VaultErase")) \/ Quarantined(headFile)

\* A committed quarantine is never lifted, and the supervisor touches nothing
\* under it, whatever ledger a process still holds in memory.
QuarantineIsFinal ==
    [][Quarantined(headFile) =>
          /\ Quarantined(headFile')
          /\ UNCHANGED <<vault, lease>>
          /\ network' # network => network = "deleting"]_vars

\* The two pages that prove the absence are at least MIN_ABSENCE_SEPARATION
\* apart, also when a crash separates the runs that read them.
PagesAreSpaced == pc \in {"observe_second", "outcome_second", "absent_second"} => elapsed

\* The evidence precedes what it licenses, across crashes, lost answers and
\* restored snapshots: intents before effects, two spaced pages before the
\* absence, and the whole proof before the lease.
CleanupInOrder == LeaseIsLast /\ IntentsComeFirst /\ PagesAreSpaced

\* Once faults stop, a cleanup whose identity is bound ends, released or
\* quarantined, when it is resumed from the files: every run that was claimed
\* before it fails at its first entry and leaves them as they were.
CleanupEnds ==
    <>[](\/ Quarantined(headFile) \/ Has(headFile, Note("Released"))
         \/ ~Has(headFile, Note("IdentityBound")))
=============================================================================
