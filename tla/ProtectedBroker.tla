--------------------------- MODULE ProtectedBroker ---------------------------
(* The private channel of the protected alpha: the worker's                  *)
(* MtlsBrokerProviderTransport, the broker that holds the provider's         *)
(* credentials, and the Kubernetes Lease that fences both.  A worker call    *)
(* numbers itself, waits for the transport's lease view, sends one frame and *)
(* waits for one answer; the broker runs every connection in a task of its   *)
(* own and serialises them under last_sequence.  Frames and answers may be   *)
(* lost, the provider may fail, a call may be cancelled by its caller's      *)
(* timeout while the broker goes on, and both processes may restart.  MACs,  *)
(* nonces and TLS are taken to do what they are for.                         *)
EXTENDS Naturals, Sequences, FiniteSets

CONSTANTS
    InitialEpoch,     \* the receipt's initial_epoch
    MaxCalls,         \* calls of one worker process
    MaxOpen,          \* calls it has open at a time
    MaxRestarts       \* restarts of either process

VARIABLES
    clock,            \* "admission", "cleanup" (past final I/O) or "over" (past both deadlines)
    lease,            \* the Lease: resource version, epoch, phase
    worker,           \* MtlsBrokerProviderTransport: up, phase, cleanup asked, sequence, rv, epoch
    calls,            \* the worker's calls, by sequence number
    broker,           \* BrokerServer: up, phase, last_sequence
    handlers,         \* connections of the broker
    effects,          \* provider mutations: worker process, sequence, epoch reserved
    runs,             \* worker processes started, restarts left, receipt consumed
    clean             \* every call so far was answered

vars == <<clock, lease, worker, calls, broker, handlers, effects, runs, clean>>

Operation == {"admission", "cleanup", "read", "release"}

(* WireOperation::is_mutation, is_admission: prepare and mint are            *)
(* "admission", cleanup and erase "cleanup", observe and present "read". *)
IsMutation(op) == op # "read"

NoCall == [op |-> "read", stage |-> "none"]

(* The Lease as installed with the receipt; broker and worker have started. *)
Init ==
    /\ clock = "admission"
    /\ lease = [rv |-> 1, epoch |-> InitialEpoch, phase |-> "admission"]
    /\ worker = [up |-> TRUE, phase |-> "admission", cleanup |-> FALSE, sequence |-> 0,
                 rv |-> 1, epoch |-> InitialEpoch]
    /\ calls = [n \in 1..MaxCalls |-> NoCall]
    /\ broker = [up |-> TRUE, phase |-> "admission", last |-> 0]
    /\ handlers = {}
    /\ effects = <<>>
    /\ runs = [worker |-> 1, left |-> MaxRestarts, consumed |-> FALSE]
    /\ clean = TRUE

(* BrokerFence::validate_operation, with the fence of either process. *)
Permits(phase, op) ==
    /\ phase \notin {"released", "quarantined"}
    /\ op = "admission" => phase = "admission" /\ clock = "admission"
    /\ IsMutation(op) => clock # "over"
-----------------------------------------------------------------------------
(* MtlsBrokerProviderTransport::call.                                        *)

Open == {n \in 1..MaxCalls : calls[n].stage # "none"}
Stage(n, stage) == calls' = [calls EXCEPT ![n].stage = stage]

(* The fence, then the sequence number, before the lease view is locked.     *)
(* The reservation of the lobby consumes the receipt before its first call;  *)
(* only the cleanup task releases. *)
Number(op) ==
    /\ worker.up /\ Permits(worker.phase, op)
    /\ op = "release" => worker.cleanup
    /\ worker.sequence < MaxCalls /\ Cardinality(Open) < MaxOpen
    /\ worker' = [worker EXCEPT !.sequence = @ + 1]
    /\ calls' = [calls EXCEPT ![worker.sequence + 1] = [op |-> op, stage |-> "numbered"]]
    /\ runs' = [runs EXCEPT !.consumed = @ \/ op = "admission"]
    /\ UNCHANGED <<clock, lease, broker, handlers, effects, clean>>

(* The lease view is locked and the frame is sent; a connection that cannot  *)
(* be made fails the call.  The lock is held until the answer. *)
Frame(n) ==
    [process |-> runs.worker, sequence |-> n, op |-> calls[n].op,
     rv |-> worker.rv, epoch |-> worker.epoch, stage |-> "received", result |-> "none"]
Send(n) ==
    /\ calls[n].stage = "numbered" /\ \A m \in Open : calls[m].stage # "sent"
    /\ \/ /\ broker.up /\ Permits(broker.phase, calls[n].op)
          /\ Stage(n, "sent") /\ handlers' = handlers \cup {Frame(n)} /\ UNCHANGED clean
       \/ Stage(n, "none") /\ UNCHANGED handlers /\ clean' = FALSE
    /\ UNCHANGED <<clock, lease, worker, broker, effects, runs>>

Mine(h, n) == h.process = runs.worker /\ h.sequence = n

(* The view of the Lease after an authenticated answer. *)
ViewAfter(h) == [worker EXCEPT !.rv = h.result, !.epoch = IF IsMutation(h.op) THEN @ + 1 ELSE @]

Receive(n) ==
    /\ calls[n].stage = "sent"
    /\ \E h \in handlers :
           /\ Mine(h, n) /\ h.stage = "answered"
           /\ handlers' = handlers \ {h}
           /\ worker' = ViewAfter(h)
    /\ Stage(n, "none")
    /\ UNCHANGED <<clock, lease, broker, effects, runs, clean>>

(* The connection closes without an answer, or the caller's timeout drops    *)
(* the call at either await: the view stays as it was. *)
Abandon(n) ==
    /\ calls[n].stage \in {"numbered", "sent"}
    /\ Stage(n, "none") /\ clean' = FALSE
    /\ handlers' = {h \in handlers : ~(Mine(h, n) /\ h.stage = "answered")}
    /\ UNCHANGED <<clock, lease, worker, broker, effects, runs>>
-----------------------------------------------------------------------------
(* handle_connection, after the frame was authenticated and the fence        *)
(* checked.                                                                  *)

Locked == \E h \in handlers : h.stage \in {"read", "reserved"}
Move(h, g) == handlers' = (handlers \ {h}) \cup {g}

(* The handler ends without an answer. *)
Drop(h) == handlers' = handlers \ {h}

(* last_sequence is locked and the Lease read. *)
InSequence(h) == h.sequence = broker.last + 1

(* Fault: the phase is not compared. *)
LeaseMatchesVersion(h) == lease.rv = h.rv /\ lease.epoch = h.epoch

LeaseMatches(h) == lease.rv = h.rv /\ lease.epoch = h.epoch /\ lease.phase = broker.phase
ReadLease(h) ==
    /\ h.stage = "received" /\ ~Locked
    /\ \/ InSequence(h) /\ LeaseMatches(h) /\ Move(h, [h EXCEPT !.stage = "read"])
       \/ Drop(h)
    /\ UNCHANGED <<clock, lease, worker, calls, broker, effects, runs, clean>>

(* compare_and_swap of the next epoch before the provider is called; the     *)
(* answer of the swap may be lost. *)
Swapped(h) == [rv |-> lease.rv + 1, epoch |-> lease.epoch + 1,
               phase |-> IF h.op = "release" THEN "released" ELSE lease.phase]
Reserve(h) ==
    /\ h.stage = "read"
    /\ IF IsMutation(h.op)
       THEN \/ /\ lease' = Swapped(h)
               /\ Move(h, [h EXCEPT !.stage = "reserved", !.result = lease.rv + 1])
            \/ lease' \in {lease, Swapped(h)} /\ Drop(h)
       ELSE /\ lease' = lease
            /\ Move(h, [h EXCEPT !.stage = "reserved", !.result = lease.rv])
    /\ UNCHANGED <<clock, worker, calls, broker, effects, runs, clean>>

(* dispatch: a mutation may have been made although the provider failed;     *)
(* only a success advances last_sequence and is answered. *)
Effect(h) == [process |-> h.process, sequence |-> h.sequence, epoch |-> h.epoch]
Dispatch(h) ==
    /\ h.stage = "reserved"
    /\ effects' \in IF h.op \in {"admission", "cleanup"} THEN {effects, Append(effects, Effect(h))}
                    ELSE {effects}
    /\ \/ /\ h.op \in {"admission", "cleanup"} => effects' # effects
          /\ broker' = [broker EXCEPT !.last = h.sequence]
          /\ \/ Move(h, [h EXCEPT !.stage = "answered"])
             \/ Drop(h)
       \/ h.op # "release" /\ broker' = broker /\ Drop(h)
    /\ UNCHANGED <<clock, lease, worker, calls, runs, clean>>
-----------------------------------------------------------------------------
(* Restarts and time.                                                        *)

(* The worker stops; its frames may still be handled. *)
WorkerStops ==
    /\ worker.up /\ worker' = [worker EXCEPT !.up = FALSE]
    /\ calls' = [n \in 1..MaxCalls |-> NoCall]
    /\ handlers' = {h \in handlers : h.stage # "answered"}
    /\ clean' = FALSE
    /\ UNCHANGED <<clock, lease, broker, effects, runs>>

(* verify_protected_alpha_inner: a receipt that was not consumed admits      *)
(* until the play deadline; a consumed one allows cleanup until the last. *)
ReceiptHolds(recovery) == IF recovery THEN clock # "over" ELSE clock = "admission"

(* The launcher and MtlsBrokerProviderTransport::new: the Lease must still   *)
(* hold the receipt's epoch, and numbering starts again.  A worker that      *)
(* recovers starts with cleanup. *)
WorkerStarts ==
    /\ ~worker.up /\ runs.left > 0 /\ ReceiptHolds(runs.consumed)
    /\ lease.epoch = InitialEpoch /\ lease.phase \in {"admission", "cleanup_only"}
    /\ worker' = [up |-> TRUE, phase |-> lease.phase, cleanup |-> runs.consumed,
                  sequence |-> 0, rv |-> lease.rv, epoch |-> lease.epoch]
    /\ runs' = [runs EXCEPT !.worker = @ + 1, !.left = @ - 1]
    /\ UNCHANGED <<clock, lease, calls, broker, handlers, effects, clean>>

(* The launcher's "C": termination was asked for, or the play deadline. *)
CleanupSignal ==
    /\ worker.up /\ ~worker.cleanup
    /\ worker' = [worker EXCEPT !.cleanup = TRUE]
    /\ UNCHANGED <<clock, lease, calls, broker, handlers, effects, runs, clean>>

(* The broker process ends with its connections. *)
BrokerStops ==
    /\ broker.up /\ broker' = [broker EXCEPT !.up = FALSE]
    /\ handlers' = {} /\ clean' = FALSE
    /\ UNCHANGED <<clock, lease, worker, calls, effects, runs>>

(* The broker's main: any epoch the receipt's run reached. *)
BrokerStarts ==
    /\ ~broker.up /\ runs.left > 0 /\ ReceiptHolds(TRUE)
    /\ lease.epoch >= InitialEpoch /\ lease.phase \in {"admission", "cleanup_only"}
    /\ broker' = [up |-> TRUE, phase |-> lease.phase, last |-> 0]
    /\ runs' = [runs EXCEPT !.left = @ - 1]
    /\ UNCHANGED <<clock, lease, worker, calls, handlers, effects, clean>>

Deadline ==
    /\ clock # "over"
    /\ clock' = IF clock = "admission" THEN "cleanup" ELSE "over"
    /\ UNCHANGED <<lease, worker, calls, broker, handlers, effects, runs, clean>>

Next ==
    \/ \E op \in Operation : Number(op)
    \/ \E n \in 1..MaxCalls : Send(n) \/ Receive(n) \/ Abandon(n)
    \/ \E h \in handlers : ReadLease(h) \/ Reserve(h) \/ Dispatch(h)
    \/ WorkerStops \/ WorkerStarts \/ CleanupSignal \/ BrokerStops \/ BrokerStarts \/ Deadline

Spec == Init /\ [][Next]_vars
-----------------------------------------------------------------------------
(* Every provider mutation has a lease epoch of its own, reserved before it  *)
(* is made, whatever was cancelled, lost or restarted meanwhile; so no frame *)
(* is ever carried out twice.                                                *)
EffectsHaveTheirEpoch ==
    \A i \in DOMAIN effects :
        /\ effects[i].epoch < lease.epoch
        /\ \A j \in DOMAIN effects : i < j => effects[i].epoch < effects[j].epoch

(* Once the Lease is released the provider is left alone, also by a frame    *)
(* that was on its way before. *)
ReleasedIsQuiet ==
    lease.phase = "released" => effects' = effects /\ lease' = lease

(* The lock step of the channel: as long as every call was answered and none *)
(* is open, the worker's number and its view of the Lease are the broker's.  *)
ChannelAgrees ==
    clean /\ Open = {} =>
        /\ handlers = {}
        /\ worker.sequence = broker.last
        /\ worker.rv = lease.rv /\ worker.epoch = lease.epoch

(* The three together, at every step. *)
EffectsAreFenced == [][EffectsHaveTheirEpoch' /\ ChannelAgrees' /\ ReleasedIsQuiet]_vars
=============================================================================
