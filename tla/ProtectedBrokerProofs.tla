------------------------ MODULE ProtectedBrokerProofs ------------------------
(* The fence of the protected broker, for any number of calls and restarts.  *)
(* Effects are ordered because one handler at a time holds last_sequence,    *)
(* what it read of the Lease stays true until its own swap, and nothing      *)
(* between the swap and the provider's answer moves the Lease again.         *)
EXTENDS ProtectedBroker, TLAPS, SequenceTheorems

Phase == {"admission", "cleanup_only"}
Handler == [process : Nat, sequence : 1..MaxCalls, op : Operation, rv : Nat, epoch : Nat,
            stage : {"received", "read", "reserved", "answered"}, result : Nat \cup {"none"}]

TypeOK ==
    /\ lease \in [rv : Nat, epoch : Nat, phase : Phase \cup {"released"}]
    /\ worker \in [up : BOOLEAN, phase : Phase, cleanup : BOOLEAN, sequence : Nat,
                   rv : Nat, epoch : Nat]
    /\ calls \in [1..MaxCalls -> [op : Operation, stage : {"none", "numbered", "sent"}]]
    /\ broker \in [up : BOOLEAN, phase : Phase, last : Nat]
    /\ handlers \subseteq Handler
    /\ effects \in Seq([process : Nat, sequence : Nat, epoch : Nat])
    /\ runs \in [worker : Nat, left : Nat, consumed : BOOLEAN]
    /\ clean \in BOOLEAN
    /\ \A h \in handlers : h.stage \in {"reserved", "answered"} => h.result \in Nat
    /\ worker.sequence <= MaxCalls

Holding(h) == h.stage \in {"read", "reserved"}

(* last_sequence is a lock. *)
OneHolds == \A g, h \in handlers : Holding(g) /\ Holding(h) => g = h

(* What the handler that holds the lock knows of the Lease. *)
Knows(h) ==
    /\ h.stage = "read" =>
           lease.rv = h.rv /\ lease.epoch = h.epoch /\ lease.phase = broker.phase
    /\ h.stage = "reserved" /\ IsMutation(h.op) =>
           /\ lease.epoch = h.epoch + 1
           /\ \A i \in DOMAIN effects : effects[i].epoch < h.epoch
    /\ h.stage = "reserved" /\ h.op \in {"admission", "cleanup"} => lease.phase # "released"

(* A broker that is down has no connection. *)
DownIsIdle == ~broker.up => handlers = {}

FenceInv ==
    /\ TypeOK
    /\ DownIsIdle
    /\ OneHolds
    /\ \A h \in handlers : Knows(h)
    /\ EffectsHaveTheirEpoch

(* While every call was answered: the one handler there may be is that of    *)
(* the one call sent, and everything else is settled. *)
NoneSent == \A n \in 1..MaxCalls : calls[n].stage # "sent"
InView == worker.rv = lease.rv /\ worker.epoch = lease.epoch

CallsFit ==
    /\ broker.last <= worker.sequence
    /\ \A n \in 1..MaxCalls :
           /\ calls[n].stage # "none" => n <= worker.sequence
           /\ n <= worker.sequence /\ calls[n].stage = "none" => n <= broker.last
           /\ calls[n].stage = "numbered" => n > broker.last
    /\ \A m, n \in 1..MaxCalls : calls[m].stage = "sent" /\ calls[n].stage = "sent" => m = n

HandlerFits(h) ==
    /\ h.process = runs.worker
    /\ calls[h.sequence].stage = "sent"
    /\ h.stage \in {"received", "read"} => InView
    /\ h.stage \in {"reserved", "answered"} =>
           /\ h.result = lease.rv
           /\ lease.epoch = IF IsMutation(h.op) THEN worker.epoch + 1 ELSE worker.epoch
    /\ Holding(h) => h.sequence = broker.last + 1
    /\ h.stage = "answered" => h.sequence = broker.last

LockStep ==
    clean =>
        /\ worker.up /\ broker.up
        /\ CallsFit
        /\ NoneSent => handlers = {} /\ InView
        /\ \A g, h \in handlers : g = h
        /\ \A h \in handlers : HandlerFits(h)
-----------------------------------------------------------------------------
(* The bounds of the model and the receipt's epoch are numbers. *)
Bounds == MaxCalls \in Nat /\ InitialEpoch \in Nat /\ MaxRestarts \in Nat

LEMMA Prefix == TypeOK => DOMAIN effects = 1..Len(effects) /\ Len(effects) \in Nat
BY DEF TypeOK

LEMMA EffectTypes == TypeOK => \A i \in DOMAIN effects : effects[i].epoch \in Nat
<1> DEFINE E == [process : Nat, sequence : Nat, epoch : Nat]
<1> SUFFICES ASSUME TypeOK, NEW i \in DOMAIN effects PROVE effects[i].epoch \in Nat
  OBVIOUS
<1>1. effects \in Seq(E) /\ i \in 1..Len(effects)
  BY Prefix DEF TypeOK
<1>2. effects[i] \in E
  <2> HIDE DEF E
  <2> QED BY <1>1
<1> QED BY <1>2

LEMMA FenceInit == ASSUME Bounds, Init PROVE FenceInv
<1>1. TypeOK
  BY EmptySeq DEF Bounds, Init, TypeOK, Phase, NoCall, Operation
<1> QED BY <1>1 DEF Init, FenceInv, DownIsIdle, OneHolds, EffectsHaveTheirEpoch

(* The worker's side: numbers, calls and frames keep their types. *)
LEMMA WorkerTypes ==
    ASSUME Bounds, TypeOK,
           \/ \E op \in Operation : Number(op)
           \/ \E n \in 1..MaxCalls : Send(n) \/ Receive(n) \/ Abandon(n)
           \/ WorkerStops \/ WorkerStarts \/ CleanupSignal
    PROVE  TypeOK'
<1>1. ASSUME NEW op \in Operation, Number(op) PROVE TypeOK'
  <2>1. worker.sequence + 1 \in 1..MaxCalls
    BY <1>1 DEF Bounds, TypeOK, Number
  <2>2. calls' \in [1..MaxCalls -> [op : Operation, stage : {"none", "numbered", "sent"}]]
    BY <1>1, <2>1 DEF TypeOK, Number
  <2>3. runs' \in [worker : Nat, left : Nat, consumed : BOOLEAN]
    <3>1. runs' = [runs EXCEPT !.consumed = @ \/ op = "admission"]
      BY <1>1 DEF Number
    <3>2. runs \in [worker : Nat, left : Nat, consumed : BOOLEAN]
      BY DEF TypeOK
    <3>3. (runs.consumed \/ op = "admission") \in BOOLEAN
      OBVIOUS
    <3> QED BY ONLY <3>1, <3>2, <3>3
  <2>4. /\ worker' \in [up : BOOLEAN, phase : Phase, cleanup : BOOLEAN, sequence : Nat,
                        rv : Nat, epoch : Nat]
        /\ worker'.sequence <= MaxCalls
    <3>1. worker' = [worker EXCEPT !.sequence = @ + 1]
      BY <1>1 DEF Number
    <3>2. worker \in [up : BOOLEAN, phase : Phase, cleanup : BOOLEAN, sequence : Nat,
                      rv : Nat, epoch : Nat]
      BY DEF TypeOK
    <3>3. worker.sequence + 1 \in Nat /\ worker.sequence + 1 <= MaxCalls
      BY <2>1, <3>2 DEF Bounds
    <3>4. worker'.sequence = worker.sequence + 1
      BY ONLY <3>1, <3>2
    <3> QED BY ONLY <3>1, <3>2, <3>3, <3>4
  <2> QED BY <1>1, <2>2, <2>3, <2>4 DEF TypeOK, Number
<1>2. ASSUME NEW n \in 1..MaxCalls, Send(n) PROVE TypeOK'
  <2>1. Frame(n) \in Handler /\ Frame(n).stage = "received"
    <3>1. /\ runs.worker \in Nat /\ worker.rv \in Nat /\ worker.epoch \in Nat
          /\ calls[n].op \in Operation
      BY DEF TypeOK
    <3> QED BY <3>1 DEF Frame, Handler
  <2>2. calls' \in [1..MaxCalls -> [op : Operation, stage : {"none", "numbered", "sent"}]]
    <3>1. PICK stage \in {"none", "sent"} : Stage(n, stage)
      BY <1>2 DEF Send
    <3> QED BY <3>1 DEF TypeOK, Stage
  <2>3. handlers' \subseteq handlers \cup {Frame(n)} /\ clean' \in BOOLEAN
    BY <1>2 DEF TypeOK, Send
  <2> QED BY <1>2, <2>1, <2>2, <2>3 DEF TypeOK, Send
<1>3. ASSUME NEW n \in 1..MaxCalls, Receive(n) PROVE TypeOK'
  <2>1. PICK h \in handlers : Mine(h, n) /\ h.stage = "answered" /\ handlers' = handlers \ {h}
                              /\ worker' = ViewAfter(h)
    BY <1>3 DEF Receive
  <2>2. /\ worker' \in [up : BOOLEAN, phase : Phase, cleanup : BOOLEAN, sequence : Nat,
                        rv : Nat, epoch : Nat]
        /\ worker'.sequence = worker.sequence
    <3>1. h.result \in Nat
      BY <2>1 DEF TypeOK
    <3> DEFINE e == IF IsMutation(h.op) THEN worker.epoch + 1 ELSE worker.epoch
    <3>2. e \in Nat
      BY DEF TypeOK
    <3>3. worker' = [worker EXCEPT !.rv = h.result, !.epoch = e]
      BY <2>1 DEF ViewAfter
    <3> HIDE DEF e
    <3> QED BY <3>1, <3>2, <3>3 DEF TypeOK
  <2>3. calls' \in [1..MaxCalls -> [op : Operation, stage : {"none", "numbered", "sent"}]]
    BY <1>3 DEF TypeOK, Receive, Stage
  <2> QED BY <1>3, <2>1, <2>2, <2>3 DEF TypeOK, Receive
<1>4. ASSUME NEW n \in 1..MaxCalls, Abandon(n) PROVE TypeOK'
  <2>1. calls' \in [1..MaxCalls -> [op : Operation, stage : {"none", "numbered", "sent"}]]
    BY <1>4 DEF TypeOK, Abandon, Stage
  <2>2. handlers' \subseteq handlers
    BY <1>4 DEF Abandon
  <2> QED BY <1>4, <2>1, <2>2 DEF TypeOK, Abandon
<1>5. CASE WorkerStops
  <2>1. handlers' \subseteq handlers
    BY <1>5 DEF WorkerStops
  <2> QED BY <1>5, <2>1 DEF TypeOK, WorkerStops, NoCall, Operation
<1>6. CASE WorkerStarts
  <2>1. /\ worker' \in [up : BOOLEAN, phase : Phase, cleanup : BOOLEAN, sequence : Nat,
                        rv : Nat, epoch : Nat]
        /\ worker'.sequence <= MaxCalls
    <3>1. lease.phase \in Phase /\ lease.rv \in Nat /\ lease.epoch \in Nat /\ runs.consumed \in BOOLEAN
      BY <1>6 DEF TypeOK, WorkerStarts, Phase
    <3> QED BY <1>6, <3>1 DEF WorkerStarts, Bounds
  <2>2. runs' \in [worker : Nat, left : Nat, consumed : BOOLEAN]
    <3>1. runs.left - 1 \in Nat /\ runs.worker + 1 \in Nat
      BY <1>6 DEF TypeOK, WorkerStarts
    <3> QED BY <1>6, <3>1 DEF TypeOK, WorkerStarts
  <2> QED BY <1>6, <2>1, <2>2 DEF TypeOK, WorkerStarts
<1>7. CASE CleanupSignal
  BY <1>7 DEF TypeOK, CleanupSignal
<1> QED BY <1>1, <1>2, <1>3, <1>4, <1>5, <1>6, <1>7

(* The handlers that hold the lock, and what they know, are as before. *)
LEMMA LockAlone ==
    ASSUME FenceInv, TypeOK', \A h \in handlers' : Holding(h) => h \in handlers,
           UNCHANGED <<lease, effects>>, broker'.phase = broker.phase \/ handlers' = {},
           DownIsIdle'
    PROVE  FenceInv'
<1>1. OneHolds'
  BY DEF FenceInv, OneHolds, Holding
<1>2. ASSUME NEW h \in handlers' PROVE Knows(h)'
  <2>1. CASE Holding(h)
    BY <1>2, <2>1 DEF FenceInv, Knows, Holding
  <2>2. CASE ~Holding(h)
    BY <2>2 DEF Knows, Holding
  <2> QED BY <2>1, <2>2
<1>3. EffectsHaveTheirEpoch'
  BY DEF FenceInv, EffectsHaveTheirEpoch
<1> QED BY <1>1, <1>2, <1>3 DEF FenceInv

(* A handler that moves on keeps its frame. *)
LEMMA StageMoves ==
    ASSUME TypeOK, NEW h \in handlers, NEW st \in {"read", "reserved", "answered"},
           NEW g, g = [h EXCEPT !.stage = st]
    PROVE  /\ g \in Handler
           /\ g.process = h.process /\ g.sequence = h.sequence /\ g.op = h.op
           /\ g.rv = h.rv /\ g.epoch = h.epoch /\ g.stage = st /\ g.result = h.result
<1>1. h \in Handler
  BY DEF TypeOK
<1> QED BY ONLY <1>1, st \in {"read", "reserved", "answered"}, g = [h EXCEPT !.stage = st]
        DEF Handler

LEMMA ReadLeaseKeeps ==
    ASSUME FenceInv, NEW h \in handlers, ReadLease(h)
    PROVE  FenceInv'
<1> DEFINE g == [h EXCEPT !.stage = "read"]
<1>0. TypeOK /\ OneHolds /\ DownIsIdle
  BY DEF FenceInv
<1>1. CASE Drop(h)
  <2>1. handlers' \subseteq handlers
    BY <1>1 DEF Drop
  <2>2. TypeOK'
    BY <1>0, <2>1 DEF TypeOK, ReadLease
  <2> QED BY <1>0, <2>1, <2>2, LockAlone DEF ReadLease, DownIsIdle
<1>2. CASE LeaseMatches(h) /\ Move(h, g)
  <2>1. /\ g \in Handler /\ g.stage = "read" /\ g.rv = h.rv /\ g.epoch = h.epoch
    BY <1>0, StageMoves
  <2> HIDE DEF g
  <2>2. /\ handlers' = (handlers \ {h}) \cup {g}
        /\ \A x \in handlers : ~Holding(x)
    BY <1>2 DEF Move, ReadLease, Locked, Holding
  <2>3. TypeOK'
    BY <1>0, <2>1, <2>2 DEF TypeOK, ReadLease
  <2>4. OneHolds'
    BY <2>2 DEF OneHolds
  <2>5. ASSUME NEW x \in handlers' PROVE Knows(x)'
    <3>1. CASE x = g
      BY <1>2, <2>1, <3>1 DEF Knows, LeaseMatches, ReadLease
    <3>2. CASE x # g
      BY <2>2, <2>5, <3>2 DEF Knows, Holding
    <3> QED BY <3>1, <3>2
  <2>6. EffectsHaveTheirEpoch' /\ DownIsIdle'
    BY <1>0 DEF FenceInv, EffectsHaveTheirEpoch, ReadLease, DownIsIdle
  <2> QED BY <2>3, <2>4, <2>5, <2>6 DEF FenceInv
<1> QED BY <1>1, <1>2 DEF ReadLease

(* The swap of the handler that holds the lock: the epoch it read is left    *)
(* behind for its effect alone. *)
LEMMA ReserveKeeps ==
    ASSUME FenceInv, NEW h \in handlers, Reserve(h)
    PROVE  FenceInv'
<1>0. TypeOK /\ OneHolds /\ DownIsIdle /\ EffectsHaveTheirEpoch /\ Knows(h)
  BY DEF FenceInv
<1>1. /\ lease.rv \in Nat /\ lease.epoch \in Nat /\ lease.phase \in Phase
      /\ lease.epoch = h.epoch /\ Holding(h) /\ h \in Handler
  BY <1>0 DEF TypeOK, Knows, Reserve, Holding
<1>2. /\ lease' \in [rv : Nat, epoch : Nat, phase : Phase \cup {"released"}]
      /\ lease' = lease \/ lease' = Swapped(h)
  BY <1>0, <1>1 DEF Reserve, Swapped, TypeOK
<1>3. Swapped(h).epoch = lease.epoch + 1 /\ (Swapped(h).phase = "released" => h.op = "release")
  BY <1>1 DEF Swapped, Phase
<1>4. EffectsHaveTheirEpoch'
  <2>1. lease'.epoch \in Nat /\ lease.epoch <= lease'.epoch
    BY <1>1, <1>2, <1>3
  <2>2. \A i \in DOMAIN effects : effects[i].epoch \in Nat
    BY <1>0, EffectTypes
  <2> QED BY <1>0, <1>1, <2>1, <2>2 DEF EffectsHaveTheirEpoch, Reserve
<1>5. ASSUME NEW x \in handlers, x # h PROVE ~Holding(x)
  BY <1>0, <1>1, <1>5 DEF OneHolds
<1>6. CASE Drop(h)
  <2>1. \A x \in handlers' : x \in handlers /\ ~Holding(x)
    BY <1>5, <1>6 DEF Drop
  <2>2. TypeOK'
    BY <1>0, <1>2, <2>1 DEF TypeOK, Reserve
  <2> QED BY <1>0, <1>4, <2>1, <2>2 DEF FenceInv, OneHolds, Knows, Holding, DownIsIdle, Reserve
<1>7. CASE \E r \in Nat : /\ Move(h, [h EXCEPT !.stage = "reserved", !.result = r])
                          /\ lease' = IF IsMutation(h.op) THEN Swapped(h) ELSE lease
  <2>1. PICK r \in Nat : Move(h, [h EXCEPT !.stage = "reserved", !.result = r])
    BY <1>7
  <2> DEFINE g == [h EXCEPT !.stage = "reserved", !.result = r]
  <2>2. g \in Handler /\ g.op = h.op /\ g.epoch = h.epoch /\ g.stage = "reserved" /\ g.result = r
    BY ONLY <1>1, r \in Nat DEF Handler
  <2> HIDE DEF g
  <2>3. handlers' = (handlers \ {h}) \cup {g}
    BY <2>1 DEF Move, g
  <2>4. TypeOK'
    BY <1>0, <1>2, <2>2, <2>3 DEF TypeOK, Reserve
  <2>5. OneHolds'
    BY <1>5, <2>3 DEF OneHolds
  <2>6. Knows(g)'
    <3>1. IsMutation(g.op) => lease'.epoch = g.epoch + 1
      BY <1>1, <1>3, <1>7, <2>2
    <3>2. \A i \in DOMAIN effects : effects[i].epoch < g.epoch
      BY <1>0, <1>1, <2>2 DEF EffectsHaveTheirEpoch
    <3>3. g.op \in {"admission", "cleanup"} => lease'.phase # "released"
      BY <1>1, <1>3, <1>7, <2>2 DEF Phase
    <3> QED BY <2>2, <3>1, <3>2, <3>3 DEF Knows, Reserve
  <2>7. ASSUME NEW x \in handlers', x # g PROVE Knows(x)'
    BY <1>5, <2>3, <2>7 DEF Knows, Holding
  <2> QED BY <1>0, <1>4, <2>4, <2>5, <2>6, <2>7 DEF FenceInv, DownIsIdle, Reserve
<1>8. Drop(h) \/ \E r \in Nat : /\ Move(h, [h EXCEPT !.stage = "reserved", !.result = r])
                                /\ lease' = IF IsMutation(h.op) THEN Swapped(h) ELSE lease
  <2>1. lease.rv + 1 \in Nat
    BY <1>1
  <2> QED BY <1>1, <2>1 DEF Reserve
<1> QED BY <1>6, <1>7, <1>8

(* The provider is called under the lock, with the epoch just left behind. *)
LEMMA DispatchKeeps ==
    ASSUME FenceInv, NEW h \in handlers, Dispatch(h)
    PROVE  FenceInv'
<1> DEFINE g == [h EXCEPT !.stage = "answered"]
<1>0. TypeOK /\ OneHolds /\ DownIsIdle /\ EffectsHaveTheirEpoch /\ Knows(h)
  BY DEF FenceInv
<1>1. h \in Handler /\ h.stage = "reserved" /\ Holding(h)
  BY <1>0 DEF TypeOK, Dispatch, Holding
<1>2. /\ g \in Handler /\ g.stage = "answered" /\ g.result = h.result
  <2>1. g = [h EXCEPT !.stage = "answered"]
    OBVIOUS
  <2> HIDE DEF g
  <2> QED BY <1>0, <2>1, StageMoves
<1> HIDE DEF g
<1>3. /\ \A x \in handlers' : ~Holding(x)
      /\ \A x \in handlers' : x \in handlers \/ x = g
  <2>1. handlers' = (handlers \ {h}) \cup {g} \/ handlers' = handlers \ {h}
    BY DEF Dispatch, Move, Drop, g
  <2> QED BY <1>0, <1>1, <1>2, <2>1 DEF OneHolds, Holding
<1>4. /\ broker' \in [up : BOOLEAN, phase : Phase, last : Nat]
      /\ broker'.up = broker.up
  <2>1. h.sequence \in Nat /\ broker \in [up : BOOLEAN, phase : Phase, last : Nat]
    BY <1>0, <1>1 DEF TypeOK, Handler
  <2>2. broker' = broker \/ broker' = [broker EXCEPT !.last = h.sequence]
    BY DEF Dispatch
  <2> QED BY ONLY <2>1, <2>2
<1>5. CASE effects' = effects
  <2>1. TypeOK'
    BY <1>0, <1>1, <1>2, <1>3, <1>4, <1>5 DEF TypeOK, Dispatch
  <2>2. EffectsHaveTheirEpoch'
    BY <1>0, <1>5 DEF EffectsHaveTheirEpoch, Dispatch
  <2>3. DownIsIdle'
    BY <1>0, <1>4 DEF DownIsIdle
  <2> QED BY <1>3, <2>1, <2>2, <2>3 DEF FenceInv, OneHolds, Knows, Holding
<1>6. CASE effects' = Append(effects, Effect(h)) /\ h.op \in {"admission", "cleanup"}
  <2> DEFINE E == [process : Nat, sequence : Nat, epoch : Nat]
  <2>1. effects \in Seq(E) /\ Effect(h) \in E /\ Effect(h).epoch = h.epoch
    BY <1>0, <1>1 DEF TypeOK, Effect, Handler
  <2>2. /\ effects' \in Seq(E) /\ DOMAIN effects' = 1..(Len(effects) + 1)
        /\ effects'[Len(effects) + 1].epoch = h.epoch
        /\ \A i \in 1..Len(effects) : effects'[i] = effects[i]
    <3> HIDE DEF E
    <3> QED BY <1>6, <2>1
  <2>3. TypeOK'
    BY <1>0, <1>1, <1>2, <1>3, <1>4, <2>2 DEF TypeOK, Dispatch
  <2>4. /\ lease.epoch = h.epoch + 1 /\ h.epoch \in Nat
        /\ \A i \in DOMAIN effects : effects[i].epoch < h.epoch
    BY <1>0, <1>1, <1>6 DEF Knows, IsMutation, Handler
  <2>5. EffectsHaveTheirEpoch'
    <3>1. DOMAIN effects = 1..Len(effects) /\ Len(effects) \in Nat
      BY <1>0, Prefix
    <3>2. \A i \in DOMAIN effects : effects[i].epoch \in Nat
      BY <1>0, EffectTypes
    <3>3. lease' = lease
      BY DEF Dispatch
    <3>4. ASSUME NEW i \in DOMAIN effects' PROVE effects'[i].epoch < lease'.epoch
      <4>1. CASE i = Len(effects) + 1
        BY <2>2, <2>4, <3>3, <4>1
      <4>2. CASE i # Len(effects) + 1
        <5>1. i \in DOMAIN effects
          BY <2>2, <3>1, <3>4, <4>2
        <5> QED BY <1>0, <2>2, <3>1, <3>3, <5>1 DEF EffectsHaveTheirEpoch
      <4> QED BY <4>1, <4>2
    <3>5. ASSUME NEW i \in DOMAIN effects', NEW j \in DOMAIN effects', i < j
          PROVE  effects'[i].epoch < effects'[j].epoch
      <4>0. i \in DOMAIN effects
        BY <2>2, <3>1, <3>5
      <4>1. CASE j = Len(effects) + 1
        BY <2>2, <2>4, <3>1, <4>0, <4>1
      <4>2. CASE j # Len(effects) + 1
        <5>1. j \in DOMAIN effects
          BY <2>2, <3>1, <3>5, <4>2
        <5> QED BY <1>0, <2>2, <3>1, <3>5, <4>0, <5>1 DEF EffectsHaveTheirEpoch
      <4> QED BY <4>1, <4>2
    <3> QED BY <3>4, <3>5 DEF EffectsHaveTheirEpoch
  <2>6. DownIsIdle'
    BY <1>0, <1>4 DEF DownIsIdle
  <2> QED BY <1>3, <2>3, <2>5, <2>6 DEF FenceInv, OneHolds, Knows, Holding
<1> QED BY <1>5, <1>6 DEF Dispatch

LEMMA FenceStep == ASSUME Bounds, FenceInv, [Next]_vars PROVE FenceInv'
<1>0. TypeOK /\ DownIsIdle
  BY DEF FenceInv
<1>1. CASE UNCHANGED vars
  BY <1>1 DEF vars, FenceInv, TypeOK, DownIsIdle, OneHolds, Knows, EffectsHaveTheirEpoch
<1>2. CASE \/ \E op \in Operation : Number(op)
           \/ \E n \in 1..MaxCalls : Send(n) \/ Receive(n) \/ Abandon(n)
           \/ WorkerStops \/ WorkerStarts \/ CleanupSignal
  <2>1. TypeOK'
    BY <1>0, <1>2, WorkerTypes
  <2>2. UNCHANGED <<lease, effects, broker>>
    BY <1>2 DEF Number, Send, Receive, Abandon, WorkerStops, WorkerStarts, CleanupSignal
  <2>3. \/ handlers' \subseteq handlers
        \/ \E n \in 1..MaxCalls : handlers' = handlers \cup {Frame(n)} /\ broker.up
    BY <1>2 DEF Number, Send, Receive, Abandon, WorkerStops, WorkerStarts, CleanupSignal
  <2>4. /\ \A h \in handlers' : Holding(h) => h \in handlers
        /\ DownIsIdle'
    <3>1. \A n : Frame(n).stage = "received"
      BY DEF Frame
    <3> QED BY <1>0, <2>2, <2>3, <3>1 DEF Holding, DownIsIdle
  <2> QED BY <2>1, <2>2, <2>4, LockAlone
<1>3. CASE \E h \in handlers : ReadLease(h) \/ Reserve(h) \/ Dispatch(h)
  BY <1>3, ReadLeaseKeeps, ReserveKeeps, DispatchKeeps
<1>4. CASE BrokerStops
  <2>1. TypeOK'
    BY <1>0, <1>4 DEF TypeOK, BrokerStops
  <2> QED BY <1>4, <2>1, LockAlone DEF BrokerStops, DownIsIdle
<1>5. CASE BrokerStarts
  <2>1. broker' \in [up : BOOLEAN, phase : Phase, last : Nat]
    BY <1>5 DEF BrokerStarts, Phase
  <2>2. runs' \in [worker : Nat, left : Nat, consumed : BOOLEAN]
    <3>1. runs.left - 1 \in Nat
      BY <1>0, <1>5 DEF TypeOK, BrokerStarts
    <3> QED BY <1>0, <1>5, <3>1 DEF TypeOK, BrokerStarts
  <2>3. TypeOK'
    BY <1>0, <1>5, <2>1, <2>2 DEF TypeOK, BrokerStarts
  <2>4. handlers' = {}
    BY <1>0, <1>5 DEF DownIsIdle, BrokerStarts
  <2> QED BY <1>5, <2>3, <2>4, LockAlone DEF BrokerStarts, DownIsIdle
<1>6. CASE Deadline
  <2>1. TypeOK' /\ DownIsIdle'
    BY <1>0, <1>6 DEF TypeOK, DownIsIdle, Deadline
  <2> QED BY <1>6, <2>1, LockAlone DEF Deadline
<1> QED BY <1>1, <1>2, <1>3, <1>4, <1>5, <1>6 DEF Next
-----------------------------------------------------------------------------
(* A released Lease: nobody is between its read and its swap, and whoever    *)
(* swapped is the release itself or a read. *)
LEMMA QuietStep == ASSUME FenceInv, [Next]_vars PROVE ReleasedIsQuiet
<1> SUFFICES ASSUME lease.phase = "released"
             PROVE  effects' = effects /\ lease' = lease
  BY DEF ReleasedIsQuiet
<1>1. ASSUME NEW h \in handlers
      PROVE  /\ h.stage # "read"
             /\ h.stage = "reserved" => h.op \notin {"admission", "cleanup"}
  <2>1. Knows(h) /\ broker.phase \in Phase
    BY DEF FenceInv, TypeOK
  <2> QED BY <2>1 DEF Knows, Phase
<1>2. CASE \E h \in handlers : ReadLease(h) \/ Reserve(h) \/ Dispatch(h)
  BY <1>1, <1>2 DEF ReadLease, Reserve, Dispatch
<1>3. CASE \/ \E op \in Operation : Number(op)
           \/ \E n \in 1..MaxCalls : Send(n) \/ Receive(n) \/ Abandon(n)
  BY <1>3 DEF Number, Send, Receive, Abandon
<1>4. CASE \/ WorkerStops \/ WorkerStarts \/ CleanupSignal \/ BrokerStops \/ BrokerStarts \/ Deadline
           \/ UNCHANGED vars
  BY <1>4 DEF WorkerStops, WorkerStarts, CleanupSignal, BrokerStops, BrokerStarts, Deadline, vars
<1> QED BY <1>2, <1>3, <1>4 DEF Next
-----------------------------------------------------------------------------
LEMMA LockStepInit == ASSUME Bounds, Init PROVE LockStep
BY DEF Bounds, Init, LockStep, CallsFit, NoneSent, InView, NoCall

(* A call takes the next number. *)
LEMMA NumberLocks ==
    ASSUME Bounds, TypeOK, LockStep, clean, NEW op \in Operation, Number(op)
    PROVE  LockStep'
<1> DEFINE k == worker.sequence + 1
<1>0. /\ worker.up /\ broker.up /\ CallsFit
      /\ NoneSent => handlers = {} /\ InView
      /\ \A g, h \in handlers : g = h
      /\ \A h \in handlers : HandlerFits(h)
  BY DEF LockStep
<1>1. /\ k \in 1..MaxCalls /\ worker.sequence \in Nat /\ broker.last \in Nat
      /\ calls[k].stage = "none"
  <2>1. /\ k \in 1..MaxCalls /\ worker.sequence \in Nat /\ broker.last \in Nat
    BY DEF Bounds, TypeOK, Number
  <2> QED BY <1>0, <2>1 DEF CallsFit
<1>2. /\ worker'.sequence = k /\ worker'.up = worker.up
      /\ worker'.rv = worker.rv /\ worker'.epoch = worker.epoch
  <2>1. worker' = [worker EXCEPT !.sequence = @ + 1]
    BY DEF Number
  <2>2. worker \in [up : BOOLEAN, phase : Phase, cleanup : BOOLEAN, sequence : Nat,
                    rv : Nat, epoch : Nat]
    BY DEF TypeOK
  <2> QED BY ONLY <2>1, <2>2
<1>3. /\ calls'[k].stage = "numbered"
      /\ \A n \in 1..MaxCalls : n # k => calls'[n] = calls[n]
  <2>1. calls' = [calls EXCEPT ![k] = [op |-> op, stage |-> "numbered"]]
    BY DEF Number
  <2>2. DOMAIN calls = 1..MaxCalls
    BY DEF TypeOK
  <2> HIDE DEF k
  <2> QED BY ONLY <1>1, <2>1, <2>2
<1>4. runs'.worker = runs.worker
  <2>1. runs' = [runs EXCEPT !.consumed = @ \/ op = "admission"]
    BY DEF Number
  <2>2. runs \in [worker : Nat, left : Nat, consumed : BOOLEAN]
    BY DEF TypeOK
  <2> QED BY ONLY <2>1, <2>2
<1>5. UNCHANGED <<lease, broker, handlers>>
  BY DEF Number
<1> HIDE DEF k
<1>6. CallsFit'
  <2>1. worker'.sequence = worker.sequence + 1
    BY <1>2 DEF k
  <2> QED BY <1>0, <1>1, <1>3, <1>5, <2>1 DEF CallsFit, k
<1>7. NoneSent' => NoneSent
  BY <1>1, <1>3 DEF NoneSent
<1>8. ASSUME NEW h \in handlers PROVE HandlerFits(h)'
  <2>1. h.sequence # k /\ h.sequence \in 1..MaxCalls
    BY <1>0, <1>1 DEF HandlerFits, TypeOK, Handler
  <2>2. calls'[h.sequence] = calls[h.sequence]
    BY <1>3, <2>1
  <2> QED BY <1>0, <1>2, <1>4, <1>5, <2>2 DEF HandlerFits, InView, Holding
<1> QED BY <1>0, <1>2, <1>5, <1>6, <1>7, <1>8 DEF LockStep, InView

(* A call is sent when no other is: there is no handler, and its frame       *)
(* carries the Lease as it is. *)
LEMMA SendLocks ==
    ASSUME TypeOK, LockStep, clean, NEW n \in 1..MaxCalls, Send(n), clean'
    PROVE  LockStep'
<1>0. /\ worker.up /\ broker.up /\ CallsFit
      /\ NoneSent => handlers = {} /\ InView
  BY DEF LockStep
<1>1. /\ calls[n].stage = "numbered" /\ NoneSent
      /\ calls' = [calls EXCEPT ![n].stage = "sent"] /\ handlers' = handlers \cup {Frame(n)}
      /\ UNCHANGED <<lease, worker, broker, runs>>
  BY DEF Send, Stage, NoneSent, Open
<1>2. /\ handlers' = {Frame(n)} /\ InView
  BY <1>0, <1>1
<1>3. /\ calls'[n].stage = "sent"
      /\ \A m \in 1..MaxCalls : m # n => calls'[m] = calls[m]
  BY <1>1 DEF TypeOK
<1>4. CallsFit'
  BY <1>0, <1>1, <1>3 DEF CallsFit, NoneSent
<1>5. ASSUME NEW h \in handlers' PROVE HandlerFits(h)'
  <2>1. h.process = runs.worker /\ h.sequence = n /\ h.stage = "received"
    BY <1>2, <1>5 DEF Frame
  <2> QED BY <1>1, <1>2, <1>3, <2>1 DEF HandlerFits, InView, Holding
<1>6. ~NoneSent'
  BY <1>3 DEF NoneSent
<1> QED BY <1>0, <1>1, <1>2, <1>4, <1>5, <1>6 DEF LockStep

(* The answer brings the worker's view to the Lease its handler left. *)
LEMMA ReceiveLocks ==
    ASSUME TypeOK, LockStep, clean, NEW n \in 1..MaxCalls, Receive(n)
    PROVE  LockStep'
<1>0. /\ worker.up /\ broker.up /\ CallsFit
      /\ \A g, h \in handlers : g = h
      /\ \A h \in handlers : HandlerFits(h)
  BY DEF LockStep
<1>1. PICK h \in handlers : /\ Mine(h, n) /\ h.stage = "answered"
                            /\ handlers' = handlers \ {h} /\ worker' = ViewAfter(h)
  BY DEF Receive
<1>2. /\ handlers' = {} /\ calls[n].stage = "sent" /\ n = broker.last
      /\ h.result = lease.rv
      /\ lease.epoch = IF IsMutation(h.op) THEN worker.epoch + 1 ELSE worker.epoch
  BY <1>0, <1>1 DEF HandlerFits, Mine, Receive
<1>3. /\ worker'.up = worker.up /\ worker'.sequence = worker.sequence
      /\ worker'.rv = lease.rv /\ worker'.epoch = lease.epoch
  <2> DEFINE e == IF IsMutation(h.op) THEN worker.epoch + 1 ELSE worker.epoch
  <2>1. worker' = [worker EXCEPT !.rv = h.result, !.epoch = e]
    BY <1>1 DEF ViewAfter
  <2>2. e = lease.epoch /\ h.result = lease.rv
    BY <1>2
  <2>3. worker \in [up : BOOLEAN, phase : Phase, cleanup : BOOLEAN, sequence : Nat,
                    rv : Nat, epoch : Nat]
    BY DEF TypeOK
  <2> HIDE DEF e
  <2> QED BY ONLY <2>1, <2>2, <2>3
<1>4. UNCHANGED <<lease, broker, clean>>
  BY DEF Receive
<1>5. /\ calls'[n].stage = "none"
      /\ \A m \in 1..MaxCalls : m # n => calls'[m] = calls[m]
  BY DEF Receive, Stage, TypeOK
<1>6. CallsFit'
  <2>1. broker.last \in Nat /\ worker.sequence \in Nat
    BY DEF TypeOK
  <2> QED BY <1>0, <1>2, <1>3, <1>4, <1>5, <2>1 DEF CallsFit
<1> QED BY <1>0, <1>2, <1>3, <1>4, <1>6 DEF LockStep, InView

(* The broker's steps: the worker waits, so its handler moves alone. *)
LEMMA ReadLeaseLocks ==
    ASSUME TypeOK, LockStep, clean, NEW h \in handlers, ReadLease(h)
    PROVE  LockStep'
<1>0. /\ worker.up /\ broker.up /\ CallsFit /\ ~NoneSent
      /\ handlers = {h} /\ HandlerFits(h)
  BY DEF LockStep
<1>1. UNCHANGED <<lease, worker, calls, broker, runs, clean>>
  BY DEF ReadLease
<1>2. CASE Drop(h)
  <2>1. handlers' = {}
    BY <1>0, <1>2 DEF Drop
  <2> QED BY <1>0, <1>1, <2>1 DEF LockStep, CallsFit, NoneSent
<1>3. CASE InSequence(h) /\ Move(h, [h EXCEPT !.stage = "read"])
  <2>1. PICK g : g = [h EXCEPT !.stage = "read"]
    OBVIOUS
  <2>2. g.stage = "read" /\ g.process = h.process /\ g.sequence = h.sequence
    BY <2>1, StageMoves
  <2>3. handlers' = {g}
    BY <1>0, <1>3, <2>1 DEF Move
  <2>4. HandlerFits(g)'
    BY <1>0, <1>1, <1>3, <2>2 DEF HandlerFits, InView, Holding, InSequence, ReadLease
  <2> QED BY <1>0, <1>1, <2>3, <2>4 DEF LockStep, CallsFit, NoneSent
<1> QED BY <1>2, <1>3 DEF ReadLease

LEMMA ReserveLocks ==
    ASSUME TypeOK, LockStep, clean, NEW h \in handlers, Reserve(h)
    PROVE  LockStep'
<1>0. /\ worker.up /\ broker.up /\ CallsFit /\ ~NoneSent
      /\ handlers = {h} /\ HandlerFits(h)
  BY DEF LockStep
<1>1. UNCHANGED <<worker, calls, broker, runs, clean>>
  BY DEF Reserve
<1>2. CASE Drop(h)
  <2>1. handlers' = {}
    BY <1>0, <1>2 DEF Drop
  <2> QED BY <1>0, <1>1, <2>1 DEF LockStep, CallsFit, NoneSent
<1>3. CASE ~Drop(h)
  <2>1. /\ lease.rv \in Nat /\ lease.epoch \in Nat /\ h \in Handler /\ h.stage = "read"
    BY DEF TypeOK, Reserve
  <2>2. PICK r \in Nat :
            /\ Move(h, [h EXCEPT !.stage = "reserved", !.result = r])
            /\ r = lease'.rv
            /\ lease'.epoch = IF IsMutation(h.op) THEN lease.epoch + 1 ELSE lease.epoch
    <3>1. CASE IsMutation(h.op)
      <4>1. lease' = Swapped(h) /\ Move(h, [h EXCEPT !.stage = "reserved", !.result = lease.rv + 1])
        BY <1>3, <3>1 DEF Reserve
      <4>2. Swapped(h).rv = lease.rv + 1 /\ Swapped(h).epoch = lease.epoch + 1
        BY DEF Swapped
      <4>3. lease.rv + 1 \in Nat
        BY <2>1
      <4> WITNESS lease.rv + 1 \in Nat
      <4> QED BY <3>1, <4>1, <4>2
    <3>2. CASE ~IsMutation(h.op)
      <4>1. lease' = lease /\ Move(h, [h EXCEPT !.stage = "reserved", !.result = lease.rv])
        BY <1>3, <3>2 DEF Reserve
      <4>2. lease.rv \in Nat
        BY <2>1
      <4> WITNESS lease.rv \in Nat
      <4> QED BY <3>2, <4>1
    <3> QED BY <3>1, <3>2
  <2> DEFINE g == [h EXCEPT !.stage = "reserved", !.result = r]
  <2>3. /\ g.stage = "reserved" /\ g.process = h.process /\ g.sequence = h.sequence
        /\ g.op = h.op /\ g.result = lease'.rv
    BY ONLY <2>1, <2>2 DEF Handler
  <2>4. handlers' = {g}
    BY <1>0, <2>2 DEF Move
  <2> HIDE DEF g
  <2>5. InView /\ h.sequence = broker.last + 1
    BY <1>0, <2>1 DEF HandlerFits, Holding
  <2>6. HandlerFits(g)'
    BY <1>0, <1>1, <2>2, <2>3, <2>5 DEF HandlerFits, InView, Holding
  <2> QED BY <1>0, <1>1, <2>4, <2>6 DEF LockStep, CallsFit, NoneSent
<1> QED BY <1>2, <1>3

LEMMA DispatchLocks ==
    ASSUME TypeOK, LockStep, clean, NEW h \in handlers, Dispatch(h)
    PROVE  LockStep'
<1>0. /\ worker.up /\ broker.up /\ CallsFit /\ ~NoneSent
      /\ handlers = {h} /\ HandlerFits(h)
  BY DEF LockStep
<1>1. UNCHANGED <<lease, worker, calls, runs, clean>>
  BY DEF Dispatch
<1>2. /\ h.stage = "reserved" /\ h.sequence = broker.last + 1 /\ calls[h.sequence].stage = "sent"
      /\ h.sequence \in 1..MaxCalls /\ broker.last \in Nat
      /\ broker \in [up : BOOLEAN, phase : Phase, last : Nat]
  BY <1>0 DEF HandlerFits, Holding, Dispatch, TypeOK, Handler
<1>3. CASE broker' = broker /\ Drop(h)
  <2>1. handlers' = {}
    BY <1>0, <1>3 DEF Drop
  <2> QED BY <1>0, <1>1, <1>3, <2>1 DEF LockStep, CallsFit, NoneSent
<1>4. CASE broker' = [broker EXCEPT !.last = h.sequence]
  <2>1. broker'.up = broker.up /\ broker'.last = broker.last + 1
    BY ONLY <1>2, <1>4
  <2>2. CallsFit'
    BY <1>0, <1>1, <1>2, <2>1 DEF CallsFit
  <2>3. CASE Drop(h)
    <3>1. handlers' = {}
      BY <1>0, <2>3 DEF Drop
    <3> QED BY <1>0, <1>1, <2>1, <2>2, <3>1 DEF LockStep, NoneSent
  <2>4. CASE Move(h, [h EXCEPT !.stage = "answered"])
    <3>1. PICK g : g = [h EXCEPT !.stage = "answered"]
      OBVIOUS
    <3>2. /\ g.stage = "answered" /\ g.process = h.process /\ g.sequence = h.sequence
          /\ g.op = h.op /\ g.result = h.result
      BY <3>1, StageMoves
    <3>3. handlers' = {g}
      BY <1>0, <2>4, <3>1 DEF Move
    <3>4. HandlerFits(g)'
      BY <1>0, <1>1, <1>2, <2>1, <3>2 DEF HandlerFits, Holding
    <3> QED BY <1>0, <1>1, <2>1, <2>2, <3>3, <3>4 DEF LockStep, NoneSent
  <2> QED BY <1>3, <2>3, <2>4 DEF Dispatch
<1> QED BY <1>3, <1>4 DEF Dispatch

LEMMA LockStepStep == ASSUME Bounds, TypeOK, LockStep, [Next]_vars PROVE LockStep'
<1> SUFFICES ASSUME clean'
             PROVE  LockStep'
  BY DEF LockStep
<1>1. CASE clean
  <2>1. worker.up /\ broker.up
    BY <1>1 DEF LockStep
  <2>2. ASSUME NEW op \in Operation, Number(op) PROVE LockStep'
    BY <1>1, <2>2, NumberLocks
  <2>3. ASSUME NEW n \in 1..MaxCalls, Send(n) \/ Receive(n) \/ Abandon(n) PROVE LockStep'
    BY <1>1, <2>3, SendLocks, ReceiveLocks DEF Abandon
  <2>4. ASSUME NEW h \in handlers, ReadLease(h) \/ Reserve(h) \/ Dispatch(h) PROVE LockStep'
    BY <1>1, <2>4, ReadLeaseLocks, ReserveLocks, DispatchLocks
  <2>5. CASE WorkerStops \/ WorkerStarts \/ BrokerStops \/ BrokerStarts
    BY <2>1, <2>5 DEF WorkerStops, WorkerStarts, BrokerStops, BrokerStarts
  <2>6. CASE CleanupSignal
    <3>1. /\ worker'.up = worker.up /\ worker'.sequence = worker.sequence
          /\ worker'.rv = worker.rv /\ worker'.epoch = worker.epoch
      BY <2>6 DEF CleanupSignal, TypeOK
    <3>2. UNCHANGED <<lease, calls, broker, handlers, runs, clean>>
      BY <2>6 DEF CleanupSignal
    <3> QED BY <3>1, <3>2 DEF LockStep, CallsFit, NoneSent, InView, HandlerFits
  <2>7. CASE UNCHANGED <<lease, worker, calls, broker, handlers, runs, clean>>
    BY <2>7 DEF LockStep, CallsFit, NoneSent, InView, HandlerFits
  <2> QED BY <2>2, <2>3, <2>4, <2>5, <2>6, <2>7 DEF Next, Deadline, vars
<1>2. CASE ~clean
  BY <1>2 DEF Next, Number, Send, Receive, Abandon, ReadLease, Reserve, Dispatch, WorkerStops,
         WorkerStarts, CleanupSignal, BrokerStops, BrokerStarts, Deadline, vars
<1> QED BY <1>1, <1>2

LEMMA LockStepAgrees == ASSUME Bounds, TypeOK, LockStep PROVE ChannelAgrees
<1> SUFFICES ASSUME clean, Open = {}
             PROVE  /\ handlers = {}
                    /\ worker.sequence = broker.last
                    /\ worker.rv = lease.rv /\ worker.epoch = lease.epoch
  BY DEF ChannelAgrees
<1>1. \A n \in 1..MaxCalls : calls[n].stage = "none"
  BY DEF Open
<1>2. handlers = {} /\ InView /\ CallsFit
  BY <1>1 DEF LockStep, NoneSent
<1>3. /\ worker.sequence \in Nat /\ broker.last \in Nat /\ worker.sequence <= MaxCalls
  BY DEF TypeOK
<1>4. worker.sequence = broker.last
  BY <1>1, <1>2, <1>3 DEF CallsFit, Bounds
<1> QED BY <1>2, <1>4 DEF InView

(* Whatever is cancelled, lost or restarted on the private channel, and      *)
(* whatever handlers of two worker processes meet at the broker: each        *)
(* provider mutation has a lease epoch of its own, reserved under            *)
(* last_sequence before dispatch; a released Lease is never followed by      *)
(* another; and a channel on which every call was answered is in lock step   *)
(* (MtlsBrokerProviderTransport::call and handle_connection).                *)
THEOREM BrokerIsFenced == Bounds => (Spec => EffectsAreFenced)
<1> SUFFICES ASSUME Bounds
             PROVE  Spec => EffectsAreFenced
  OBVIOUS
<1> DEFINE BInv == FenceInv /\ LockStep
<1>1. Init => BInv
  BY FenceInit, LockStepInit
<1>2. BInv /\ [Next]_vars => BInv'
  BY FenceStep, LockStepStep DEF FenceInv
<1>3. BInv => EffectsHaveTheirEpoch /\ ChannelAgrees
  BY LockStepAgrees DEF FenceInv
<1>4. BInv /\ [Next]_vars => ReleasedIsQuiet
  BY QuietStep
<1> QED BY <1>1, <1>2, <1>3, <1>4, PTL DEF Spec, EffectsAreFenced
=============================================================================
