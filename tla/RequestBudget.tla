--------------------------- MODULE RequestBudget ---------------------------
(* The request budgets of the lobby service (service.rs): sliding windows    *)
(* over the accepted mutations, per deployment, client address and actor,    *)
(* and narrower ones for creations and joins.  Every mutation is charged to  *)
(* the first window before its route's window is asked.                      *)
(*                                                                           *)
(* The windows read the wall clock, which may be set back; time goes on.     *)
EXTENDS Integers, Sequences, FiniteSets

CONSTANTS
    Callers,       \* [ip, actor] of the callers
    GlobalLimit, CallerLimit, RouteLimit,    \* requests per window
    Window, RouteWindow,                     \* lengths of the windows
    MaxTime, MaxRequests                     \* bounds

VARIABLES
    wall,      \* state.clock
    time,      \* the time that really passed
    charged,   \* AbuseState: route -> events, oldest first
    accepted   \* history: every event charged, with its real time

vars == <<wall, time, charged, accepted>>

Route == {"mutation", "create", "join"}

Init ==
    /\ wall = 1 /\ time = 1
    /\ charged = [r \in Route |-> <<>>]
    /\ accepted = <<>>

Length(r) == IF r = "mutation" THEN Window ELSE RouteWindow

(* Fault: whatever is old is dropped, and what stands behind it with it.     *)
RecentOfAny(events, length) ==
    IF \E i \in DOMAIN events : wall - events[i].at >= length THEN <<>> ELSE events

(* Events leave at the front only, once they are a window old.               *)
Recent(events, length) ==
    LET old == {n \in 0..Len(events) : \A i \in 1..n : wall - events[i].at >= length}
        n   == CHOOSE m \in old : \A k \in old : k <= m
    IN  SubSeq(events, n + 1, Len(events))

OfIp(events, c) == Cardinality({i \in DOMAIN events : events[i].ip = c.ip})
OfActor(events, c) == Cardinality({i \in DOMAIN events : events[i].actor = c.actor})

Event(c) == [at |-> wall, ip |-> c.ip, actor |-> c.actor]

(* enforce_mutation_budget                                                   *)
MutationAllowed(events, c) ==
    /\ Len(events) < GlobalLimit
    /\ OfIp(events, c) < CallerLimit /\ OfActor(events, c) < CallerLimit

(* enforce_route_budget                                                      *)
RouteAllowed(events, c) == OfIp(events, c) < RouteLimit /\ OfActor(events, c) < RouteLimit

(* Charges c to r: the window is trimmed, and full or longer by an event.    *)
Charged(r, c, allowed) ==
    LET events == Recent(charged[r], Length(r))
    IN  IF allowed THEN Append(events, Event(c)) ELSE events

Logged(r, c) == [route |-> r, ip |-> c.ip, actor |-> c.actor, at |-> time]

(* A request of a route; a mutation of no route of its own is one of the     *)
(* others.                                                                   *)
Request(r, c) ==
    LET first  == MutationAllowed(Recent(charged["mutation"], Window), c)
        second == first /\ r # "mutation" /\ RouteAllowed(Recent(charged[r], RouteWindow), c)
    IN  /\ Len(accepted) < MaxRequests
        /\ charged' = [s \in Route |->
              CASE s = "mutation"                  -> Charged(s, c, first)
                [] s = r /\ s # "mutation" /\ first -> Charged(s, c, second)
                [] OTHER                           -> charged[s]]
        /\ accepted' = accepted \o (IF first THEN <<Logged("mutation", c)>> ELSE <<>>)
                                \o (IF second THEN <<Logged(r, c)>> ELSE <<>>)
        /\ UNCHANGED <<wall, time>>

Pass ==
    /\ time < MaxTime
    /\ time' = time + 1 /\ wall' = wall + 1
    /\ UNCHANGED <<charged, accepted>>

SetBack ==
    /\ wall > 1 /\ wall' = wall - 1
    /\ UNCHANGED <<time, charged, accepted>>

Next == (\E r \in Route, c \in Callers : Request(r, c)) \/ Pass \/ SetBack

Spec == Init /\ [][Next]_vars

-----------------------------------------------------------------------------
(* However the clock is set back, no window of real time holds more accepted *)
(* requests than the budget of the deployment, of a client address or of an  *)
(* actor allows, and none of creations or joins more than its route's.       *)
BudgetHolds ==
    \A t \in 1..time, r \in Route :
        LET during == {i \in DOMAIN accepted :
                          /\ accepted[i].route = r
                          /\ accepted[i].at >= t /\ accepted[i].at < t + Length(r)}
            limit == IF r = "mutation" THEN CallerLimit ELSE RouteLimit
        IN  /\ r = "mutation" => Cardinality(during) <= GlobalLimit
            /\ \A c \in Callers :
                  /\ Cardinality({i \in during : accepted[i].ip = c.ip}) <= limit
                  /\ Cardinality({i \in during : accepted[i].actor = c.actor}) <= limit
=============================================================================
