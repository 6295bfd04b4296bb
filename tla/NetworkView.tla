----------------------------- MODULE NetworkView ----------------------------
(* What a participant may be told about the network of its lobby: the facts  *)
(* build_network_view makes of a stored record and a cached observation      *)
(* (service.rs), and the rules a view has to pass before it is served        *)
(* (network_inspection.rs).                                                  *)
(*                                                                           *)
(* A record r holds mode, lifecycle, identity (the time it was captured),    *)
(* requested, acknowledged, absent, roster, reports, election, heartbeat; an *)
(* observation holds count, succeeded, failed, failure.  Times are positive  *)
(* numbers, 0 is None.  Unknown members of the wire enums never leave the    *)
(* service and are left out.                                                 *)
EXTENDS Integers, FiniteSets, FiniteSetsExt

CONSTANTS
    ReportWindow,    \* INSPECTOR_REPORT_FRESHNESS_MS
    DeviceWindow,    \* PROVIDER_DEVICE_FRESHNESS_MS
    ElectionWindow   \* MEASUREMENT_FRESHNESS_MS

None == 0

(* Fact::known, Fact::unknown and Fact::not_applicable                       *)
Known(value, source, assurance, asOf, received, freshness) ==
    [value |-> <<value>>, source |-> source, assurance |-> assurance, asOf |-> asOf,
     received |-> received, freshness |-> freshness, reason |-> "none"]

Unknown(source, reason, received) ==
    [value |-> <<>>, source |-> source, assurance |-> "unknown", asOf |-> None,
     received |-> received, freshness |-> "unknown", reason |-> reason]

NotApplicable ==
    [value |-> <<>>, source |-> "none", assurance |-> "unknown", asOf |-> None,
     received |-> None, freshness |-> "not_applicable", reason |-> "not_applicable"]

IsKnown(f) == f.value # <<>>

(* control_fact, derived_fact and unknown_control                            *)
ControlFact(value, asOf, now) == Known(value, "store", "authoritative", asOf, now, "current")

DerivedFact(value, now) == Known(value, "derived", "derived", now, now, "fresh")

UnknownControl(reason) == Unknown("store", reason, None)

Aged(at, now, window) == IF now >= at /\ now - at < window THEN "fresh" ELSE "stale"

-----------------------------------------------------------------------------
(* The view.                                                                 *)

Cleaning == {"Active", "CleanupRequested", "CleanupPending", "VerifyingAbsence"}

(* provider_identity: a lifecycle that needs an identity is for an operator  *)
(* when there is none.                                                       *)
ShownLifecycle(r) ==
    IF r.mode = "dry" THEN "Simulated"
    ELSE IF r.lifecycle \in Cleaning /\ r.identity = None THEN "ManualRemediation"
    ELSE r.lifecycle

(* The name of the tailnet, while there is something to name.                *)
DnsName(r) ==
    CASE r.mode = "dry" -> NotApplicable
      [] r.mode # "dry"
         /\ ShownLifecycle(r) \in {"CreateRejected", "DedicatedAbsent", "SharedResourcesClean"} ->
            NotApplicable
      [] OTHER -> IF r.identity # None
                  THEN Known("name", "store", "authoritative", r.identity, r.identity, "current")
                  ELSE UnknownControl("reconciliation_pending")

Backing(r, now) ==
    [mode |-> r.mode, generation |-> 1, lifecycle |-> ShownLifecycle(r), dns |-> DnsName(r),
     simulates |-> IF r.mode = "dry" THEN "dedicated" ELSE "none",
     member |-> ControlFact(FALSE, now, now)]

(* The truth label and the isolation go with the mode.                       *)
TruthLabel(r) ==
    CASE r.mode = "dry" -> "simulated" [] r.mode = "dedicated" -> "real_dedicated"
      [] r.mode = "shared" -> "real_shared"

(* Reports of members, each with its own age.                                *)
FreshReports(r, now) ==
    {p \in r.roster : r.reports[p].at # None
                      /\ Aged(r.reports[p].at, now, ReportWindow) = "fresh"}

(* Directions reported, by class.                                            *)
Directions(r, now) ==
    LET fresh == FreshReports(r, now)
        sum(f(_)) == MapThenSumSet(LAMBDA p : f(r.reports[p]), fresh)
    IN  [direct |-> sum(LAMBDA s : s.direct), relay |-> sum(LAMBDA s : s.relay),
         derp |-> sum(LAMBDA s : s.derp)]

Observed(d) == d.direct + d.relay + d.derp

Expected(r) == Cardinality(r.roster) * (Cardinality(r.roster) - 1)

DirectRatio(r, d, now) ==
    IF Observed(d) = 0 THEN NotApplicable
    ELSE DerivedFact((1000 * d.direct) \div Observed(d), now)

Routes(r, now) ==
    LET d == Directions(r, now)
    IN  [expected |-> DerivedFact(Expected(r), now), reported |-> DerivedFact(Expected(r), now),
         direct |-> DerivedFact(d.direct, now), relay |-> DerivedFact(d.relay, now),
         derp |-> DerivedFact(d.derp, now), unavailable |-> DerivedFact(0, now),
         unknown |-> DerivedFact(Expected(r) - Observed(d), now),
         reachable |-> DerivedFact(Observed(d), now), ratio |-> DirectRatio(r, d, now)]

(* provider_enrollment_fact                                                  *)
EnrollmentFact(o, now) ==
    CASE o.succeeded # None ->
            Known(o.count, "provider", "observed", o.succeeded, o.succeeded,
                  IF o.failed # None /\ o.failed >= o.succeeded THEN "stale"
                  ELSE Aged(o.succeeded, now, DeviceWindow))
      [] o.succeeded = None /\ o.failed # None -> Unknown("provider", o.failure, o.failed)
      [] OTHER -> Unknown("provider", "never_observed", None)

(* provider_online_fact                                                      *)
OnlineFact(o) ==
    Unknown("provider", "unsupported", IF o.failed # None THEN o.failed ELSE o.succeeded)

Counts(r, o, now) ==
    [roster |-> ControlFact(Cardinality(r.roster), now, now),
     enrolled |-> IF r.mode = "dry" THEN NotApplicable ELSE EnrollmentFact(o, now),
     online |-> IF r.mode = "dry" THEN NotApplicable ELSE OnlineFact(o),
     reporters |-> DerivedFact(Cardinality(FreshReports(r, now)), now),
     directions |-> DerivedFact(Observed(Directions(r, now)), now)]

(* No measurement of the application exists yet.                             *)
Quality(now) ==
    [samples |-> DerivedFact(0, now),
     metrics |-> [m \in {"median", "p95", "worst", "loss"} |->
                     Unknown("participant", "unsupported", None)]]

(* The election the service holds and the last heartbeat it accepted.        *)
AuthorityFacts(r, now) ==
    [election |-> IF r.election = None THEN Unknown("derived", "never_observed", None)
                  ELSE Known(r.election, "derived", "authoritative", r.election, r.election,
                             Aged(r.election, now, ElectionWindow)),
     heartbeat |-> IF r.heartbeat = None THEN UnknownControl("never_observed")
                   ELSE Known(r.heartbeat, "store", "authoritative", r.heartbeat, r.heartbeat,
                              Aged(r.heartbeat, now, ElectionWindow)),
     reported |-> Unknown("participant", "never_observed", None)]

(* cleanup_time_fact                                                         *)
CleanupTimeFact(r, at, now) ==
    IF r.mode = "dry" THEN NotApplicable
    ELSE IF at = None THEN UnknownControl("never_observed")
    ELSE ControlFact(at, at, now)

Reason(lifecycle) ==
    CASE lifecycle = "Simulated" -> "simulated"
      [] lifecycle \in {"Reserved", "Creating", "Active", "CreateRejected"} -> "not_requested"
      [] lifecycle \in {"CreateUnknown", "ManualRemediation"} -> "manual_remediation"
      [] OTHER -> lifecycle

CleanupFacts(r, now) ==
    [lifecycle |-> ShownLifecycle(r), reason |-> Reason(ShownLifecycle(r)),
     requested |-> CleanupTimeFact(r, r.requested, now),
     acknowledged |-> CleanupTimeFact(r, r.acknowledged, now),
     absent |-> CleanupTimeFact(r, r.absent, now)]

(* build_network_view; it gives up when more was reported than there are     *)
(* directions.                                                               *)
Buildable(r, now) == Observed(Directions(r, now)) <= Expected(r)

BuildView(r, o, now) ==
    [servedAt |-> now, label |-> TruthLabel(r), backing |-> Backing(r, now),
     lobby |-> ControlFact("state", now, now), counts |-> Counts(r, o, now),
     routes |-> Routes(r, now), quality |-> Quality(now), authority |-> AuthorityFacts(r, now),
     cleanup |-> CleanupFacts(r, now)]

-----------------------------------------------------------------------------
(* The rules.                                                                *)

(* source_supports_assurance                                                 *)
Supports(source) ==
    CASE source = "store" -> {"authoritative"}
      [] source = "provider" -> {"authoritative", "observed"}
      [] source = "participant" -> {"reported"}
      [] source = "derived" -> {"authoritative", "derived"}
      [] OTHER -> {}

(* Fact::validate                                                            *)
FactIsSound(f) ==
    /\ IF IsKnown(f)
       THEN /\ f.reason = "none" /\ f.received # None
            /\ f.freshness \in {"current", "fresh", "stale"}
            /\ f.assurance \in Supports(f.source)
       ELSE /\ f.assurance = "unknown" /\ f.reason # "none"
            /\ f.freshness \in {"unknown", "not_applicable"}
    /\ f.freshness = "not_applicable" \/ f.reason = "not_applicable" => f = NotApplicable

(* validate_fact: also not received after the view is served.                *)
Sound(v, f) == FactIsSound(f) /\ f.received <= v.servedAt

(* require_known_provenance and the checks like it.                          *)
From(f, source, assurance) == IsKnown(f) => f.source = source /\ f.assurance = assurance

(* require_dns_name_for_active_backing                                       *)
NamedWhileActive(b) == b.lifecycle \in Cleaning => IsKnown(b.dns)

ValidBacking(v) ==
    LET b == v.backing
    IN  /\ b.generation # 0
        /\ Sound(v, b.dns) /\ Sound(v, b.member)
        /\ From(b.member, "store", "authoritative")
        /\ b.member.value = <<FALSE>> /\ b.member.freshness = "current"
        /\ IsKnown(b.dns) => b.dns.assurance = "authoritative" /\ b.dns.source \in {"store", "provider"}
        /\ CASE b.mode = "dry" -> /\ v.label = "simulated" /\ b.simulates = "dedicated"
                                  /\ b.lifecycle = "Simulated" /\ b.dns = NotApplicable
             [] b.mode = "shared" -> /\ v.label = "real_shared" /\ b.simulates = "none"
                                     /\ b.lifecycle \notin {"Simulated", "DedicatedAbsent"}
                                     /\ NamedWhileActive(b)
             [] b.mode = "dedicated" -> /\ v.label = "real_dedicated" /\ b.simulates = "none"
                                        /\ b.lifecycle \notin {"Simulated", "SharedResourcesClean"}
                                        /\ NamedWhileActive(b)
                                        /\ b.lifecycle \in {"CreateRejected", "DedicatedAbsent"}
                                              => b.dns = NotApplicable

ValidCounts(v) ==
    LET c == v.counts
        roster == c.roster.value[1]
    IN  /\ \A f \in {c.roster, c.enrolled, c.online, c.reporters, c.directions} : Sound(v, f)
        /\ IsKnown(c.roster) /\ From(c.roster, "store", "authoritative")
        /\ From(c.enrolled, "provider", "observed") /\ From(c.online, "provider", "observed")
        /\ From(c.reporters, "derived", "derived") /\ From(c.directions, "derived", "derived")
        /\ IsKnown(c.reporters) => c.reporters.value[1] <= roster
        /\ IsKnown(c.directions) => c.directions.value[1] <= roster * (roster - 1)
        /\ IsKnown(c.online) /\ IsKnown(c.enrolled) => c.online.value[1] <= c.enrolled.value[1]
        /\ v.backing.mode = "dry" => c.enrolled = NotApplicable /\ c.online = NotApplicable

(* The classes of a route aggregate are known together and add up.           *)
RoutesAddUp(t) ==
    LET n(f) == f.value[1]
        reachable == n(t.direct) + n(t.relay) + n(t.derp)
    IN  /\ n(t.reported) = reachable + n(t.unavailable) + n(t.unknown)
        /\ n(t.reachable) = reachable /\ n(t.reported) <= n(t.expected)
        /\ IF reachable = 0 THEN t.ratio = NotApplicable
           ELSE t.ratio.value = <<(1000 * n(t.direct)) \div reachable>>

ValidRoutes(v) ==
    LET t == v.routes
        classes == {t.reported, t.direct, t.relay, t.derp, t.unavailable, t.unknown, t.reachable}
    IN  /\ \A f \in classes \cup {t.expected, t.ratio} :
              Sound(v, f) /\ From(f, "derived", "derived")
        /\ IsKnown(t.expected)
        /\ t.expected.value[1] = v.counts.roster.value[1] * (v.counts.roster.value[1] - 1)
        /\ IF \A f \in classes : IsKnown(f) THEN RoutesAddUp(t)
           ELSE (\A f \in classes : ~IsKnown(f)) /\ ~IsKnown(t.ratio)

(* Metrics come with samples, all of them, in order.                         *)
ValidQuality(v) ==
    LET q == v.quality
        metrics == DOMAIN q.metrics
    IN  /\ \A f \in {q.samples} \cup {q.metrics[m] : m \in metrics} :
              Sound(v, f) /\ From(f, "derived", "derived")
        /\ IF q.samples.value \in {<<>>, <<0>>} THEN \A m \in metrics : ~IsKnown(q.metrics[m])
           ELSE /\ \A m \in metrics : IsKnown(q.metrics[m])
                /\ q.metrics["median"].value[1] <= q.metrics["p95"].value[1]
                /\ q.metrics["p95"].value[1] <= q.metrics["worst"].value[1]
        /\ IsKnown(q.samples) => q.samples.value[1] <= v.routes.reported.value[1]

ValidAuthority(v) ==
    LET a == v.authority
    IN  /\ \A f \in {a.election, a.heartbeat, a.reported} : Sound(v, f)
        /\ From(a.election, "derived", "authoritative") /\ From(a.heartbeat, "store", "authoritative")
        /\ From(a.reported, "participant", "reported")
        /\ IsKnown(a.election) => a.election.asOf = a.election.value[1]
        /\ IsKnown(a.heartbeat) => a.heartbeat.received = a.heartbeat.value[1]

(* What the evidence must be for the lifecycle that is shown.                *)
EvidenceFits(c) ==
    /\ c.reason = Reason(c.lifecycle)
    /\ c.lifecycle \in {"CleanupRequested", "CleanupPending", "VerifyingAbsence"}
          => IsKnown(c.requested)
    /\ c.lifecycle = "VerifyingAbsence" => IsKnown(c.acknowledged) /\ ~IsKnown(c.absent)
    /\ c.lifecycle = "DedicatedAbsent" => IsKnown(c.absent)
    /\ c.lifecycle = "Simulated" => {c.requested, c.acknowledged, c.absent} = {NotApplicable}

InOrder(f, g) == IsKnown(f) /\ IsKnown(g) => f.value[1] <= g.value[1]

ValidCleanup(v) ==
    LET c == v.cleanup
    IN  /\ c.lifecycle = v.backing.lifecycle
        /\ \A f \in {c.requested, c.acknowledged, c.absent} :
              Sound(v, f) /\ From(f, "store", "authoritative")
        /\ InOrder(c.requested, c.acknowledged) /\ InOrder(c.acknowledged, c.absent)
        /\ InOrder(c.requested, c.absent)
        /\ EvidenceFits(c)

(* LobbyNetworkView::validate                                                *)
ValidView(v) ==
    /\ Sound(v, v.lobby) /\ From(v.lobby, "store", "authoritative") /\ IsKnown(v.lobby)
    /\ ValidBacking(v) /\ ValidCounts(v) /\ ValidRoutes(v) /\ ValidQuality(v)
    /\ ValidAuthority(v) /\ ValidCleanup(v)
=============================================================================
