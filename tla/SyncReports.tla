---------------------------- MODULE SyncReports ----------------------------
(***************************************************************************)
(* What the operator tells Hydra during a sync (manager.go:88-218,         *)
(* status.go): after each container its status and endpoint, the outcome   *)
(* of each of its domains, and at the end the cluster status.  The module  *)
(* adds the results of the calls and the reports made of them to           *)
(* ContainerSync; every step of it is a step of ContainerSync or leaves    *)
(* the cluster and the sync alone.                                         *)
(*                                                                         *)
(* A report may be lost, since its error is only logged, and one that the  *)
(* operator gave up on (the client has a timeout) may reach Hydra later,   *)
(* after reports that were made since.                                     *)
(***************************************************************************)
EXTENDS ContainerSync

CONSTANTS
    HostWithID,     \* the domains that Hydra's payload gives an ID
    MaxLateReports  \* bound: reports given up on and still under way

ASSUME ReportAssumption ==
    /\ HostWithID \subseteq Host /\ IsFiniteSet(Container)
    /\ Container \cap Host = {} /\ "cluster" \notin Container \cup Host
    /\ MaxLateReports \in Nat

VARIABLES
    outcome,         \* status and endpoint of the current container
    domains,         \* outcome of each of its domains, until reported
    ready,           \* containers found running in this sync
    shown,           \* Hydra: last status received of each subject
    lateReports      \* reports given up on that may still be received

resultVars == <<outcome, domains, ready>>
reportVars == <<shown, lateReports>>
allVars == <<vars, resultVars, reportVars>>

----------------------------------------------------------------------------
(* Data *)

Status == {"none", "deploying", "running", "degraded", "error"}
Outcome == [status : Status, endpoint : {"none", "ksvc", "route"}]
DomainOutcome == {"none", "active", "error"}

\* What reports are about: a container, a domain, the cluster.
Subject == Container \cup Host \cup {"cluster"}

NoOutcome == [status |-> "none", endpoint |-> "none"]
Failure == [status |-> "error", endpoint |-> "none"]
NoDomains == [h \in Host |-> "none"]

\* deriveContainerStatus: the Ready condition the API server returned, and
\* the URL that Knative has set once it has looked at the Service.
ServiceOutcome(svc) ==
    [status   |-> CASE svc.ready = "True"  -> "running"
                    [] svc.ready = "False" -> "degraded"
                    [] OTHER               -> "deploying",
     endpoint |-> IF svc.seen # None THEN "ksvc" ELSE "none"]

\* Is the object that call c applied Ready?  (For a Route: has it a host?)
AppliedReady(c) == c.step = "ok" /\ c.got.ready = "True"

\* A report is received, lost, or given up on and still on its way.
Put(subject, content) ==
    \/ shown' = [shown EXCEPT ![subject] = content] /\ UNCHANGED lateReports
    \/ UNCHANGED reportVars
    \/ /\ Cardinality(lateReports) < MaxLateReports
       /\ lateReports' = lateReports \cup {[of |-> subject, says |-> content]}
       /\ UNCHANGED shown

----------------------------------------------------------------------------
(* The sync, with its results and reports *)

PullState(o) == Pull(o) /\ UNCHANGED <<resultVars, reportVars>>

\* (A bug: a status outside Hydra's vocabulary.)
PullFailsAsError(o) ==
    /\ stage[o] = "idle"
    /\ Put("cluster", [status |-> "error", ready |-> 0])
    /\ UNCHANGED <<vars, resultVars>>

\* GetDesiredState fails: "unreachable" is reported and the sync ends.
PullFails(o) ==
    /\ stage[o] = "idle"
    /\ Put("cluster", [status |-> "unreachable", ready |-> 0])
    /\ UNCHANGED <<vars, resultVars>>

StartNext(o) == StartContainer(o) /\ UNCHANGED <<resultVars, reportVars>>

\* (A bug: a failed container is shown as one on its way.)
ReportFailureAsDeploying(o) ==
    /\ ServiceFailed(o)
    /\ Put(cur[o], [status |-> "deploying", endpoint |-> "none"])
    /\ UNCHANGED <<resultVars>>

\* The Service could not be applied: "error" is reported, without endpoint.
ReportFailure(o) ==
    /\ ServiceFailed(o)
    /\ Put(cur[o], Failure)
    /\ UNCHANGED <<resultVars>>

KeepStatus(o) ==
    /\ ServiceApplied(o)
    /\ outcome' = [outcome EXCEPT ![o] = ServiceOutcome(call[o].got)]
    /\ UNCHANGED <<domains, ready, reportVars>>

\* (A bug: the Route's host is not used.)
KeepServiceEndpoint(o) == RouteDone(o) /\ UNCHANGED <<resultVars, reportVars>>

\* The host of an admitted Route replaces the URL of the Service.
KeepEndpoint(o) ==
    /\ RouteDone(o)
    /\ outcome' = [outcome EXCEPT ![o].endpoint =
                     IF AppliedReady(call[o]) THEN "route" ELSE @]
    /\ UNCHANGED <<domains, ready, reportVars>>

MapDomain(o) == StartDomain(o) /\ UNCHANGED <<resultVars, reportVars>>

\* (A bug: a mapping that has become Ready is not noticed.)
KeepDomainPending(o) ==
    LET h == call[o].key.name
    IN  /\ DomainDone(o)
        /\ domains' = [domains EXCEPT ![o][h] = IF h \in HostWithID THEN "error" ELSE "none"]
        /\ UNCHANGED <<outcome, ready, reportVars>>

\* Only the outcome of a domain with an ID will be reported.
KeepDomain(o) ==
    LET h == call[o].key.name
    IN  /\ DomainDone(o)
        /\ domains' = [domains EXCEPT ![o][h] =
                         IF h \notin HostWithID THEN "none"
                         ELSE IF AppliedReady(call[o]) THEN "active" ELSE "error"]
        /\ UNCHANGED <<outcome, ready, reportVars>>

\* reportDomainStatuses, after all domains of the container are done.
ReportDomain(o, h) ==
    /\ stage[o] = "domains" /\ call[o].step = "none" /\ hosts[o] = {}
    /\ domains[o][h] # "none"
    /\ domains' = [domains EXCEPT ![o][h] = "none"]
    /\ Put(h, [status |-> domains[o][h]])
    /\ UNCHANGED <<vars, outcome, ready>>

\* (A bug: a running container is not counted.)
ReportContainerUncounted(o) ==
    /\ FinishContainer(o)
    /\ domains[o] = NoDomains
    /\ Put(cur[o], outcome[o])
    /\ outcome' = [outcome EXCEPT ![o] = NoOutcome]
    /\ UNCHANGED <<domains, ready>>

\* (A bug: a container is reported once only.)
ReportContainerOnce(o) ==
    /\ FinishContainer(o)
    /\ domains[o] = NoDomains
    /\ ready' = [ready EXCEPT ![o] = @ + IF outcome[o].status = "running" THEN 1 ELSE 0]
    /\ IF shown[cur[o]] = NoOutcome THEN Put(cur[o], outcome[o])
                                    ELSE UNCHANGED reportVars
    /\ outcome' = [outcome EXCEPT ![o] = NoOutcome]
    /\ UNCHANGED domains

\* A running container is counted, and the container's status is reported.
ReportContainer(o) ==
    /\ FinishContainer(o)
    /\ domains[o] = NoDomains
    /\ ready' = [ready EXCEPT ![o] = @ + IF outcome[o].status = "running" THEN 1 ELSE 0]
    /\ Put(cur[o], outcome[o])
    /\ outcome' = [outcome EXCEPT ![o] = NoOutcome]
    /\ UNCHANGED domains

Reachable(o) == [status |-> "reachable", ready |-> ready[o]]

\* (A bug: the count goes on in the next sync.)
ReportClusterKeepCount(o) ==
    /\ FinishSync(o)
    /\ Put("cluster", Reachable(o))
    /\ UNCHANGED <<outcome, domains, ready>>

ReportCluster(o) ==
    /\ FinishSync(o)
    /\ ready' = [ready EXCEPT ![o] = 0]
    /\ Put("cluster", Reachable(o))
    /\ UNCHANGED <<outcome, domains>>

Requests(o) == Request(o) /\ UNCHANGED <<resultVars, reportVars>>

SyncAndReport(o) ==
    \/ PullState(o) \/ PullFails(o) \/ StartNext(o)
    \/ ReportFailure(o) \/ KeepStatus(o) \/ KeepEndpoint(o)
    \/ MapDomain(o) \/ KeepDomain(o) \/ \E h \in Host : ReportDomain(o, h)
    \/ ReportContainer(o) \/ ReportCluster(o)
    \/ Requests(o)

\* What a sync knows is lost with its pod.
CrashAndForget(o) ==
    /\ Crash(o)
    /\ outcome' = [outcome EXCEPT ![o] = NoOutcome]
    /\ domains' = [domains EXCEPT ![o] = NoDomains]
    /\ ready' = [ready EXCEPT ![o] = 0]
    /\ UNCHANGED reportVars

ReportsInit ==
    /\ Init
    /\ outcome = [o \in Operator |-> NoOutcome]
    /\ domains = [o \in Operator |-> NoDomains]
    /\ ready = [o \in Operator |-> 0]
    /\ shown = [s \in Subject |->
                  CASE s \in Container -> NoOutcome
                    [] s \in Host      -> [status |-> "none"]
                    [] OTHER           -> [status |-> "none", ready |-> 0]]
    /\ lateReports = {}

Environment == (Edit \/ Cluster) /\ UNCHANGED <<resultVars, reportVars>>

ReceiveLate ==
    \E r \in lateReports :
        /\ shown' = [shown EXCEPT ![r.of] = r.says]
        /\ lateReports' = lateReports \ {r}
        /\ UNCHANGED <<vars, resultVars>>

ReportsNext ==
    \/ Environment \/ ReceiveLate
    \/ \E o \in Operator : SyncAndReport(o) \/ CrashAndForget(o)

ReportsSpec == ReportsInit /\ [][ReportsNext]_allVars

----------------------------------------------------------------------------
(* Fairness: as in ContainerSync, and a report that is made again and again *)
(* is received now and then, whatever it says.                              *)

ShowContainer(o, c, x) ==
    ReportContainer(o) /\ cur[o] = c /\ outcome[o] = x /\ shown'[c] = x

ShowDomain(o, h) ==
    ReportDomain(o, h) /\ domains[o][h] = "active" /\ shown'[h].status = "active"

ShowCluster(o, n) ==
    ReportCluster(o) /\ ready[o] = n /\ shown'["cluster"] = Reachable(o)

SyncFairness(keys) ==
    \A o \in Operator :
        /\ WF_allVars(SyncAndReport(o))
        /\ SF_allVars(PullState(o))
        /\ \A k \in keys :
             /\ SF_allVars(ReadOf(o, k) /\ UNCHANGED <<resultVars, reportVars>>)
             /\ SF_allVars(WriteOf(o, k) /\ UNCHANGED <<resultVars, reportVars>>)

ReadyOutcome(endpoint) == [status |-> "running", endpoint |-> endpoint]

StatusSpec ==
    /\ ReportsSpec /\ SyncFairness(Services)
    /\ \A o \in Operator, c \in Container, s \in {"running", "degraded"} :
         SF_allVars(ShowContainer(o, c, [status |-> s, endpoint |-> "ksvc"]))
    /\ \A o \in Operator : SF_allVars(ShowCluster(o, 1))

ExposureSpec ==
    /\ ReportsSpec
    /\ SyncFairness(Services \cup Mappings \cup {RouteOf(c) : c \in Container})
    /\ \A o \in Operator :
         /\ \A c \in Container : SF_allVars(ShowContainer(o, c, ReadyOutcome("route")))
         /\ \A h \in HostWithID : SF_allVars(ShowDomain(o, h))

----------------------------------------------------------------------------
(* Safety *)

Content(s) ==
    CASE s \in Container -> Outcome
      [] s \in Host      -> [status : DomainOutcome]
      [] OTHER           -> [status : {"none", "reachable", "unreachable"}, ready : Nat]

\* Every variable has its type.
ReportsTypeOK ==
    /\ TypeOK
    /\ outcome \in [Operator -> Outcome]
    /\ domains \in [Operator -> [Host -> DomainOutcome]]
    /\ ready \in [Operator -> Nat]
    /\ DOMAIN shown = Subject
    /\ \A s \in Subject : shown[s] \in Content(s)
    /\ \A r \in lateReports : r.of \in Subject /\ r.says \in Content(r.of)

\* Hydra never shows as deploying, running or degraded a container without a
\* Service, nor as active a domain without a mapping, and it is never told of
\* more ready containers than there are Services (manager.go:149-193): no
\* result of one container, or of one sync, leaks into the report of another,
\* and a report that arrives late still only says what has been applied.
NothingShownUnapplied ==
    /\ \A c \in Container :
         shown[c].status \notin {"none", "error"} => Exists(ServiceOf(c))
    /\ \A h \in Host :
         shown[h].status = "active" => \E c \in Container : Exists(MappingOf(c, h))
    /\ shown["cluster"].ready <= Cardinality({c \in Container : Exists(ServiceOf(c))})

\* status.go:12-14: "Knative's own controller reconciles asynchronously, so a
\* freshly-applied Service is normally still "deploying" until a later
\* sync_interval tick observes it "running"": "running" is a status that
\* Knative gave the spec just applied, not one left from an older spec.
RunningIsObserved ==
    [][\A o \in Operator :
         KeepStatus(o) /\ outcome'[o].status = "running"
           => call[o].got.seen = call[o].got.spec]_allVars

----------------------------------------------------------------------------
(* Liveness: what the cluster has settled on, Hydra is told again and again  *)
(* (a later failure may replace it until the next sync).                     *)

ServiceIs(c, condition) == desired[c].live /\ store[ServiceOf(c)].ready = condition

\* A container whose Service stays Ready, or stays not Ready, is shown so,
\* and the cluster status counts it.
StatusShown ==
    \A c \in Container :
        /\ <>[]ServiceIs(c, "True") => []<>(shown[c].status = "running")
        /\ <>[]ServiceIs(c, "False") => []<>(shown[c].status = "degraded")

\* On a cluster with one container the ready count follows it.
CountShown ==
    \A c \in Container :
        <>[]ServiceIs(c, "True") => []<>(shown["cluster"] = [status |-> "reachable", ready |-> 1])

\* The host of an admitted Route is shown as the endpoint of a container.
RouteShown ==
    \A c \in Container :
        <>[](ServiceIs(c, "True") /\ desired[c].route /\ store[RouteOf(c)].ready = "True")
          => []<>(shown[c] = ReadyOutcome("route"))

\* A domain with an ID whose mapping stays Ready is shown as active.
DomainShown ==
    \A c \in Container, h \in HostWithID :
        <>[](/\ Admissible(c) /\ h \in desired[c].hosts
             /\ store[MappingOf(c, h)].ready = "True")
          => []<>(shown[h].status = "active")
=============================================================================
