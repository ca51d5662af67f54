--------------------------- MODULE ContainerSync ---------------------------
(***************************************************************************)
(* The container half of one sync (Manager.SyncOnce, manager.go:88-193):   *)
(* an operator pulls Hydra's desired state and, for one container after    *)
(* the other, reconciles its Knative Service, its OpenShift Route and its  *)
(* DomainMappings.  Every call to the API server follows the pattern of    *)
(* ApplyObject, of which this module is a client.  What the operator tells *)
(* Hydra about it is added by SyncReports, which extends this module.      *)
(*                                                                         *)
(* Processes: Hydra's users, who edit the desired state; the operators,    *)
(* each of which is the sync goroutine of one pod (a rolling update lets   *)
(* two pods run at once); the API server's late requests; and the          *)
(* controllers that own the status of the objects.                         *)
(*                                                                         *)
(* A container's spec is the version Hydra gave it: buildService is a      *)
(* function of the payload, so two syncs that pull the same payload want   *)
(* the same Service.  A Route or a DomainMapping only says which Service   *)
(* it targets, so its spec is the container.                               *)
(***************************************************************************)
EXTENDS Naturals, FiniteSets

CONSTANTS
    Operator,      \* operator pods
    Container,     \* containers Hydra knows
    Host,          \* verified custom domains
    Deployed,      \* containers that are deployed from the beginning
    NsOf,          \* namespace_k8s_name of each container
    Inadmissible,  \* containers whose Service admission always refuses
    OpenShift,     \* Hydra may ask for Routes on this cluster
    Readiness,     \* values the controllers give the Ready condition
    None,          \* no object, no container
    MaxEdits,      \* bound: edits of the desired state
    MaxLate,       \* bound: requests given up on and still under way
    MaxCrashes     \* bound: pods killed and restarted

ASSUME SyncAssumption ==
    /\ Inadmissible \subseteq Container /\ Deployed \subseteq Container
    /\ OpenShift \in BOOLEAN
    /\ MaxEdits \in Nat /\ MaxLate \in Nat /\ MaxCrashes \in Nat
    /\ None \notin Container \cup Nat
    /\ Container \cap Nat = {}
    /\ "Unknown" \in Readiness /\ Readiness \subseteq {"Unknown", "True", "False"}

VARIABLES
    desired,   \* Hydra: [Container -> Entry]
    edits,     \* Hydra: number of edits so far
    store,     \* the API server's objects
    call,      \* each operator's outstanding reconcile call
    late,      \* requests given up on
    stage,     \* where the operator's sync stands
    snap,      \* the desired state the sync works on
    todo,      \* containers of the payload still to be visited
    cur,       \* the container being reconciled
    hosts,     \* its domains still to be mapped
    crashes    \* number of crashes so far

hydraVars == <<desired, edits>>
apiVars == <<store, call, late>>
syncVars == <<stage, snap, todo, cur, hosts>>
vars == <<hydraVars, apiVars, syncVars, crashes>>

----------------------------------------------------------------------------
(* Objects and their names *)

Version == 1..(MaxEdits + 1)

\* KsvcNameFor gives the Service and the Route of a container one name.
ServiceOf(c) == [kind |-> "Service", ns |-> NsOf[c], name |-> c]
RouteOf(c) == [kind |-> "Route", ns |-> NsOf[c], name |-> c]
MappingOf(c, h) == [kind |-> "DomainMapping", ns |-> NsOf[c], name |-> h]

ObjectKey ==
    {ServiceOf(c) : c \in Container}
      \cup {RouteOf(c) : c \in Container}
      \cup {MappingOf(c, h) : c \in Container, h \in Host}

API == INSTANCE ApplyObject
         WITH Key <- ObjectKey,
              Want <- Version \cup Container,
              Rejected <- {ServiceOf(c) : c \in Inadmissible} \X Version

\* One container of the desired-state payload; live: it is in the payload.
Entry == [live : BOOLEAN, version : Version \cup {0}, route : BOOLEAN, hosts : SUBSET Host]

NoEntry == [live |-> FALSE, version |-> 0, route |-> FALSE, hosts |-> {}]
NothingDesired == [c \in Container |-> NoEntry]

Stage == {"idle", "loop", "service", "route", "domains"}

Exists(k) == API!Exists(k)
Returned(o) == call[o].step \in {"ok", "failed"}
Mine(o) == snap[o][cur[o]]

----------------------------------------------------------------------------
(* Hydra's users *)

EditWith(f) ==
    /\ edits < MaxEdits
    /\ edits' = edits + 1
    /\ desired' = f
    /\ UNCHANGED <<apiVars, syncVars, crashes>>

\* A container is deployed for the first time, changed, or deployed again.
Deploy(c) ==
    EditWith([desired EXCEPT ![c].live = TRUE, ![c].version = @ + 1])

Undeploy(c) ==
    /\ desired[c].live
    /\ EditWith([desired EXCEPT ![c].live = FALSE, ![c].hosts = {}])

\* Hydra computes needs_openshift_route from the reported capabilities.
ToggleRoute(c) ==
    /\ OpenShift /\ desired[c].live
    /\ EditWith([desired EXCEPT ![c].route = ~@])

\* A verified domain belongs to at most one container.
AssignHost(h, c) ==
    /\ desired[c].live /\ h \notin desired[c].hosts
    /\ EditWith([d \in Container |->
                   [desired[d] EXCEPT !.hosts = IF d = c THEN @ \cup {h} ELSE @ \ {h}]])

Edit ==
    \/ \E c \in Container : Deploy(c) \/ Undeploy(c) \/ ToggleRoute(c)
    \/ \E h \in Host, c \in Container : AssignHost(h, c)

----------------------------------------------------------------------------
(* One sync of operator o *)

\* GetDesiredState answers: a snapshot that the rest of the sync works on.
\* If it fails, nothing is reconciled, and no older snapshot is reused.
Pull(o) ==
    /\ stage[o] = "idle"
    /\ stage' = [stage EXCEPT ![o] = "loop"]
    /\ snap' = [snap EXCEPT ![o] = desired]
    /\ todo' = [todo EXCEPT ![o] = {c \in Container : desired[c].live}]
    /\ UNCHANGED <<hydraVars, apiVars, cur, hosts, crashes>>

\* The loop takes the next container of the payload.
StartContainer(o) ==
    /\ stage[o] = "loop"
    /\ \E c \in todo[o] :
         /\ cur' = [cur EXCEPT ![o] = c]
         /\ todo' = [todo EXCEPT ![o] = @ \ {c}]
         /\ call' = [call EXCEPT ![o] = API!Begin(ServiceOf(c), snap[o][c].version)]
    /\ stage' = [stage EXCEPT ![o] = "service"]
    /\ UNCHANGED <<hydraVars, store, late, snap, hosts, crashes>>

\* The loop goes on to the next container.
NextContainer(o) ==
    /\ stage' = [stage EXCEPT ![o] = "loop"]
    /\ cur' = [cur EXCEPT ![o] = None]
    /\ call' = [call EXCEPT ![o] = API!NoCall]
    /\ UNCHANGED <<hydraVars, store, late, snap, todo, hosts, crashes>>

\* (A bug: a failure is logged, and the loop body goes on.)
ServiceFailureIgnored(o) ==
    /\ stage[o] = "service" /\ call[o].step = "failed"
    /\ stage' = [stage EXCEPT ![o] = "route"]
    /\ call' = [call EXCEPT ![o] =
                  API!Begin(RouteOf(cur[o]), IF Mine(o).route THEN cur[o] ELSE None)]
    /\ UNCHANGED <<hydraVars, store, late, snap, todo, cur, hosts, crashes>>

\* (A bug: a failure ends the whole sync.)
StopAtFailure(o) ==
    /\ stage[o] = "service" /\ call[o].step = "failed"
    /\ stage' = [stage EXCEPT ![o] = "idle"]
    /\ snap' = [snap EXCEPT ![o] = NothingDesired]
    /\ todo' = [todo EXCEPT ![o] = {}]
    /\ cur' = [cur EXCEPT ![o] = None]
    /\ call' = [call EXCEPT ![o] = API!NoCall]
    /\ UNCHANGED <<hydraVars, store, late, hosts, crashes>>

\* (A bug: when an update fails, the version before it is put back.)
ServiceFailedRevert(o) ==
    /\ stage[o] = "service" /\ call[o].step = "failed"
    /\ \/ Mine(o).version = 1 /\ NextContainer(o)
       \/ /\ Mine(o).version > 1
          /\ call' = [call EXCEPT ![o] = API!Begin(ServiceOf(cur[o]), Mine(o).version - 1)]
          /\ UNCHANGED <<hydraVars, store, late, syncVars, crashes>>

\* Containers.Reconcile fails: the rest of this container is skipped.
ServiceFailed(o) ==
    /\ stage[o] = "service" /\ call[o].step = "failed"
    /\ NextContainer(o)

\* (A bug: a Route that is not wanted is left alone.)
ServiceAppliedKeepRoute(o) ==
    /\ stage[o] = "service" /\ call[o].step = "ok"
    /\ stage' = [stage EXCEPT ![o] = IF Mine(o).route THEN "route" ELSE "domains"]
    /\ call' = [call EXCEPT ![o] =
                  IF Mine(o).route THEN API!Begin(RouteOf(cur[o]), cur[o]) ELSE API!NoCall]
    /\ UNCHANGED <<hydraVars, store, late, snap, todo, cur, hosts, crashes>>

\* (A bug: the object of that name that is deleted is the Service.)
ServiceAppliedDeletesIt(o) ==
    /\ stage[o] = "service" /\ call[o].step = "ok"
    /\ stage' = [stage EXCEPT ![o] = "route"]
    /\ call' = [call EXCEPT ![o] =
                  IF Mine(o).route THEN API!Begin(RouteOf(cur[o]), cur[o])
                                   ELSE API!Begin(ServiceOf(cur[o]), None)]
    /\ UNCHANGED <<hydraVars, store, late, snap, todo, cur, hosts, crashes>>

\* Containers.Reconcile succeeds: Routes.Reconcile follows.
ServiceApplied(o) ==
    /\ stage[o] = "service" /\ call[o].step = "ok"
    /\ stage' = [stage EXCEPT ![o] = "route"]
    /\ call' = [call EXCEPT ![o] =
                  API!Begin(RouteOf(cur[o]), IF Mine(o).route THEN cur[o] ELSE None)]
    /\ UNCHANGED <<hydraVars, store, late, snap, todo, cur, hosts, crashes>>

\* (A bug: a domain that has a mapping is taken to be mapped as wanted.)
RouteDoneNewDomains(o) ==
    /\ stage[o] = "route" /\ Returned(o)
    /\ stage' = [stage EXCEPT ![o] = "domains"]
    /\ hosts' = [hosts EXCEPT ![o] = {h \in Mine(o).hosts : ~Exists(MappingOf(cur[o], h))}]
    /\ call' = [call EXCEPT ![o] = API!NoCall]
    /\ UNCHANGED <<hydraVars, store, late, snap, todo, cur, crashes>>

\* An error of Routes.Reconcile is only logged: Domains.Reconcile follows.
RouteDone(o) ==
    /\ stage[o] = "route" /\ Returned(o)
    /\ stage' = [stage EXCEPT ![o] = "domains"]
    /\ hosts' = [hosts EXCEPT ![o] = Mine(o).hosts]
    /\ call' = [call EXCEPT ![o] = API!NoCall]
    /\ UNCHANGED <<hydraVars, store, late, snap, todo, cur, crashes>>

StartDomain(o) ==
    /\ stage[o] = "domains" /\ call[o].step = "none"
    /\ \E h \in hosts[o] :
         /\ hosts' = [hosts EXCEPT ![o] = @ \ {h}]
         /\ call' = [call EXCEPT ![o] = API!Begin(MappingOf(cur[o], h), cur[o])]
    /\ UNCHANGED <<hydraVars, store, late, stage, snap, todo, cur, crashes>>

\* reconcileOne returns; a failure does not stop the other domains.
DomainDone(o) ==
    /\ stage[o] = "domains" /\ Returned(o)
    /\ call' = [call EXCEPT ![o] = API!NoCall]
    /\ UNCHANGED <<hydraVars, store, late, syncVars, crashes>>

FinishContainer(o) ==
    /\ stage[o] = "domains" /\ call[o].step = "none" /\ hosts[o] = {}
    /\ NextContainer(o)

\* The loop ends, and with it the sync; the next tick starts another one.
FinishSync(o) ==
    /\ stage[o] = "loop" /\ todo[o] = {}
    /\ stage' = [stage EXCEPT ![o] = "idle"]
    /\ snap' = [snap EXCEPT ![o] = NothingDesired]
    /\ UNCHANGED <<hydraVars, apiVars, todo, cur, hosts, crashes>>

Request(o) ==
    /\ API!Get(o) \/ API!Land(o) \/ API!Fail(o) \/ API!Abandon(o)
    /\ UNCHANGED <<hydraVars, syncVars, crashes>>

Sync(o) ==
    \/ Pull(o) \/ StartContainer(o)
    \/ ServiceFailed(o) \/ ServiceApplied(o) \/ RouteDone(o)
    \/ StartDomain(o) \/ DomainDone(o)
    \/ FinishContainer(o) \/ FinishSync(o)
    \/ Request(o)

\* The pod is killed anywhere in a sync and its successor starts with a new
\* one; the request that was outstanding may still be on its way.
Crash(o) ==
    /\ crashes < MaxCrashes /\ stage[o] # "idle"
    /\ crashes' = crashes + 1
    /\ \/ UNCHANGED late
       \/ /\ call[o].step \in API!Writing /\ Cardinality(late) < MaxLate
          /\ late' = late \cup {call[o]}
    /\ stage' = [stage EXCEPT ![o] = "idle"]
    /\ snap' = [snap EXCEPT ![o] = NothingDesired]
    /\ todo' = [todo EXCEPT ![o] = {}]
    /\ cur' = [cur EXCEPT ![o] = None]
    /\ hosts' = [hosts EXCEPT ![o] = {}]
    /\ call' = [call EXCEPT ![o] = API!NoCall]
    /\ UNCHANGED <<hydraVars, store>>

\* Requests that were given up on, and the controllers that own the status.
Cluster ==
    /\ API!LateStep \/ \E k \in ObjectKey : API!Observe(k)
    /\ UNCHANGED <<hydraVars, syncVars, crashes>>

Init ==
    /\ API!Init
    /\ desired = [c \in Container |->
                    IF c \in Deployed THEN [NoEntry EXCEPT !.live = TRUE, !.version = 1]
                                      ELSE NoEntry]
    /\ edits = 0
    /\ stage = [o \in Operator |-> "idle"]
    /\ snap = [o \in Operator |-> NothingDesired]
    /\ todo = [o \in Operator |-> {}]
    /\ cur = [o \in Operator |-> None]
    /\ hosts = [o \in Operator |-> {}]
    /\ crashes = 0

Next == Edit \/ Cluster \/ \E o \in Operator : Sync(o) \/ Crash(o)

Spec == Init /\ [][Next]_vars

----------------------------------------------------------------------------
(* Fairness: the ticker keeps calling SyncOnce and every call returns (WF). *)
(* A request to Hydra or to the API server may fail any number of times,    *)
(* but not for ever (SF).  Nothing is assumed of the controllers, of        *)
(* Hydra's users, of late requests or of crashes.                           *)

ReadOf(o, k) ==
    /\ call[o].key = k /\ API!Get(o)
    /\ UNCHANGED <<hydraVars, syncVars, crashes>>

WriteOf(o, k) ==
    /\ call[o].key = k /\ API!Land(o)
    /\ UNCHANGED <<hydraVars, syncVars, crashes>>

Fairness(keys) ==
    \A o \in Operator :
        /\ WF_vars(Sync(o))
        /\ SF_vars(Pull(o))
        /\ \A k \in keys : SF_vars(ReadOf(o, k)) /\ SF_vars(WriteOf(o, k))

Services == {ServiceOf(c) : c \in Container \ Inadmissible}

\* Requests for objects that a property is not about may always fail.
ServiceSpec == Spec /\ Fairness(Services)

RouteSpec ==
    Spec /\ Fairness(Services \cup {RouteOf(c) : c \in Container \ Inadmissible})

Mappings == {MappingOf(c, h) : c \in Container \ Inadmissible, h \in Host}

DomainSpec == Spec /\ Fairness(Services \cup Mappings)

----------------------------------------------------------------------------
(* Safety *)

\* Every variable has its type.
TypeOK ==
    /\ API!TypeOK
    /\ desired \in [Container -> Entry] /\ edits \in 0..MaxEdits
    /\ stage \in [Operator -> Stage]
    /\ snap \in [Operator -> [Container -> Entry]]
    /\ todo \in [Operator -> SUBSET Container]
    /\ cur \in [Operator -> Container \cup {None}]
    /\ hosts \in [Operator -> SUBSET Host]
    /\ crashes \in 0..MaxCrashes

Applied(c) == IF Exists(ServiceOf(c)) THEN store[ServiceOf(c)].spec ELSE 0

\* A Route or a DomainMapping never exposes a Service that is not there: the
\* loop goes on to them only after the Service was applied (manager.go:152-
\* 176), whatever requests of earlier syncs or pods are still on their way.
NoDanglingObjects ==
    \A k \in ObjectKey, c \in Container :
        k.kind # "Service" /\ store[k].spec = c => Exists(ServiceOf(c))

\* With one operator pod at a time a Service never goes back to an older
\* version, although requests of earlier syncs and of killed pods may be
\* executed at any later time: the snapshot is pulled anew for every sync and
\* an update carries the resourceVersion its own Get returned.
NeverRollsBack == [][\A c \in Container : Applied(c) <= Applied(c)']_vars

\* Of two pods whose syncs overlap, a late request and the controllers, none
\* has its change of an object overwritten by an update of another that has
\* not seen it (container.go:54-63, route.go:78-85, domain.go:81-89).
NoLostUpdate == API!NoLostUpdate

\* What payload p asks for container c: pairs of an object and its spec.
DomainAsks(c, hs) == {<<MappingOf(c, h), c>> : h \in hs}
RouteAsks(p, c) == {<<RouteOf(c), IF p[c].route THEN c ELSE None>>}
ContainerAsks(p, c) ==
    {<<ServiceOf(c), p[c].version>>} \cup RouteAsks(p, c) \cup DomainAsks(c, p[c].hosts)

\* What the sync of operator o may still begin to ask for.
Ahead(o) ==
    (UNION {ContainerAsks(snap[o], c) : c \in todo[o]}) \cup
      CASE stage[o] = "service" -> RouteAsks(snap[o], cur[o]) \cup DomainAsks(cur[o], Mine(o).hosts)
        [] stage[o] = "route"   -> DomainAsks(cur[o], Mine(o).hosts)
        [] stage[o] = "domains" -> DomainAsks(cur[o], hosts[o])
        [] OTHER                -> {}

Asked ==
    {<<r.key, r.want>> : r \in {q \in API!Pending : q.step \in API!Writing \cup {"get"}}}
      \cup (UNION {Ahead(o) : o \in Operator})
      \cup (UNION {ContainerAsks(desired, c) : c \in {d \in Container : desired[d].live}})

\* The objects that are as everybody asks who may still ask for them.
Settled == ObjectKey \ {a[1] : a \in {b \in Asked : b[2] # store[b[1]].spec}}

\* While nobody edits the desired state, an object that has settled stays as
\* it is: no sync of any pod, failed, killed or repeated, and no late request
\* brings anything else about in passing (manager.go:149-193).  This is why
\* what has converged stays so.
SettledStays ==
    [][UNCHANGED desired =>
         /\ Settled \subseteq Settled'
         /\ \A k \in Settled : store'[k].spec = store[k].spec]_vars

----------------------------------------------------------------------------
(* Liveness *)

Admissible(c) == desired[c].live /\ c \notin Inadmissible

\* When Hydra's users stop editing, every Service reaches the version that
\* Hydra wants and keeps it, whatever containers admission keeps refusing,
\* and although other pods, late requests and crashes interfere.
Convergence ==
    <>[](\A c \in Container : Admissible(c) => Applied(c) = desired[c].version)

\* A Route ends up existing exactly if Hydra wants it (route.go:28-91).
RouteConvergence ==
    <>[](\A c \in Container : Admissible(c) => (Exists(RouteOf(c)) <=> desired[c].route))

\* Every domain of a live container ends up mapped to its Service.
DomainConvergence ==
    <>[](\A c \in Container : Admissible(c) =>
           \A h \in desired[c].hosts : store[MappingOf(c, h)].spec = c)

----------------------------------------------------------------------------
(* Refinement *)

Abstract ==
    INSTANCE PublishedState
      WITH Served <- Container \ Inadmissible,
           published <- [c \in Container |-> desired[c].version],
           wanted <- [c \in Container |-> desired[c].live],
           applied <- [c \in Container |-> Applied(c)]

\* With one operator pod at a time, the Services of the cluster follow the
\* versions Hydra publishes: only forward, only to published versions, and
\* every wanted one that the cluster admits catches up.
FollowsPublishedState == Abstract!StateSpec

\* With any number of pods the Services follow them less strictly: they may go
\* back, but no version that was not published is ever applied, and no Service
\* is ever removed, not even the one that a Route shares its name with.
AppliesPublished == Abstract!OverlapSafety

=============================================================================
