--------------------------- MODULE NamespaceSync ---------------------------
(***************************************************************************)
(* The namespace part of a sync (manager.go:132-147, namespace.go): each   *)
(* namespace of the desired state is created if it is managed and missing, *)
(* or has to exist if it is imported, and then its ResourceQuota is made   *)
(* to match the limits Hydra has for it, or removed if Hydra has none.     *)
(* The outcome is reported for each namespace, and the number of those     *)
(* that succeeded with the cluster status.  A report may be lost, or given *)
(* up on and received later (the client has a timeout).                    *)
(*                                                                         *)
(* The requests are those of ApplyObject, whose keys are here the          *)
(* namespaces and their quotas; but a namespace that exists is never       *)
(* written, and a quota is read before it is deleted.                      *)
(*                                                                         *)
(* The platform team may create and delete namespaces.  A namespace that   *)
(* is deleted is first terminating: nothing can be created in it any more, *)
(* its quota is removed, and then it is gone.                              *)
(***************************************************************************)
EXTENDS ApplyObject

CONSTANTS
    Namespace,   \* the namespaces of the desired state
    Managed,     \* those in mode "managed"; the others are imported
    Resource,    \* what a quota can limit
    Amount,      \* quantities that parse
    Chosen,      \* limits that Hydra's users choose from
    InitialLimits,  \* those of each namespace at the beginning
    Active, Terminating,  \* the phases of a namespace that exists
    MaxEdits,    \* bound: changes of limits in Hydra
    MaxOutside,  \* bound: namespaces created or deleted by the platform team
    MaxFailures  \* bound: requests, reports and pods lost

\* A limit as Hydra sends it: not set, not a quantity, or a quantity.
Limits == [Resource -> Amount \cup {"unset", "bad"}]

\* (A bug: a limit that does not parse voids the others.)
HardOrNothing(q) ==
    IF \E r \in Resource : q[r] = "bad" THEN [r \in {} |-> None]
    ELSE [r \in {x \in Resource : q[x] \in Amount} |-> q[r]]

\* The limits that parse, whatever the others are.
Hard(q) == [r \in {x \in Resource : q[x] \in Amount} |-> q[r]]

HasQuota(q) == \E r \in Resource : q[r] # "unset"

QuotaWanted(q) == IF HasQuota(q) THEN Hard(q) ELSE None

NamespaceOf(n) == [of |-> "namespace", in |-> n]
QuotaOf(n) == [of |-> "quota", in |-> n]

ASSUME NamespaceAssumption ==
    /\ Key = {NamespaceOf(n) : n \in Namespace} \cup {QuotaOf(n) : n \in Namespace}
    /\ Want = {Active, Terminating} \cup {Hard(q) : q \in Limits}
    /\ Rejected = {} /\ Active # Terminating
    /\ {"unset", "bad"} \cap Amount = {}
    /\ {Active, Terminating} \cap {Hard(q) : q \in Limits} = {}
    /\ Chosen \subseteq Limits /\ InitialLimits \in [Namespace -> Chosen]
    /\ Managed \subseteq Namespace /\ IsFiniteSet(Namespace)
    /\ None \notin Namespace /\ "cluster" \notin Namespace
    /\ MaxEdits \in Nat /\ MaxOutside \in Nat /\ MaxFailures \in Nat

VARIABLES
    limits,     \* Hydra: the limits of each namespace
    stage,      \* where the operator's sync stands
    snap,       \* the limits that the sync works on
    todo,       \* namespaces still to be visited
    cur,        \* the namespace being reconciled
    synced,     \* namespaces of this sync that succeeded
    shown,      \* Hydra: last status received of each subject
    lateReports,  \* reports given up on that may still be received
    spent,      \* [edits, outside, failures] used so far
    witnessed   \* history: was the current namespace as wanted at some
                \* moment since the sync came to it?

syncVars == <<stage, snap, todo, cur, synced>>
reportVars == <<shown, lateReports>>
hydraVars == <<limits, reportVars>>
nsVars == <<vars, syncVars, hydraVars, spent, witnessed>>

Bound == [edits |-> MaxEdits, outside |-> MaxOutside, failures |-> MaxFailures]

\* Something that happens a bounded number of times.
Spend(what) == spent[what] < Bound[what] /\ spent' = [spent EXCEPT ![what] = @ + 1]

\* What a report is about, and what Hydra keeps of it: the sync status of a
\* namespace, or the cluster status with namespaces_synced.
Subject == Namespace \cup {"cluster"}
Report == [status : {"none", "synced", "error", "reachable"}, synced : Nat]

\* Is everything that q sets a quantity?
Parses(q) == \A r \in Resource : q[r] # "bad"

\* Does a quota limit what q sets, as far as it parses, and nothing else?
Enforces(spec, q) ==
    IF \A r \in Resource : q[r] = "unset" THEN spec = None
    ELSE /\ spec # None
         /\ DOMAIN spec = {r \in Resource : q[r] \notin {"unset", "bad"}}
         /\ \A r \in DOMAIN spec : spec[r] = q[r]

\* The namespace is there, with the limits of q that parse.
InForce(n, q) == Exists(NamespaceOf(n)) /\ Enforces(store[QuotaOf(n)].spec, q)

----------------------------------------------------------------------------
(* The sync of operator o *)

PullNamespaces(o) ==
    /\ stage[o] = "idle"
    /\ stage' = [stage EXCEPT ![o] = "loop"]
    /\ snap' = [snap EXCEPT ![o] = limits]
    /\ todo' = [todo EXCEPT ![o] = Namespace]
    /\ UNCHANGED <<vars, hydraVars, cur, synced, spent>>

StartNamespace(o) ==
    /\ stage[o] = "loop"
    /\ \E n \in todo[o] :
         /\ cur' = [cur EXCEPT ![o] = n]
         /\ todo' = [todo EXCEPT ![o] = @ \ {n}]
         /\ call' = [call EXCEPT ![o] = Begin(NamespaceOf(n), Active)]
    /\ stage' = [stage EXCEPT ![o] = "namespace"]
    /\ UNCHANGED <<store, late, snap, synced, hydraVars, spent>>

\* (A bug: an imported namespace does not have to exist.)
NamespaceThereOrNot(o) ==
    \/ call[o].step \in {"update", "create"} /\ cur[o] \notin Managed
    \/ cur[o] \in Managed /\ call[o].step \in {"update", "ok"}

\* The Get found it, the Create made it, or somebody else did in between.
NamespaceThere(o) ==
    \/ call[o].step = "update"
    \/ cur[o] \in Managed /\ call[o].step = "ok"
    \/ cur[o] \in Managed /\ call[o].step = "create" /\ Exists(call[o].key)

ReadQuota(o) ==
    /\ stage[o] = "namespace" /\ NamespaceThere(o)
    /\ stage' = [stage EXCEPT ![o] = "quota"]
    /\ call' = [call EXCEPT ![o] =
                  [NoCall EXCEPT !.step = "get", !.key = QuotaOf(cur[o]),
                                 !.want = QuotaWanted(snap[o][cur[o]])]]
    /\ UNCHANGED <<store, late, snap, todo, cur, synced, hydraVars, spent>>

\* (A bug: a quota is replaced by deleting it first.)
RemoveAnyQuota(o) ==
    /\ stage[o] = "quota" /\ call[o].step = "update"
    /\ call' = [call EXCEPT ![o].step = "delete", ![o].fresh = FALSE]
    /\ UNCHANGED <<store, late, syncVars, hydraVars, spent>>

\* A quota that exists and is not wanted.
RemoveQuota(o) ==
    /\ stage[o] = "quota" /\ call[o].step = "update" /\ call[o].want = None
    /\ call' = [call EXCEPT ![o].step = "delete", ![o].fresh = FALSE]
    /\ UNCHANGED <<store, late, syncVars, hydraVars, spent>>

Succeeded(o) ==
    /\ stage[o] = "quota"
    /\ call[o].step = "ok" \/ (call[o].step = "create" /\ call[o].want = None)

\* The Namespace or its quota could not be had, or an imported one is missing.
Failed(o) ==
    \/ call[o].step = "failed"
    \/ stage[o] = "namespace" /\ call[o].step = "create" /\ cur[o] \notin Managed

\* A report is received, or lost, or given up on and still on its way.
Put(subject, status, number) ==
    LET content == [status |-> status, synced |-> number]
    IN  /\ UNCHANGED limits
        /\ \/ shown' = [shown EXCEPT ![subject] = content] /\ UNCHANGED <<lateReports, spent>>
           \/ UNCHANGED reportVars /\ Spend("failures")
           \/ /\ lateReports' = lateReports \cup {[of |-> subject, says |-> content]}
              /\ UNCHANGED shown /\ Spend("failures")

NextNamespace(o, status) ==
    /\ stage' = [stage EXCEPT ![o] = "loop"]
    /\ cur' = [cur EXCEPT ![o] = None]
    /\ call' = [call EXCEPT ![o] = NoCall]
    /\ Put(cur[o], status, 0)
    /\ UNCHANGED <<store, late, snap, todo>>

ReportSynced(o) ==
    /\ Succeeded(o)
    /\ synced' = [synced EXCEPT ![o] = @ + 1]
    /\ NextNamespace(o, "synced")

\* (A bug: a failure is counted as well.)
ReportErrorCounted(o) ==
    /\ Failed(o)
    /\ synced' = [synced EXCEPT ![o] = @ + 1]
    /\ NextNamespace(o, "error")

\* The others are visited all the same.
ReportError(o) == Failed(o) /\ NextNamespace(o, "error") /\ UNCHANGED synced

ReportCount(o) ==
    /\ stage[o] = "loop" /\ todo[o] = {}
    /\ stage' = [stage EXCEPT ![o] = "idle"]
    /\ synced' = [synced EXCEPT ![o] = 0]
    /\ Put("cluster", "reachable", synced[o])
    /\ UNCHANGED <<vars, snap, todo, cur>>

----------------------------------------------------------------------------
(* Its requests *)

\* Nothing is created in a namespace that is not active.
Executes(r) ==
    /\ Accepts(r)
    /\ r.key.of = "quota" /\ r.step = "create"
         => store[NamespaceOf(r.key.in)].spec = Active

\* (A bug: an imported namespace is created too.)
SendsAny(o) ==
    IF stage[o] = "namespace" THEN call[o].step = "create"
    ELSE call[o].want # None \/ call[o].step = "delete"

\* Is this write one that the code makes?
Sends(o) ==
    IF stage[o] = "namespace" THEN call[o].step = "create" /\ cur[o] \in Managed
    ELSE call[o].want # None \/ call[o].step = "delete"

Requests(o) ==
    /\ \/ Get(o)
       \/ Sends(o) /\ Executes(call[o]) /\ Land(o)
       \/ Sends(o) /\ call[o].step \in Writing /\ ~Executes(call[o]) /\ Fail(o)
    /\ UNCHANGED <<syncVars, hydraVars, spent>>

LoseRequest(o) ==
    /\ call[o].step = "get" \/ Sends(o)
    /\ Spend("failures")
    /\ Fail(o) \/ Abandon(o)
    /\ UNCHANGED <<syncVars, hydraVars>>

Crash(o) ==
    /\ stage[o] # "idle"
    /\ Spend("failures")
    /\ stage' = [stage EXCEPT ![o] = "idle"]
    /\ todo' = [todo EXCEPT ![o] = {}]
    /\ cur' = [cur EXCEPT ![o] = None]
    /\ synced' = [synced EXCEPT ![o] = 0]
    /\ call' = [call EXCEPT ![o] = NoCall]
    /\ \/ UNCHANGED late
       \/ /\ call[o].step \in Writing /\ Sends(o) /\ Cardinality(late) < MaxLate
          /\ late' = late \cup {call[o]}
    /\ UNCHANGED <<store, snap, hydraVars>>

Sync(o) ==
    \/ PullNamespaces(o) \/ StartNamespace(o) \/ ReadQuota(o) \/ RemoveQuota(o)
    \/ ReportSynced(o) \/ ReportError(o) \/ ReportCount(o) \/ Requests(o)

----------------------------------------------------------------------------
(* The rest of the world *)

EditLimits ==
    /\ Spend("edits")
    /\ \E n \in Namespace, q \in Chosen : limits' = [limits EXCEPT ![n] = q]
    /\ UNCHANGED <<vars, syncVars, reportVars>>

Becomes(k, obj) ==
    /\ Change(k, obj, late)
    /\ call' = [o \in Operator |-> Outdated(call[o], k, obj)]
    /\ UNCHANGED <<syncVars, hydraVars>>

\* The platform team.
Provide(n) ==
    /\ ~Exists(NamespaceOf(n)) /\ Spend("outside")
    /\ Becomes(NamespaceOf(n), [NoObject EXCEPT !.spec = Active])

Terminate(n) ==
    /\ store[NamespaceOf(n)].spec = Active /\ Spend("outside")
    /\ Becomes(NamespaceOf(n), [NoObject EXCEPT !.spec = Terminating])

\* The namespace controller: the content goes first.
Collect(n) ==
    /\ store[NamespaceOf(n)].spec = Terminating
    /\ Becomes(IF Exists(QuotaOf(n)) THEN QuotaOf(n) ELSE NamespaceOf(n), NoObject)
    /\ UNCHANGED spent

\* Late requests, and the quota controller writing the status.
ClusterStep ==
    /\ \/ \E r \in late : (Executes(r) /\ LateLand(r)) \/ LateDrop(r)
       \/ \E n \in Namespace : Observe(QuotaOf(n))
    /\ UNCHANGED <<syncVars, hydraVars, spent>>

\* Hydra receives a report that the operator gave up on.
ReceiveLate ==
    /\ \E r \in lateReports : /\ shown' = [shown EXCEPT ![r.of] = r.says]
                             /\ lateReports' = lateReports \ {r}
    /\ UNCHANGED <<vars, syncVars, limits, spent>>

Outside ==
    \/ EditLimits \/ ClusterStep \/ ReceiveLate
    \/ \E n \in Namespace : Provide(n) \/ Terminate(n) \/ Collect(n)

----------------------------------------------------------------------------

AsWanted(o) == cur[o] # None /\ InForce(cur[o], snap[o][cur[o]])

Watch ==
    witnessed' = [o \in Operator |-> AsWanted(o)' \/ (witnessed[o] /\ cur'[o] # None)]

NamespaceInit ==
    /\ late = {} /\ call = [o \in Operator |-> NoCall]
    /\ \E there \in SUBSET Namespace :
         store = [k \in Key |->
                    IF k.of = "namespace" /\ k.in \in there
                    THEN [NoObject EXCEPT !.spec = Active] ELSE NoObject]
    /\ limits = InitialLimits
    /\ stage = [o \in Operator |-> "idle"]
    /\ snap = [o \in Operator |-> limits]
    /\ todo = [o \in Operator |-> {}]
    /\ cur = [o \in Operator |-> None]
    /\ synced = [o \in Operator |-> 0]
    /\ shown = [x \in Subject |-> [status |-> "none", synced |-> 0]] /\ lateReports = {}
    /\ spent = [what \in DOMAIN Bound |-> 0]
    /\ witnessed = [o \in Operator |-> FALSE]

NamespaceNext ==
    /\ Outside \/ \E o \in Operator : Sync(o) \/ LoseRequest(o) \/ Crash(o)
    /\ Watch

NamespaceSpec == NamespaceInit /\ [][NamespaceNext]_nsVars

\* Fairness: the ticker keeps calling SyncOnce and requests return; the
\* namespace controller finishes what it began.  Failures are bounded.
FairNamespaceSpec ==
    /\ NamespaceSpec
    /\ \A o \in Operator : WF_nsVars(Sync(o) /\ Watch)
    /\ \A n \in Namespace : WF_nsVars(Collect(n) /\ Watch)

----------------------------------------------------------------------------
(* Properties *)

\* Every variable has its type.
NamespaceTypeOK ==
    /\ TypeOK
    /\ limits \in [Namespace -> Limits]
    /\ stage \in [Operator -> {"idle", "loop", "namespace", "quota"}]
    /\ snap \in [Operator -> [Namespace -> Limits]]
    /\ todo \in [Operator -> SUBSET Namespace]
    /\ cur \in [Operator -> Namespace \cup {None}]
    /\ synced \in [Operator -> Nat]
    /\ shown \in [Subject -> Report]
    /\ lateReports \subseteq [of : Subject, says : Report]
    /\ spent \in [DOMAIN Bound -> Nat]
    /\ \A what \in DOMAIN Bound : spent[what] <= Bound[what]
    /\ witnessed \in [Operator -> BOOLEAN]

\* A namespace is reported, and counted, as synced only if at some moment of
\* its reconcile it existed and its quota had the limits of the snapshot that
\* parse and no other, although the platform team may be deleting it, requests
\* of other pods may replace the quota, and "nothing to do" is concluded from a
\* NotFound (namespace.go:75-86).  Of limits that do not parse it says nothing:
\* see SyncedMeansMatching.
SyncedWasTrue == \A o \in Operator : Succeeded(o) => witnessed[o]

\* What the API says that the status means: "whether a namespace's actual K8s
\* state matches Hydra's desired state" (client.go:261-262), so a namespace is
\* not to be reported as synced when one of the limits Hydra has for it is not
\* in force.  The code drops a limit that does not parse (namespace.go:120-122)
\* and reports the namespace as synced all the same.
SyncedMeansMatching ==
    \A o \in Operator : Succeeded(o) => witnessed[o] /\ Parses(snap[o][cur[o]])

\* A namespace changes only because the platform team creates or deletes it,
\* because it goes after its quota, or because it is managed, missing and
\* created: an imported one is never created, and none is written, revived or
\* deleted by the operator, not even by a Create that was given up on and is
\* executed when the namespace has come and gone since (namespace.go:36-67).
NamespacesRespected ==
    [][\A n \in Namespace :
         LET was == store[NamespaceOf(n)]
             is == store'[NamespaceOf(n)]
         IN  \/ is = was
             \/ spent'.outside # spent.outside
             \/ was.spec = Terminating /\ ~Exists(QuotaOf(n)) /\ is = NoObject
             \/ n \in Managed /\ was.spec = None /\ is.spec = Active]_nsVars

\* What operator o may still begin to ask for: pairs of a namespace and the
\* spec of its quota.
Ahead(o) ==
    LET visits == CASE stage[o] = "loop"      -> todo[o]
                    [] stage[o] = "namespace" -> todo[o] \cup {cur[o]}
                    [] stage[o] = "quota"     -> todo[o]
                    [] OTHER                  -> {}
    IN  {<<n, QuotaWanted(snap[o][n])>> : n \in visits}

Asked ==
    {<<r.key.in, r.want>> : r \in {q \in Pending : /\ q.step \in Writing \cup {"get"}
                                                   /\ q.key.of = "quota"}}
      \cup (UNION {Ahead(o) : o \in Operator})
      \cup {<<n, QuotaWanted(limits[n])>> : n \in Namespace}

\* The namespaces that are there with the quota that everybody asks for who
\* may still ask for one.
Settled ==
    {n \in Namespace :
        /\ store[NamespaceOf(n)].spec = Active
        /\ \A a \in Asked : a[1] = n => a[2] = store[QuotaOf(n)].spec}

\* The quota of a namespace that has settled stays as it is until its limits
\* change or the platform team deletes the namespace: it is never dropped or
\* reset in passing, by a reconcile, another pod or a late request
\* (namespace.go:70-119).
SettledStays ==
    [][\A n \in Settled :
         limits'[n] = limits[n] /\ store'[NamespaceOf(n)].spec = Active
           => n \in Settled' /\ store'[QuotaOf(n)].spec = store[QuotaOf(n)].spec]_nsVars

\* In the end every namespace that is managed, or is there, has exactly the
\* limits of Hydra's that parse, although namespaces are deleted under the
\* operator, the Create of a quota is refused while one is terminating, and a
\* namespace that fails stands before others in the loop.
QuotaConvergence ==
    <>[](\A n \in Namespace :
           n \in Managed \/ Exists(NamespaceOf(n)) => InForce(n, limits[n]))

\* Hydra ends up seeing each namespace whose limits all parse as it is, an
\* imported one that stays missing as an error, and as many counted as are
\* shown to be synced, although reports are lost or arrive after later ones
\* (manager.go:132-147, 103-107).  What it sees of a namespace with a limit
\* that was dropped is left open.
OutcomesShown ==
    <>[](/\ \A n \in Namespace :
              Parses(limits[n]) =>
                shown[n].status = IF InForce(n, limits[n]) THEN "synced" ELSE "error"
         /\ shown["cluster"].synced = Cardinality({n \in Namespace : shown[n].status = "synced"}))
=============================================================================
