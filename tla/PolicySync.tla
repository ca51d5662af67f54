----------------------------- MODULE PolicySync -----------------------------
(***************************************************************************)
(* The policy part of a sync (manager.go:112-130, policy.go) on a cluster  *)
(* on which Gatekeeper is installed.  If detection finds Gatekeeper, the   *)
(* ConstraintTemplates are applied one after the other and then their      *)
(* Constraints, the last of which carries Hydra's list of allowed          *)
(* registries and is deleted when there is no list.  The first call that   *)
(* fails ends the reconcile until the next sync.                           *)
(*                                                                         *)
(* Gatekeeper generates the resource (CRD) of a kind of Constraint from    *)
(* its template, some time after the template was applied.  Until then the *)
(* API server answers NotFound to every request on that kind.  The API     *)
(* group that detection asks for is served once it has any resource, be it *)
(* one from a template of the platform team.                               *)
(*                                                                         *)
(* The module extends ApplyObject, whose keys are the templates and the    *)
(* constraints: each step is one of ApplyObject or leaves its state alone. *)
(* A pod that is killed makes the step of a call that fails: the next sync *)
(* starts from nothing either way.                                         *)
(***************************************************************************)
EXTENDS ApplyObject, Sequences

CONSTANTS
    Kinds,        \* kinds of constraint in the order of the code; the last
                  \* one takes the list of allowed registries
    Other,        \* a kind of constraint of the platform team
    Fixed,        \* the spec of every template and every other constraint
    MaxEdits,     \* bound: changes of the list in Hydra
    MaxFailures   \* bound: requests that fail with no fault of the model's

N == Len(Kinds)
Kind == {Kinds[i] : i \in 1..N}

Template(k) == [of |-> "template", kind |-> k]
Constraint(k) == [of |-> "constraint", kind |-> k]

ASSUME PolicyAssumption ==
    /\ Kinds \in Seq(Kind) /\ N > 0
    /\ \A i, j \in 1..N : Kinds[i] = Kinds[j] => i = j
    /\ Other \notin Kind
    /\ Key = {Template(k) : k \in Kind} \cup {Constraint(k) : k \in Kind}
    /\ Fixed \in Want
    /\ MaxEdits \in Nat /\ MaxFailures \in Nat

VARIABLES
    list,      \* Hydra: the allowed registries, None if there are none
    edits,     \* Hydra: number of changes so far
    crds,      \* the kinds of constraint that the API server serves
    stage,     \* where the operator's sync stands
    snap,      \* the list that the sync works on
    done,      \* calls of the reconcile that have succeeded
    failures   \* number of failures so far

syncVars == <<stage, snap, done>>
policyVars == <<vars, list, edits, crds, syncVars, failures>>

List == Want \ {Fixed}

----------------------------------------------------------------------------
(* The calls of Reconcile *)

Target(i) == IF i <= N THEN Template(Kinds[i]) ELSE Constraint(Kinds[i - N])

Wanted(i, l) == IF i = 2 * N THEN l ELSE Fixed

\* Does the API server know the resource of this key?
Serves(k) == k.of = "constraint" => k.kind \in crds

----------------------------------------------------------------------------
(* The sync of operator o *)

\* (A bug: a sync that failed is taken up again with the list it had.)
PullPolicyAgain(o) ==
    /\ stage[o] = "idle"
    /\ stage' = [stage EXCEPT ![o] = "detect"]
    /\ snap' = [snap EXCEPT ![o] = IF @ = None THEN list ELSE @]
    /\ UNCHANGED <<vars, list, edits, crds, done, failures>>

PullPolicy(o) ==
    /\ stage[o] = "idle"
    /\ stage' = [stage EXCEPT ![o] = "detect"]
    /\ snap' = [snap EXCEPT ![o] = list]
    /\ UNCHANGED <<vars, list, edits, crds, done, failures>>

\* Detection answers: some resource of the group is served, or none is.
Detect(o) ==
    /\ stage[o] = "detect"
    /\ stage' = [stage EXCEPT ![o] = IF crds = {} THEN "idle" ELSE "apply"]
    /\ UNCHANGED <<vars, list, edits, crds, snap, done, failures>>

\* A discovery request fails: this reads as "no Gatekeeper", or as an error;
\* the policy is skipped in this sync either way.
DetectFails(o) ==
    /\ stage[o] = "detect" /\ failures < MaxFailures
    /\ stage' = [stage EXCEPT ![o] = "idle"]
    /\ failures' = failures + 1
    /\ UNCHANGED <<vars, list, edits, crds, snap, done>>

\* (A bug: nothing is done when there is no list.)
ApplyNextKeepList(o) ==
    LET i == done[o] + 1
    IN  /\ stage[o] = "apply" /\ call[o].step = "none" /\ i <= 2 * N
        /\ IF Wanted(i, snap[o]) = None
           THEN done' = [done EXCEPT ![o] = i] /\ UNCHANGED call
           ELSE /\ call' = [call EXCEPT ![o] = Begin(Target(i), Wanted(i, snap[o]))]
                /\ UNCHANGED done
        /\ UNCHANGED <<store, late, list, edits, crds, stage, snap, failures>>

ApplyNext(o) ==
    /\ stage[o] = "apply" /\ call[o].step = "none" /\ done[o] < 2 * N
    /\ call' = [call EXCEPT ![o] =
                  Begin(Target(done[o] + 1), Wanted(done[o] + 1, snap[o]))]
    /\ UNCHANGED <<store, late, list, edits, crds, syncVars, failures>>

Applied(o) ==
    /\ call[o].step = "ok" /\ Return(o)
    /\ done' = [done EXCEPT ![o] = @ + 1]
    /\ UNCHANGED <<list, edits, crds, stage, snap, failures>>

\* (A bug: the error is logged, and the reconcile goes on.)
ApplyFailedGoOn(o) ==
    /\ call[o].step = "failed" /\ Return(o)
    /\ done' = [done EXCEPT ![o] = @ + 1]
    /\ UNCHANGED <<list, edits, crds, stage, snap, failures>>

\* The first error ends the reconcile.
ApplyFailed(o) ==
    /\ call[o].step = "failed" /\ Return(o)
    /\ stage' = [stage EXCEPT ![o] = "idle"]
    /\ done' = [done EXCEPT ![o] = 0]
    /\ UNCHANGED <<list, edits, crds, snap, failures>>

FinishPolicy(o) ==
    /\ stage[o] = "apply" /\ call[o].step = "none" /\ done[o] = 2 * N
    /\ stage' = [stage EXCEPT ![o] = "idle"]
    /\ done' = [done EXCEPT ![o] = 0]
    /\ UNCHANGED <<vars, list, edits, crds, snap, failures>>

\* A Delete of a kind that is not served is answered NotFound, and tolerated.
Answered(o) ==
    /\ \/ Get(o)
       \/ Land(o) /\ (call[o].step = "delete" \/ Serves(call[o].key))
    /\ UNCHANGED <<list, edits, crds, syncVars, failures>>

\* A write is refused: it conflicts, or its kind is not served yet.
Refused(o) ==
    /\ call[o].step \in {"create", "update"}
    /\ ~(Accepts(call[o]) /\ Serves(call[o].key))
    /\ Fail(o)
    /\ UNCHANGED <<list, edits, crds, syncVars, failures>>

Lost(o) ==
    /\ failures < MaxFailures
    /\ failures' = failures + 1
    /\ Fail(o) \/ Abandon(o)
    /\ UNCHANGED <<list, edits, crds, syncVars>>

ReconcilePolicy(o) ==
    \/ PullPolicy(o) \/ Detect(o)
    \/ ApplyNext(o) \/ Applied(o) \/ ApplyFailed(o) \/ FinishPolicy(o)
    \/ Answered(o) \/ Refused(o)

----------------------------------------------------------------------------
(* The rest of the world *)

EditList ==
    /\ edits < MaxEdits
    /\ edits' = edits + 1
    /\ list' \in (List \cup {None}) \ {list}
    /\ UNCHANGED <<vars, crds, syncVars, failures>>

\* Gatekeeper generates the resource of an applied template.
Generate(k) ==
    /\ Exists(Template(k)) /\ k \notin crds
    /\ crds' = crds \cup {k}
    /\ UNCHANGED <<vars, list, edits, syncVars, failures>>

\* The platform team applies a template of its own.
GenerateOther ==
    /\ crds' = crds \cup {Other}
    /\ UNCHANGED <<vars, list, edits, syncVars, failures>>

\* Late requests, and Gatekeeper writing the status of its objects.
ClusterStep ==
    /\ \/ \E r \in late : (Serves(r.key) /\ LateLand(r)) \/ LateDrop(r)
       \/ \E k \in Key : Observe(k)
    /\ UNCHANGED <<list, edits, crds, syncVars, failures>>

PolicyInit ==
    /\ Init
    /\ list \in List \cup {None} /\ edits = 0
    /\ crds \in {{}, {Other}}
    /\ stage = [o \in Operator |-> "idle"]
    /\ snap = [o \in Operator |-> None]
    /\ done = [o \in Operator |-> 0]
    /\ failures = 0

PolicyNext ==
    \/ \E o \in Operator : ReconcilePolicy(o) \/ DetectFails(o) \/ Lost(o)
    \/ EditList \/ GenerateOther \/ ClusterStep
    \/ \E k \in Kind : Generate(k)

PolicySpec == PolicyInit /\ [][PolicyNext]_policyVars

\* Fairness: the ticker keeps calling SyncOnce, requests return, and
\* Gatekeeper does its work.  Failures of requests are bounded instead.
FairPolicySpec ==
    /\ PolicySpec
    /\ \A o \in Operator : WF_policyVars(ReconcilePolicy(o))
    /\ \A k \in Kind : WF_policyVars(Generate(k))

----------------------------------------------------------------------------
(* Properties *)

\* Every variable has its type.
PolicyTypeOK ==
    /\ TypeOK
    /\ list \in List \cup {None} /\ edits \in 0..MaxEdits
    /\ crds \subseteq Kind \cup {Other}
    /\ stage \in [Operator -> {"idle", "detect", "apply"}]
    /\ snap \in [Operator -> List \cup {None}]
    /\ done \in [Operator -> 0..(2 * N)]
    /\ failures \in 0..MaxFailures

\* No request for a Constraint is ever made, and none that was given up on is
\* still under way, before every template is in place: the templates come
\* first and an error ends the reconcile (policy.go:110-114).  A Constraint in
\* force therefore always finds the code of every template.
TemplatesFirst ==
    /\ \A r \in Pending :
         r.key # None /\ r.key.of = "constraint"
           => \A k \in Kind : Exists(Template(k))
    /\ \A c \in Kind : Exists(Constraint(c)) => \A k \in Kind : Exists(Template(k))

\* What the whole reconcile asks for if the list is l, from its call i on:
\* pairs of an object and its spec.
PolicyAsks(i, l) == {<<Target(j), Wanted(j, l)>> : j \in i..(2 * N)}

\* What operator o may still begin to ask for.
Ahead(o) == IF stage[o] = "idle" THEN {} ELSE PolicyAsks(done[o] + 1, snap[o])

Asked ==
    {<<r.key, r.want>> : r \in {q \in Pending : q.step \in Writing \cup {"get"}}}
      \cup (UNION {Ahead(o) : o \in Operator}) \cup PolicyAsks(1, list)

\* The templates and constraints that are as everybody asks who may still ask
\* for them.
Settled == Key \ {a[1] : a \in {b \in Asked : b[2] # store[b[1]].spec}}

\* A template or a constraint that has settled stays as it is: an enforced
\* policy is never weakened, not for a moment, by a reconcile that starts over,
\* fails half-way or is repeated by another pod, nor by a late request.  Only
\* the constraint that takes the list changes, and only if Hydra's list does
\* (policy.go:97-132).
SettledStays ==
    [][LET held == IF UNCHANGED list THEN Settled ELSE Settled \ {Target(2 * N)}
       IN  held \subseteq Settled' /\ \A k \in held : store'[k].spec = store[k].spec]_policyVars

Enforced ==
    /\ \A k \in Kind : store[Template(k)].spec = Fixed
    /\ \A i \in 1..N : store[Constraint(Kinds[i])].spec = Wanted(N + i, list)

\* Once detection can find Gatekeeper the policy is enforced in the end, every
\* constraint of it, with the list that Hydra has, or without the constraint
\* if Hydra has none (policy.go:92-96): although the first reconciles fail
\* because the kinds are not served yet (e2e/policy_test.go:89-94), detection
\* fails now and then, and a request that was given up on may recreate a
\* constraint that was deleted since.
PolicyConvergence == <>(crds # {}) => <>[]Enforced

\* deploy/README.md:33-35: "Gatekeeper - if present, the operator applies its
\* ADR-026 policy ConstraintTemplates": on a cluster with Gatekeeper the
\* policy is enforced in the end.
PresentMeansEnforced == <>[]Enforced
=============================================================================
