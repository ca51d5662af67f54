---------------------------- MODULE ApplyObject ----------------------------
(***************************************************************************)
(* The API server as the reconcilers of internal/reconciler see it, and    *)
(* the one request pattern they all share (policy.go:198 calls it "the     *)
(* Get-or-Create-or-Update pattern every reconciler in this package        *)
(* uses"): read the object by its deterministic name, create it if the     *)
(* read says NotFound, otherwise replace its spec at the resourceVersion   *)
(* that was read.  An object that is not wanted is deleted, and NotFound   *)
(* is tolerated.                                                           *)
(*                                                                         *)
(* Three kinds of process act on the store:                                *)
(*   - the operators, each with at most one request outstanding, because   *)
(*     a sync runs in one goroutine;                                       *)
(*   - the requests an operator gave up on (time-out, cancelled context,   *)
(*     killed pod) and that the API server may still execute later;        *)
(*   - the controllers that own the status (Knative, the OpenShift router).*)
(*                                                                         *)
(* A resourceVersion is opaque and only compared for equality, so it is    *)
(* modelled by what the comparison would answer: `fresh' is TRUE while the *)
(* object still has the resourceVersion the Get returned.  Every change of *)
(* the object by anybody else makes it FALSE; a write that changes nothing *)
(* leaves the resourceVersion, and so `fresh', alone.                      *)
(***************************************************************************)
EXTENDS Naturals, FiniteSets

CONSTANTS
    Operator,   \* operator processes
    Key,        \* identities of objects: kind, namespace and name
    Want,       \* specs an operator can ask for
    None,       \* no spec: the object is absent, or not wanted
    Rejected,   \* <<key, spec>> pairs the admission chain always refuses
    Readiness,  \* values the controllers give the Ready condition
    MaxLate     \* bound: requests given up on and still under way

ASSUME ApplyAssumption ==
    /\ None \notin Want
    /\ None \notin Key
    /\ Rejected \subseteq Key \X Want
    /\ "Unknown" \in Readiness /\ Readiness \subseteq {"Unknown", "True", "False"}
    /\ MaxLate \in Nat

VARIABLES
    store,      \* [Key -> Object]: what the API server holds
    call,       \* [Operator -> Call]: the outstanding reconcile call
    late        \* requests given up on that may still be executed

vars == <<store, call, late>>

----------------------------------------------------------------------------
(* Data *)

\* ready: the Ready condition, "Unknown" also if it is not set yet;
\* seen: the spec the status speaks about (observedGeneration).
Object == [spec : Want \cup {None}, ready : Readiness, seen : Want \cup {None}]

NoObject == [spec |-> None, ready |-> "Unknown", seen |-> None]

Writing == {"create", "update", "delete"}

Call == [step : Writing \cup {"none", "get", "ok", "failed"},
         key : Key \cup {None}, want : Want \cup {None},
         fresh : BOOLEAN, got : Object]

NoCall == [step |-> "none", key |-> None, want |-> None,
           fresh |-> FALSE, got |-> NoObject]

Exists(k) == store[k].spec # None

----------------------------------------------------------------------------
(* Requests *)

\* A reconciler starts with a Get, or with a Delete if nothing is wanted.
Begin(k, w) ==
    [NoCall EXCEPT !.step = IF w = None THEN "delete" ELSE "get",
                   !.key = k, !.want = w]

\* Would the API server execute the write r now?
Accepts(r) ==
    /\ <<r.key, r.want>> \notin Rejected
    /\ r.step = "create" => ~Exists(r.key)
    /\ r.step = "update" => Exists(r.key) /\ r.fresh

\* The object a write leaves: spec and status are separate subresources.
Written(r) ==
    CASE r.step = "create" -> [NoObject EXCEPT !.spec = r.want]
      [] r.step = "update" -> [store[r.key] EXCEPT !.spec = r.want]
      [] OTHER             -> NoObject

\* The request r after the object k has become obj.
Outdated(r, k, obj) ==
    [r EXCEPT !.fresh = @ /\ (r.key = k => obj = store[k])]

\* The object k becomes obj; every other request on it goes stale.
Change(k, obj, requests) ==
    /\ store' = [store EXCEPT ![k] = obj]
    /\ late' = {Outdated(r, k, obj) : r \in requests}

----------------------------------------------------------------------------
(* An operator's requests *)

\* (A bug: an object that exists is taken to be as wanted.)
GetOnce(o) ==
    LET r == call[o]
    IN  /\ r.step = "get"
        /\ call' = [call EXCEPT ![o] =
                      IF Exists(r.key)
                      THEN [r EXCEPT !.step = "ok", !.got = store[r.key]]
                      ELSE [r EXCEPT !.step = "create"]]
        /\ UNCHANGED <<store, late>>

\* (A bug: what the object holds is not carried over to the update.)
GetOnlyVersion(o) ==
    LET r == call[o]
    IN  /\ r.step = "get"
        /\ call' = [call EXCEPT ![o] =
                      IF Exists(r.key)
                      THEN [r EXCEPT !.step = "update", !.fresh = TRUE]
                      ELSE [r EXCEPT !.step = "create"]]
        /\ UNCHANGED <<store, late>>

\* The answer to the Get.  All clients keep the resourceVersion; only those
\* for Services, Routes and DomainMappings carry more of the object read over
\* to their update (container.go:53-63), and templates, constraints and quotas
\* are built anew (policy.go:202-211, namespace.go:98-105).
Get(o) ==
    LET r == call[o]
    IN  /\ r.step = "get"
        /\ call' = [call EXCEPT ![o] =
                      IF Exists(r.key)
                      THEN [r EXCEPT !.step = "update", !.fresh = TRUE,
                                     !.got = store[r.key]]
                      ELSE [r EXCEPT !.step = "create"]]
        /\ UNCHANGED <<store, late>>

\* The write is executed and its answer arrives.
Land(o) ==
    LET r == call[o]
        obj == Written(r)
    IN  /\ r.step \in Writing
        /\ Accepts(r)
        /\ Change(r.key, obj, late)
        /\ call' = [p \in Operator |->
                      IF p = o
                      THEN [r EXCEPT !.step = "ok", !.fresh = FALSE, !.got = obj]
                      ELSE Outdated(call[p], r.key, obj)]

GiveUp(o) ==
    call' = [call EXCEPT ![o] =
               [@ EXCEPT !.step = "failed", !.fresh = FALSE, !.got = NoObject]]

\* The request is refused, or never reaches the API server.
Fail(o) ==
    /\ call[o].step \in Writing \cup {"get"}
    /\ GiveUp(o)
    /\ UNCHANGED <<store, late>>

\* (A bug: a read that times out is repeated as if it were a write.)
AbandonAny(o) ==
    /\ call[o].step \in Writing \cup {"get"}
    /\ Cardinality(late) < MaxLate
    /\ late' = late \cup {call[o]}
    /\ GiveUp(o)
    /\ UNCHANGED store

\* The write is given up on, but it is still on its way.
Abandon(o) ==
    /\ call[o].step \in Writing
    /\ Cardinality(late) < MaxLate
    /\ late' = late \cup {call[o]}
    /\ GiveUp(o)
    /\ UNCHANGED store

----------------------------------------------------------------------------
(* The rest of the cluster *)

LateLand(r) ==
    LET obj == Written(r)
    IN  /\ Accepts(r)
        /\ Change(r.key, obj, late \ {r})
        /\ call' = [p \in Operator |-> Outdated(call[p], r.key, obj)]

LateDrop(r) ==
    /\ late' = late \ {r}
    /\ UNCHANGED <<store, call>>

LateStep == \E r \in late : LateLand(r) \/ LateDrop(r)

\* The owning controller looks at the current spec and writes the status.
Observe(k) ==
    \E r \in Readiness :
        LET obj == [store[k] EXCEPT !.ready = r, !.seen = store[k].spec]
        IN  /\ Exists(k)
            /\ obj # store[k]
            /\ Change(k, obj, late)
            /\ call' = [p \in Operator |-> Outdated(call[p], k, obj)]

----------------------------------------------------------------------------
(* The pattern on its own: operators that reconcile any object to any spec *)

Start(o) ==
    /\ call[o].step = "none"
    /\ \E k \in Key, w \in Want \cup {None} : call' = [call EXCEPT ![o] = Begin(k, w)]
    /\ UNCHANGED <<store, late>>

Return(o) ==
    /\ call[o].step \in {"ok", "failed"}
    /\ call' = [call EXCEPT ![o] = NoCall]
    /\ UNCHANGED <<store, late>>

Init ==
    /\ store = [k \in Key |-> NoObject]
    /\ call = [o \in Operator |-> NoCall]
    /\ late = {}

Next ==
    \/ \E o \in Operator :
         Start(o) \/ Get(o) \/ Land(o) \/ Fail(o) \/ Abandon(o) \/ Return(o)
    \/ LateStep
    \/ \E k \in Key : Observe(k)

Spec == Init /\ [][Next]_vars

----------------------------------------------------------------------------
(* Properties *)

\* Every variable has its type; a request under way names an object, and only
\* writes are given up on.
TypeOK ==
    /\ store \in [Key -> Object]
    /\ call \in [Operator -> Call]
    /\ \A o \in Operator : call[o].step # "none" => call[o].key \in Key
    /\ late \subseteq {r \in Call : r.step \in Writing /\ r.key \in Key}

Pending == {call[o] : o \in Operator} \cup late

\* An update that the API server would execute, whether its operator still
\* waits for it or gave up on it, finds the very object its own Get returned:
\* the annotations and the status that container.go:54-63, route.go:78-85 and
\* domain.go:81-89 carry over are never those of an object that another
\* operator, a late request or a controller has changed in between.
NoLostUpdate ==
    \A r \in Pending :
        r.step = "update" /\ Accepts(r) => store[r.key] = r.got

=============================================================================
