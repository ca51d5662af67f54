------------------------ MODULE ContainerSyncProofs ------------------------
(***************************************************************************)
(* Proofs about ContainerSync for any number of operators, containers and  *)
(* domains, and any bounds.                                                *)
(***************************************************************************)
EXTENDS ContainerSync, TLAPS

----------------------------------------------------------------------------
(* The API server's steps preserve its types.  These lemmas are those of    *)
(* ApplyObjectProofs, for the objects and the specs of this module.         *)

\* A request that has gone stale is still a request on the same object.
LEMMA OutdatedType ==
    ASSUME NEW r \in API!Call, NEW k, NEW obj
    PROVE  /\ API!Outdated(r, k, obj) \in API!Call
           /\ API!Outdated(r, k, obj).step = r.step
           /\ API!Outdated(r, k, obj).key = r.key
           /\ API!Outdated(r, k, obj).want = r.want
           /\ API!Outdated(r, k, obj).got = r.got
           /\ API!Outdated(r, k, obj).fresh <=> r.fresh /\ (r.key = k => obj = store[k])
BY DEF API!Outdated, API!Call

\* An accepted write leaves an object of the right type.
LEMMA WrittenType ==
    ASSUME store \in [ObjectKey -> API!Object], NEW r \in API!Call, r.key \in ObjectKey, r.step \in API!Writing
    PROVE  API!Written(r) \in API!Object
<1>1. "Unknown" \in Readiness /\ None \in (Version \cup Container) \cup {None}
  BY SyncAssumption
<1>2. store[r.key] \in API!Object /\ r.want \in (Version \cup Container) \cup {None}
  BY DEF API!Call
<1>3. CASE r.step = "create"
  BY <1>1, <1>2, <1>3 DEF API!Written, API!Object, API!NoObject
<1>4. CASE r.step = "update"
  BY <1>2, <1>4 DEF API!Written, API!Object
<1>5. CASE r.step = "delete"
  BY <1>1, <1>5 DEF API!Written, API!Object, API!NoObject
<1>6. QED
  BY <1>3, <1>4, <1>5 DEF API!Writing

\* What a change of one object does to the types of all three variables.
LEMMA ChangeType ==
    ASSUME API!TypeOK, NEW k \in ObjectKey, NEW obj \in API!Object, NEW requests \in SUBSET late,
           API!Change(k, obj, requests)
    PROVE  /\ store' \in [ObjectKey -> API!Object]
           /\ late' \subseteq {r \in API!Call : r.step \in API!Writing /\ r.key \in ObjectKey}
<1>1. store' \in [ObjectKey -> API!Object]
  BY DEF API!Change, API!TypeOK
<1>2. \A r \in requests : r \in API!Call /\ r.step \in API!Writing /\ r.key \in ObjectKey
  BY DEF API!TypeOK
<1>3. QED
  BY <1>1, <1>2, OutdatedType DEF API!Change

\* A request of an operator preserves the types.
LEMMA RequestType ==
    ASSUME API!TypeOK, NEW self \in Operator,
           API!Get(self) \/ API!Land(self) \/ API!Fail(self) \/ API!Abandon(self)
    PROVE  API!TypeOK'
<1>1. ASSUME NEW o \in Operator, API!Get(o)
      PROVE  API!TypeOK'
  <2>1. call[o] \in API!Call /\ call[o].key \in ObjectKey /\ store[call[o].key] \in API!Object
    BY <1>1 DEF API!Get, API!TypeOK
  <2>2. /\ call' \in [Operator -> API!Call]
        /\ \A p \in Operator : call'[p].key = call[p].key
        /\ \A p \in Operator \ {o} : call'[p].step = call[p].step
    BY <1>1, <2>1 DEF API!Get, API!TypeOK, API!Call, API!Writing
  <2>3. QED
    BY <1>1, <2>1, <2>2 DEF API!Get, API!TypeOK
<1>2. ASSUME NEW o \in Operator, API!Land(o)
      PROVE  API!TypeOK'
  <2> DEFINE r == call[o]
             obj == API!Written(r)
  <2>1. r \in API!Call /\ r.key \in ObjectKey /\ r.step \in API!Writing
    BY <1>2 DEF API!Land, API!TypeOK, API!Writing
  <2>2. obj \in API!Object
    BY <2>1, WrittenType DEF API!TypeOK
  <2>3. API!Change(r.key, obj, late)
    BY <1>2 DEF API!Land
  <2>4. [r EXCEPT !.step = "ok", !.fresh = FALSE, !.got = obj] \in API!Call
    BY <2>1, <2>2 DEF API!Call
  <2>5. \A p \in Operator : API!Outdated(call[p], r.key, obj) \in API!Call
    BY OutdatedType DEF API!TypeOK
  <2>6. call' \in [Operator -> API!Call]
    BY <1>2, <2>4, <2>5 DEF API!Land
  <2>7. \A p \in Operator : call'[p].step # "none" => call'[p].key \in ObjectKey
    <3> SUFFICES ASSUME NEW p \in Operator, call'[p].step # "none"
                 PROVE  call'[p].key \in ObjectKey
      OBVIOUS
    <3>1. CASE p = o
      BY <1>2, <2>1, <3>1 DEF API!Land, API!Call
    <3>2. CASE p # o
      BY <1>2, <3>2, OutdatedType DEF API!Land, API!TypeOK
    <3>3. QED
      BY <3>1, <3>2
  <2>8. QED
    BY <2>1, <2>2, <2>3, <2>6, <2>7, ChangeType DEF API!TypeOK
<1>3. ASSUME NEW o \in Operator, API!GiveUp(o), call[o].step # "none"
      PROVE  /\ call' \in [Operator -> API!Call]
             /\ \A p \in Operator : call'[p].step # "none" => call'[p].key \in ObjectKey
  <2>1. API!NoObject \in API!Object
    BY SyncAssumption DEF API!Object, API!NoObject
  <2>2. call[o] \in API!Call /\ call[o].key \in ObjectKey
    BY <1>3 DEF API!TypeOK
  <2>3. [call[o] EXCEPT !.step = "failed", !.fresh = FALSE, !.got = API!NoObject] \in API!Call
    BY <2>1, <2>2 DEF API!Call
  <2>4. call' \in [Operator -> API!Call]
    BY <1>3, <2>3 DEF API!GiveUp, API!TypeOK
  <2>5. \A p \in Operator : call'[p].key = call[p].key /\ (p # o => call'[p].step = call[p].step)
    BY <1>3, <2>2 DEF API!GiveUp, API!TypeOK, API!Call
  <2>6. QED
    BY <2>2, <2>4, <2>5 DEF API!TypeOK
<1>4. ASSUME NEW o \in Operator, API!Fail(o)
      PROVE  API!TypeOK'
  BY <1>3, <1>4 DEF API!Fail, API!Writing, API!TypeOK
<1>5. ASSUME NEW o \in Operator, API!Abandon(o)
      PROVE  API!TypeOK'
  BY <1>3, <1>5 DEF API!Abandon, API!Writing, API!TypeOK
<1>6. QED
  BY <1>1, <1>2, <1>4, <1>5

\* So does what the rest of the cluster does.
LEMMA ClusterType ==
    ASSUME API!TypeOK, API!LateStep \/ \E k \in ObjectKey : API!Observe(k)
    PROVE  API!TypeOK'
<1>1. ASSUME NEW r \in late, API!LateLand(r)
      PROVE  API!TypeOK'
  <2>1. r \in API!Call /\ r.key \in ObjectKey /\ r.step \in API!Writing
    BY DEF API!TypeOK
  <2>2. API!Written(r) \in API!Object
    BY <2>1, WrittenType DEF API!TypeOK
  <2>3. API!Change(r.key, API!Written(r), late \ {r})
    BY <1>1 DEF API!LateLand
  <2>4. QED
    BY <1>1, <2>1, <2>2, <2>3, ChangeType, OutdatedType DEF API!LateLand, API!TypeOK
<1>2. ASSUME NEW r \in late, API!LateDrop(r)
      PROVE  API!TypeOK'
  BY <1>2 DEF API!LateDrop, API!TypeOK
<1>3. ASSUME NEW k \in ObjectKey, API!Observe(k)
       PROVE  API!TypeOK'
  <2>1. PICK r \in Readiness :
           LET obj == [store[k] EXCEPT !.ready = r, !.seen = store[k].spec]
           IN  /\ API!Change(k, obj, late)
               /\ call' = [p \in Operator |-> API!Outdated(call[p], k, obj)]
    BY <1>3 DEF API!Observe
  <2> DEFINE obj == [store[k] EXCEPT !.ready = r, !.seen = store[k].spec]
  <2>2. obj \in API!Object
    BY DEF API!TypeOK, API!Object
  <2>3. QED
    BY <2>1, <2>2, ChangeType, OutdatedType DEF API!TypeOK
<1>4. QED
  BY <1>1, <1>2, <1>3 DEF API!LateStep

----------------------------------------------------------------------------
(* What a step of the API server can do: all that the invariants below need *)
(* to know of ApplyObject.                                                  *)

APIStep ==
    \/ \E o \in Operator : API!Get(o) \/ API!Land(o) \/ API!Fail(o) \/ API!Abandon(o)
    \/ API!LateStep
    \/ \E k \in ObjectKey : API!Observe(k)

\* The write r leaves its object with spec s.
Leaves(r, s) ==
    /\ r.step \in API!Writing /\ API!Accepts(r)
    /\ s = IF r.step = "delete" THEN None ELSE r.want

\* An object keeps its spec, or gets the one a pending request asks for.
SpecsFollow ==
    \A k \in ObjectKey :
        \/ store'[k].spec = store[k].spec
        \/ \E r \in API!Pending : r.key = k /\ Leaves(r, store'[k].spec)

\* An operator's request goes on, is executed, or fails.
CallGoesOn(o) ==
    /\ call'[o].key = call[o].key /\ call'[o].want = call[o].want
    /\ \/ call'[o].step = call[o].step
       \/ call[o].step = "get" /\ call'[o].step \in {"create", "update"}
       \/ call'[o].step = "ok" /\ Leaves(call[o], store'[call[o].key].spec)
       \/ call'[o].step = "failed" /\ call[o].step # "none"

\* Late requests are writes that were pending before, and fresh only if they
\* were fresh and their object has not changed.
Was(q, r) ==
    /\ r.step \in API!Writing /\ q.step = r.step /\ q.key = r.key /\ q.want = r.want
    /\ q.fresh => r.fresh /\ store'[r.key] = store[r.key]

LateWerePending == \A q \in late' : \E r \in API!Pending : Was(q, r)

\* The spec that a write leaves.
LEMMA WrittenSpec ==
    ASSUME store \in [ObjectKey -> API!Object], NEW r \in API!Call, r.key \in ObjectKey,
           r.step \in API!Writing
    PROVE  API!Written(r).spec = IF r.step = "delete" THEN None ELSE r.want
BY DEF API!Written, API!Object, API!NoObject, API!Writing

\* A change of one object touches no other spec, and no late request's want.
LEMMA ChangeEffect ==
    ASSUME API!TypeOK, NEW k \in ObjectKey, NEW obj \in API!Object,
           NEW requests \in SUBSET late, API!Change(k, obj, requests)
    PROVE  /\ store'[k].spec = obj.spec
           /\ \A j \in ObjectKey \ {k} : store'[j] = store[j]
           /\ LateWerePending
<1>1. store' = [store EXCEPT ![k] = obj] /\ late' = {API!Outdated(r, k, obj) : r \in requests}
  BY DEF API!Change
<1>2. store'[k] = obj /\ \A j \in ObjectKey \ {k} : store'[j] = store[j]
  BY <1>1 DEF API!TypeOK
<1>3. ASSUME NEW q \in late'
      PROVE  \E r \in API!Pending : Was(q, r)
  <2>1. PICK r \in requests : q = API!Outdated(r, k, obj)
    BY <1>1
  <2>2. r \in API!Call /\ r.step \in API!Writing /\ r \in API!Pending
    BY DEF API!TypeOK, API!Pending
  <2>3. r.key \in ObjectKey
    BY DEF API!TypeOK
  <2>4. QED
    BY <1>2, <2>1, <2>2, <2>3, OutdatedType DEF Was
<1>4. QED
  BY <1>2, <1>3 DEF LateWerePending

\* Requests that go stale go on otherwise.
LEMMA OutdatedGoOn ==
    ASSUME API!TypeOK, NEW o \in Operator, NEW k, NEW obj,
           call'[o] = API!Outdated(call[o], k, obj)
    PROVE  CallGoesOn(o)
<1>1. call[o] \in API!Call
  BY DEF API!TypeOK
<1>2. QED
  BY <1>1, OutdatedType DEF CallGoesOn

\* Every step of the API server has these effects.
LEMMA APIEffect ==
    ASSUME API!TypeOK, APIStep
    PROVE  SpecsFollow /\ LateWerePending /\ \A o \in Operator : CallGoesOn(o)
<1>1. ASSUME UNCHANGED store, UNCHANGED late
      PROVE  SpecsFollow /\ LateWerePending
  BY <1>1 DEF SpecsFollow, LateWerePending, Was, API!Pending, API!TypeOK
<1>2. ASSUME NEW o \in Operator, API!Get(o)
      PROVE  SpecsFollow /\ LateWerePending /\ \A p \in Operator : CallGoesOn(p)
  <2>1. call[o] \in API!Call
    BY DEF API!TypeOK
  <2>2. CallGoesOn(o) /\ \A p \in Operator \ {o} : call'[p] = call[p]
    BY <1>2, <2>1 DEF API!Get, API!TypeOK, API!Call, CallGoesOn
  <2>3. QED
    BY <1>1, <1>2, <2>2 DEF API!Get, CallGoesOn
<1>3. ASSUME NEW o \in Operator, API!Land(o)
      PROVE  SpecsFollow /\ LateWerePending /\ \A p \in Operator : CallGoesOn(p)
  <2> DEFINE r == call[o]
             obj == API!Written(r)
  <2>1. r \in API!Call /\ r.key \in ObjectKey /\ r.step \in API!Writing /\ API!Accepts(r)
    BY <1>3 DEF API!Land, API!TypeOK, API!Writing
  <2>2. obj \in API!Object /\ obj.spec = IF r.step = "delete" THEN None ELSE r.want
    BY <2>1, WrittenType, WrittenSpec DEF API!TypeOK
  <2>3. /\ store'[r.key].spec = obj.spec
        /\ \A j \in ObjectKey \ {r.key} : store'[j] = store[j]
        /\ LateWerePending
    BY <1>3, <2>1, <2>2, ChangeEffect DEF API!Land
  <2>4. Leaves(r, store'[r.key].spec) /\ r \in API!Pending
    BY <2>1, <2>2, <2>3 DEF Leaves, API!Pending
  <2>5. SpecsFollow
    BY <2>3, <2>4 DEF SpecsFollow
  <2>6. CallGoesOn(o)
    BY <1>3, <2>1, <2>4 DEF API!Land, API!Call, CallGoesOn
  <2>7. \A p \in Operator \ {o} : CallGoesOn(p)
    BY <1>3, OutdatedGoOn DEF API!Land
  <2>8. QED
    BY <2>3, <2>5, <2>6, <2>7
<1>4. ASSUME NEW o \in Operator, API!GiveUp(o), call[o].step # "none"
      PROVE  \A p \in Operator : CallGoesOn(p)
  <2>1. call[o] \in API!Call
    BY DEF API!TypeOK
  <2>2. CallGoesOn(o) /\ \A p \in Operator \ {o} : call'[p] = call[p]
    BY <1>4, <2>1 DEF API!GiveUp, API!TypeOK, API!Call, CallGoesOn
  <2>3. QED
    BY <2>2 DEF CallGoesOn
<1>5. ASSUME NEW o \in Operator, API!Fail(o)
      PROVE  SpecsFollow /\ LateWerePending /\ \A p \in Operator : CallGoesOn(p)
  BY <1>1, <1>4, <1>5 DEF API!Fail, API!Writing
<1>6. ASSUME NEW o \in Operator, API!Abandon(o)
      PROVE  SpecsFollow /\ LateWerePending /\ \A p \in Operator : CallGoesOn(p)
  <2>1. SpecsFollow
    BY <1>6 DEF API!Abandon, SpecsFollow
  <2>2. LateWerePending
    BY <1>6 DEF API!Abandon, LateWerePending, Was, API!Pending, API!TypeOK
  <2>3. QED
    BY <1>4, <1>6, <2>1, <2>2 DEF API!Abandon, API!Writing
<1>7. ASSUME NEW r \in late, API!LateLand(r)
      PROVE  SpecsFollow /\ LateWerePending /\ \A p \in Operator : CallGoesOn(p)
  <2> DEFINE obj == API!Written(r)
  <2>1. r \in API!Call /\ r.key \in ObjectKey /\ r.step \in API!Writing /\ API!Accepts(r)
    BY <1>7 DEF API!LateLand, API!TypeOK
  <2>2. obj \in API!Object /\ obj.spec = IF r.step = "delete" THEN None ELSE r.want
    BY <2>1, WrittenType, WrittenSpec DEF API!TypeOK
  <2>3. /\ store'[r.key].spec = obj.spec
        /\ \A j \in ObjectKey \ {r.key} : store'[j] = store[j]
        /\ LateWerePending
    BY <1>7, <2>1, <2>2, ChangeEffect DEF API!LateLand
  <2>4. Leaves(r, store'[r.key].spec) /\ r \in API!Pending
    BY <2>1, <2>2, <2>3 DEF Leaves, API!Pending
  <2>5. SpecsFollow
    BY <2>3, <2>4 DEF SpecsFollow
  <2>6. \A p \in Operator : CallGoesOn(p)
    BY <1>7, OutdatedGoOn DEF API!LateLand
  <2>7. QED
    BY <2>3, <2>5, <2>6
<1>8. ASSUME NEW r \in late, API!LateDrop(r)
      PROVE  SpecsFollow /\ LateWerePending /\ \A p \in Operator : CallGoesOn(p)
  <2>1. SpecsFollow /\ LateWerePending
    BY <1>8 DEF API!LateDrop, SpecsFollow, LateWerePending, Was, API!Pending, API!TypeOK
  <2>2. QED
    BY <1>8, <2>1 DEF API!LateDrop, CallGoesOn
<1>9. ASSUME NEW k \in ObjectKey, API!Observe(k)
      PROVE  SpecsFollow /\ LateWerePending /\ \A p \in Operator : CallGoesOn(p)
  <2>1. PICK r \in Readiness :
           LET obj == [store[k] EXCEPT !.ready = r, !.seen = store[k].spec]
           IN  /\ API!Change(k, obj, late)
               /\ call' = [p \in Operator |-> API!Outdated(call[p], k, obj)]
    BY <1>9 DEF API!Observe
  <2> DEFINE obj == [store[k] EXCEPT !.ready = r, !.seen = store[k].spec]
  <2>2. obj \in API!Object /\ obj.spec = store[k].spec
    BY DEF API!TypeOK, API!Object
  <2>3. /\ store'[k].spec = store[k].spec
        /\ \A j \in ObjectKey \ {k} : store'[j] = store[j]
        /\ LateWerePending
    BY <2>1, <2>2, ChangeEffect
  <2>4. \A p \in Operator : CallGoesOn(p)
    BY <2>1, OutdatedGoOn
  <2>5. QED
    BY <2>3, <2>4 DEF SpecsFollow
<1>10. QED
  BY <1>2, <1>3, <1>5, <1>6, <1>7, <1>8, <1>9 DEF APIStep, API!LateStep

----------------------------------------------------------------------------
(* Types.  A container in the payload has a version, a sync visits only     *)
(* containers of its payload, and while it works on one, cur names it.      *)

HydraTypes ==
    /\ desired \in [Container -> Entry] /\ edits \in 0..MaxEdits
    /\ \A c \in Container : desired[c].version <= edits + 1
    /\ \A c \in Container : desired[c].live => desired[c].version # 0

SyncTypes ==
    /\ stage \in [Operator -> Stage]
    /\ snap \in [Operator -> [Container -> Entry]]
    /\ todo \in [Operator -> SUBSET Container]
    /\ cur \in [Operator -> Container \cup {None}]
    /\ hosts \in [Operator -> SUBSET Host]
    /\ \A o \in Operator : \A c \in todo[o] : snap[o][c].version # 0
    /\ \A o \in Operator : stage[o] \in {"service", "route", "domains"} => cur[o] \in Container

TypeInv == HydraTypes /\ API!TypeOK /\ SyncTypes /\ crashes \in 0..MaxCrashes

\* TypeInv is at least as strong as the type invariant.
LEMMA TypeInvariant == TypeInv => TypeOK
BY DEF TypeInv, HydraTypes, SyncTypes, TypeOK

\* The names of objects, and the kinds they start with.
LEMMA Names ==
    ASSUME NEW c \in Container
    PROVE  /\ ServiceOf(c) \in ObjectKey /\ ServiceOf(c).kind = "Service"
           /\ RouteOf(c) \in ObjectKey /\ RouteOf(c).kind = "Route"
           /\ \A h \in Host : /\ MappingOf(c, h) \in ObjectKey
                              /\ MappingOf(c, h).kind = "DomainMapping"
BY DEF ObjectKey, ServiceOf, RouteOf, MappingOf

\* What a reconcile call begins with.
LEMMA BeginCall ==
    ASSUME NEW k \in ObjectKey, NEW w \in Version \cup Container \cup {None}
    PROVE  /\ API!Begin(k, w) \in API!Call
           /\ API!Begin(k, w).key = k /\ API!Begin(k, w).want = w
           /\ API!Begin(k, w).step = IF w = None THEN "delete" ELSE "get"
<1>1. API!NoObject \in API!Object
  BY SyncAssumption DEF API!NoObject, API!Object
<1>2. API!NoCall \in API!Call
  BY <1>1 DEF API!NoCall, API!Call
<1>3. QED
  BY <1>2 DEF API!Begin, API!Call, API!Writing

\* Having no call is a call that is not under way.
LEMMA NoCallType == API!NoCall \in API!Call /\ API!NoCall.step = "none"
BY SyncAssumption DEF API!NoCall, API!Call, API!NoObject, API!Object

\* Replacing the call of one operator keeps the API server's types.
LEMMA CallType ==
    ASSUME API!TypeOK, NEW o \in Operator, NEW q \in API!Call,
           q.step = "none" \/ q.key \in ObjectKey,
           call' = [call EXCEPT ![o] = q], UNCHANGED <<store, late>>
    PROVE  API!TypeOK'
BY DEF API!TypeOK

\* Every edit keeps Hydra's types.
LEMMA EditType == ASSUME TypeInv, Edit PROVE HydraTypes'
<1>1. ASSUME NEW f \in [Container -> Entry], EditWith(f),
             \A c \in Container : f[c].version <= edits + 2 /\ (f[c].live => f[c].version # 0)
      PROVE  HydraTypes'
  <2>1. edits' = edits + 1 /\ edits' \in 0..MaxEdits /\ desired' = f
    BY <1>1, SyncAssumption DEF EditWith, TypeInv, HydraTypes
  <2>2. edits \in Nat
    BY DEF TypeInv, HydraTypes
  <2>3. QED
    BY <1>1, <2>1, <2>2 DEF HydraTypes
<1>2. /\ desired \in [Container -> Entry] /\ edits \in 0..MaxEdits
      /\ \A c \in Container :
           /\ desired[c].version \in Version \cup {0} /\ desired[c].version <= edits + 1
           /\ desired[c].version \in Nat
           /\ desired[c].live \in BOOLEAN /\ desired[c].route \in BOOLEAN
           /\ desired[c].hosts \subseteq Host
           /\ desired[c].live => desired[c].version # 0
  BY DEF TypeInv, HydraTypes, Entry, Version
<1>3. ASSUME NEW c \in Container, Deploy(c)
      PROVE  HydraTypes'
  <2> DEFINE e == [desired[c] EXCEPT !.live = TRUE, !.version = @ + 1]
             f == [desired EXCEPT ![c] = e]
  <2>1. EditWith(f) /\ edits < MaxEdits
    BY <1>3 DEF Deploy, EditWith
  <2>2. desired[c].version + 1 \in Version /\ desired[c].version + 1 <= edits + 2
    BY <1>2, <2>1, SyncAssumption DEF Version
  <2>3. e \in Entry /\ e.version = desired[c].version + 1 /\ e.version # 0
    <3> DEFINE v == desired[c].version + 1
    <3>1. v \in Version /\ v # 0
      BY <1>2, <2>2
    <3> HIDE DEF v
    <3>2. e = [desired[c] EXCEPT !.live = TRUE, !.version = v]
      BY DEF v
    <3>3. e \in Entry /\ e.version = v
      BY <1>2, <3>1, <3>2 DEF Entry
    <3>4. QED
      BY <3>1, <3>3 DEF v
  <2>4. f \in [Container -> Entry]
    BY <1>2, <2>3
  <2>5. \A d \in Container : f[d].version <= edits + 2 /\ (f[d].live => f[d].version # 0)
    BY <1>2, <2>2, <2>3
  <2>6. QED
    BY <1>1, <2>1, <2>4, <2>5
<1>4. ASSUME NEW c \in Container, Undeploy(c)
      PROVE  HydraTypes'
  <2> DEFINE e == [desired[c] EXCEPT !.live = FALSE, !.hosts = {}]
             f == [desired EXCEPT ![c] = e]
  <2>1. EditWith(f)
    BY <1>4 DEF Undeploy
  <2>2. e \in Entry /\ e.version = desired[c].version /\ ~e.live
    BY <1>2 DEF Entry
  <2>3. f \in [Container -> Entry]
    BY <1>2, <2>2
  <2>4. \A d \in Container : f[d].version <= edits + 2 /\ (f[d].live => f[d].version # 0)
    BY <1>2, <2>2
  <2>5. QED
    BY <1>1, <2>1, <2>3, <2>4
<1>5. ASSUME NEW c \in Container, ToggleRoute(c)
      PROVE  HydraTypes'
  <2> DEFINE e == [desired[c] EXCEPT !.route = ~@]
             f == [desired EXCEPT ![c] = e]
  <2>1. EditWith(f)
    BY <1>5 DEF ToggleRoute
  <2>2. e \in Entry /\ e.version = desired[c].version /\ e.live = desired[c].live
    BY <1>2 DEF Entry
  <2>3. f \in [Container -> Entry]
    BY <1>2, <2>2
  <2>4. \A d \in Container : f[d].version <= edits + 2 /\ (f[d].live => f[d].version # 0)
    BY <1>2, <2>2
  <2>5. QED
    BY <1>1, <2>1, <2>3, <2>4
<1>6. ASSUME NEW h \in Host, NEW c \in Container, AssignHost(h, c)
      PROVE  HydraTypes'
  <2> DEFINE e(d) == [desired[d] EXCEPT !.hosts = IF d = c THEN @ \cup {h} ELSE @ \ {h}]
             f == [d \in Container |-> e(d)]
  <2>1. EditWith(f)
    BY <1>6 DEF AssignHost
  <2>2. \A d \in Container :
          e(d) \in Entry /\ e(d).version = desired[d].version /\ e(d).live = desired[d].live
    BY <1>2 DEF Entry
  <2> HIDE DEF e
  <2>3. f \in [Container -> Entry]
    BY <2>2
  <2>4. \A d \in Container : f[d].version <= edits + 2 /\ (f[d].live => f[d].version # 0)
    BY <1>2, <2>2
  <2> HIDE DEF f
  <2>5. QED
    BY <1>1, <2>1, <2>3, <2>4
<1>7. QED
  BY <1>3, <1>4, <1>5, <1>6 DEF Edit

\* Every step keeps the types: one step per action.
LEMMA TypeStep == ASSUME TypeInv, [Next]_vars PROVE TypeInv'
<1> USE DEF TypeInv, hydraVars, apiVars, syncVars
<1>1. /\ UNCHANGED hydraVars => HydraTypes'
      /\ UNCHANGED apiVars => API!TypeOK'
      /\ UNCHANGED syncVars => SyncTypes'
  BY DEF HydraTypes, SyncTypes, API!TypeOK
<1>2. ASSUME NEW o \in Operator, call' = [call EXCEPT ![o] = API!NoCall],
             UNCHANGED <<store, late>>
      PROVE  API!TypeOK'
  BY <1>2, NoCallType, CallType
<1>3. ASSUME NEW o \in Operator, NEW k \in ObjectKey,
             NEW w \in Version \cup Container \cup {None},
             call' = [call EXCEPT ![o] = API!Begin(k, w)], UNCHANGED <<store, late>>
      PROVE  API!TypeOK'
  <2>1. API!Begin(k, w) \in API!Call /\ API!Begin(k, w).key \in ObjectKey
    BY BeginCall
  <2>2. QED
    BY <1>3, <2>1, CallType
<1>4. ASSUME NEW o \in Operator, NextContainer(o)
      PROVE  TypeInv'
  <2>1. SyncTypes'
    BY <1>4 DEF NextContainer, SyncTypes, Stage
  <2>2. QED
    BY <1>1, <1>2, <1>4, <2>1 DEF NextContainer
<1>5. CASE Edit
  BY <1>1, <1>5, EditType DEF Edit, Deploy, Undeploy, ToggleRoute, AssignHost, EditWith
<1>6. CASE Cluster
  BY <1>1, <1>6, ClusterType DEF Cluster
<1>7. ASSUME NEW o \in Operator, Pull(o)
      PROVE  TypeInv'
  <2>1. desired \in [Container -> Entry] /\ \A c \in Container : desired[c].live => desired[c].version # 0
    BY DEF HydraTypes
  <2>2. SyncTypes'
    BY <1>7, <2>1 DEF Pull, SyncTypes, Stage
  <2>3. QED
    BY <1>1, <1>7, <2>2 DEF Pull
<1>8. ASSUME NEW o \in Operator, StartContainer(o)
      PROVE  TypeInv'
  <2>1. PICK c \in todo[o] :
          /\ cur' = [cur EXCEPT ![o] = c]
          /\ todo' = [todo EXCEPT ![o] = @ \ {c}]
          /\ call' = [call EXCEPT ![o] = API!Begin(ServiceOf(c), snap[o][c].version)]
    BY <1>8 DEF StartContainer
  <2>2. c \in Container /\ snap[o][c].version \in Version
    BY DEF SyncTypes, Entry
  <2>3. API!TypeOK'
    BY <1>3, <1>8, <2>1, <2>2, Names DEF StartContainer
  <2>4. SyncTypes'
    BY <1>8, <2>1, <2>2 DEF StartContainer, SyncTypes, Stage
  <2>5. QED
    BY <1>1, <1>8, <2>3, <2>4 DEF StartContainer
<1>9. ASSUME NEW o \in Operator, ServiceFailed(o)
      PROVE  TypeInv'
  BY <1>4, <1>9 DEF ServiceFailed
<1>10. ASSUME NEW o \in Operator, ServiceApplied(o)
       PROVE  TypeInv'
  <2>1. cur[o] \in Container
    BY <1>10 DEF ServiceApplied, SyncTypes
  <2>2. API!TypeOK'
    BY <1>3, <1>10, <2>1, Names DEF ServiceApplied
  <2>3. SyncTypes'
    BY <1>10, <2>1 DEF ServiceApplied, SyncTypes, Stage
  <2>4. QED
    BY <1>1, <1>10, <2>2, <2>3 DEF ServiceApplied
<1>11. ASSUME NEW o \in Operator, RouteDone(o)
       PROVE  TypeInv'
  <2>1. cur[o] \in Container
    BY <1>11 DEF RouteDone, SyncTypes
  <2>2. Mine(o).hosts \in SUBSET Host
    BY <2>1 DEF Mine, SyncTypes, Entry
  <2>3. SyncTypes'
    BY <1>11, <2>1, <2>2 DEF RouteDone, SyncTypes, Stage
  <2>4. QED
    BY <1>1, <1>2, <1>11, <2>3 DEF RouteDone
<1>12. ASSUME NEW o \in Operator, StartDomain(o)
       PROVE  TypeInv'
  <2>1. cur[o] \in Container /\ hosts[o] \subseteq Host
    BY <1>12 DEF StartDomain, SyncTypes
  <2>2. API!TypeOK'
    BY <1>3, <1>12, <2>1, Names DEF StartDomain
  <2>3. SyncTypes'
    BY <1>12 DEF StartDomain, SyncTypes
  <2>4. QED
    BY <1>1, <1>12, <2>2, <2>3 DEF StartDomain
<1>13. ASSUME NEW o \in Operator, DomainDone(o)
       PROVE  TypeInv'
  BY <1>1, <1>2, <1>13 DEF DomainDone
<1>14. ASSUME NEW o \in Operator, FinishContainer(o)
       PROVE  TypeInv'
  BY <1>4, <1>14 DEF FinishContainer
<1>15. NothingDesired \in [Container -> Entry]
  BY DEF NothingDesired, NoEntry, Entry
<1>16. ASSUME NEW o \in Operator, FinishSync(o)
       PROVE  TypeInv'
  <2>1. SyncTypes'
    BY <1>15, <1>16 DEF FinishSync, SyncTypes, Stage
  <2>2. QED
    BY <1>1, <1>16, <2>1 DEF FinishSync
<1>17. ASSUME NEW o \in Operator, Request(o)
       PROVE  TypeInv'
  BY <1>1, <1>17, RequestType DEF Request
<1>18. ASSUME NEW o \in Operator, Crash(o)
       PROVE  TypeInv'
  <2>1. SyncTypes'
    BY <1>15, <1>18 DEF Crash, SyncTypes, Stage
  <2>2. late' \subseteq {r \in API!Call : r.step \in API!Writing /\ r.key \in ObjectKey}
    BY <1>18 DEF Crash, API!TypeOK, API!Writing
  <2>3. API!TypeOK'
    BY <1>18, <2>2, NoCallType DEF Crash, API!TypeOK
  <2>4. crashes' \in 0..MaxCrashes
    BY <1>18, SyncAssumption DEF Crash
  <2>5. QED
    BY <1>1, <1>18, <2>1, <2>3, <2>4 DEF Crash
<1>19. CASE UNCHANGED vars
  BY <1>1, <1>19 DEF vars
<1>20. QED
  BY <1>5, <1>6, <1>7, <1>8, <1>9, <1>10, <1>11, <1>12, <1>13, <1>14, <1>16, <1>17, <1>18,
     <1>19 DEF Next, Sync

\* The initial states have the types.
LEMMA TypeInit == Init => TypeInv
<1> SUFFICES ASSUME Init PROVE TypeInv
  OBVIOUS
<1>1. NoEntry \in Entry /\ [NoEntry EXCEPT !.live = TRUE, !.version = 1] \in Entry
  <2>1. 0 \in Version \cup {0} /\ 1 \in Version \cup {0}
    BY SyncAssumption DEF Version
  <2>2. QED
    BY <2>1 DEF NoEntry, Entry
<1>2. HydraTypes
  <2>1. desired \in [Container -> Entry]
    BY <1>1 DEF Init
  <2>2. \A c \in Container : desired[c].version \in {0, 1} /\ (desired[c].live => desired[c].version # 0)
    BY DEF Init, NoEntry
  <2>3. edits = 0 /\ 0 \in 0..MaxEdits
    BY SyncAssumption DEF Init
  <2>4. QED
    BY <2>1, <2>2, <2>3 DEF HydraTypes
<1>3. API!TypeOK
  <2>1. API!NoObject \in API!Object
    BY SyncAssumption DEF API!NoObject, API!Object
  <2>2. QED
    BY <2>1, NoCallType DEF Init, API!Init, API!TypeOK
<1>4. SyncTypes
  BY <1>1 DEF Init, SyncTypes, NothingDesired, Stage
<1>5. crashes \in 0..MaxCrashes
  BY SyncAssumption DEF Init
<1>6. QED
  BY <1>2, <1>3, <1>4, <1>5 DEF TypeInv

\* Every variable has its type throughout (ContainerSync!TypeOK): versions
\* stay within the edits made, and no step meets a container without payload.
THEOREM TypeCorrect == Spec => []TypeOK
<1>1. TypeInv /\ [Next]_vars => TypeInv'
  BY TypeStep
<1>2. QED
  BY <1>1, TypeInit, TypeInvariant, PTL DEF Spec

----------------------------------------------------------------------------
(* No dangling objects.  By itself NoDanglingObjects is not inductive: a     *)
(* request of an earlier sync or pod may create a Route at any time.  What  *)
(* makes it so is that no request ever asks for a Service to be deleted,    *)
(* and that a request for an object that exposes a Service is only made,    *)
(* and so only left behind, after the Service was there.                    *)

UnderWay(r) == r.step \in API!Writing \cup {"get"}

Sound(r, s) ==
    /\ UnderWay(r) => (r.step = "delete" <=> r.want = None)
    /\ UnderWay(r) /\ r.key.kind = "Service" => r.want # None
    /\ UnderWay(r) => \A c \in Container : r.want = c => s[ServiceOf(c)].spec # None
    /\ r.step = "ok" /\ r.key.kind = "Service" => s[r.key].spec # None

Grounded ==
    /\ \A o \in Operator : Sound(call[o], store)
    /\ \A r \in late : Sound(r, store)
    /\ \A o \in Operator : stage[o] = "service" => call[o].key = ServiceOf(cur[o])
    /\ \A o \in Operator :
         stage[o] \in {"route", "domains"} => store[ServiceOf(cur[o])].spec # None
    /\ NoDanglingObjects

\* What a request that asks for w has to do with the specs: a version is not
\* a container, and None is neither.
LEMMA Specs ==
    /\ \A v \in Version, c \in Container : v # c /\ v # None /\ c # None
    /\ \A c \in Container : c # None
BY SyncAssumption DEF Version

\* A request that is begun with a Service that is there is sound.
LEMMA BeginSound ==
    ASSUME NEW k \in ObjectKey, NEW w \in Version \cup Container \cup {None},
           k.kind = "Service" => w # None,
           \A c \in Container : w = c => store[ServiceOf(c)].spec # None
    PROVE  Sound(API!Begin(k, w), store)
<1>1. /\ API!Begin(k, w).key = k /\ API!Begin(k, w).want = w
      /\ API!Begin(k, w).step = IF w = None THEN "delete" ELSE "get"
  BY BeginCall
<1>2. QED
  BY <1>1 DEF Sound, UnderWay, API!Writing

\* No call asks for nothing.
LEMMA NoCallSound == Sound(API!NoCall, store)
BY DEF Sound, UnderWay, API!NoCall, API!Writing

\* The API server's steps keep every object grounded.
LEMMA GroundedCluster ==
    ASSUME TypeInv, Grounded, APIStep, UNCHANGED syncVars
    PROVE  Grounded'
<1>1. SpecsFollow /\ LateWerePending /\ \A o \in Operator : CallGoesOn(o)
  BY APIEffect DEF TypeInv
<1>2. \A r \in API!Pending : Sound(r, store)
  BY DEF Grounded, API!Pending
<1>3. \A r \in API!Pending : \A x : Leaves(r, x) => UnderWay(r) /\ x = r.want
  BY <1>2 DEF Leaves, Sound, UnderWay
<1>4. ASSUME NEW c \in Container, store[ServiceOf(c)].spec # None
      PROVE  store'[ServiceOf(c)].spec # None
  <2>1. ServiceOf(c) \in ObjectKey /\ ServiceOf(c).kind = "Service"
    BY Names
  <2>2. CASE store'[ServiceOf(c)].spec = store[ServiceOf(c)].spec
    BY <1>4, <2>2
  <2>3. CASE \E r \in API!Pending : r.key = ServiceOf(c) /\ Leaves(r, store'[ServiceOf(c)].spec)
    BY <1>2, <1>3, <2>1, <2>3 DEF Sound
  <2>4. QED
    BY <1>1, <2>1, <2>2, <2>3 DEF SpecsFollow
<1>5. \A k \in ObjectKey : k.kind = "Service" => \E c \in Container : k = ServiceOf(c)
  BY DEF ObjectKey, ServiceOf, RouteOf, MappingOf
<1>6. ASSUME NEW r \in API!Pending, NEW q, q.step = r.step, q.key = r.key, q.want = r.want,
             r.step # "none" => r.key \in ObjectKey
      PROVE  Sound(q, store')
  BY <1>2, <1>4, <1>5, <1>6 DEF Sound, UnderWay
<1>7. ASSUME NEW o \in Operator
      PROVE  Sound(call'[o], store')
  <2> DEFINE r == call[o]
             q == call'[o]
  <2>1. /\ r \in API!Pending /\ r \in API!Call
        /\ r.step # "none" => r.key \in ObjectKey
        /\ q.key = r.key /\ q.want = r.want
    BY <1>1 DEF API!Pending, TypeInv, API!TypeOK, CallGoesOn
  <2>2. CASE q.step = r.step
    BY <1>6, <2>1, <2>2
  <2>3. CASE r.step = "get" /\ q.step \in {"create", "update"}
    BY <1>2, <1>4, <2>1, <2>3 DEF Sound, UnderWay, API!Writing
  <2>4. CASE q.step = "ok" /\ Leaves(r, store'[r.key].spec)
    BY <1>2, <1>3, <2>1, <2>4 DEF Sound, UnderWay, API!Writing
  <2>5. CASE q.step = "failed"
    BY <2>5 DEF Sound, UnderWay, API!Writing
  <2>6. QED
    BY <1>1, <2>2, <2>3, <2>4, <2>5 DEF CallGoesOn
<1>8. ASSUME NEW q \in late'
      PROVE  Sound(q, store')
  <2>1. PICK r \in API!Pending : Was(q, r)
    BY <1>1 DEF LateWerePending
  <2>2. r.key \in ObjectKey
    BY <2>1 DEF Was, API!Pending, TypeInv, API!TypeOK, API!Writing
  <2>3. QED
    BY <1>6, <2>1, <2>2 DEF Was
<1>9. NoDanglingObjects'
  <2> SUFFICES ASSUME NEW k \in ObjectKey, NEW c \in Container,
                      k.kind # "Service", store'[k].spec = c
               PROVE  store'[ServiceOf(c)].spec # None
    BY DEF NoDanglingObjects, Exists, API!Exists
  <2>1. CASE store'[k].spec = store[k].spec
    BY <1>4, <2>1 DEF Grounded, NoDanglingObjects, Exists, API!Exists
  <2>2. CASE \E r \in API!Pending : r.key = k /\ Leaves(r, store'[k].spec)
    BY <1>2, <1>3, <1>4, <2>2 DEF Sound
  <2>3. QED
    BY <1>1, <2>1, <2>2 DEF SpecsFollow
<1>10. \A o \in Operator : stage'[o] = "service" => call'[o].key = ServiceOf(cur'[o])
  BY <1>1 DEF Grounded, CallGoesOn, syncVars
<1>11. \A o \in Operator :
         stage'[o] \in {"route", "domains"} => store'[ServiceOf(cur'[o])].spec # None
  BY <1>4 DEF Grounded, syncVars, TypeInv, SyncTypes
<1>12. QED
  BY <1>7, <1>8, <1>9, <1>10, <1>11 DEF Grounded

\* So does every step that leaves the objects alone, if the requests and the
\* position of the operator that takes it are right.
LEMMA GroundedSync ==
    ASSUME TypeInv, Grounded, UNCHANGED store, late' \subseteq API!Pending,
           NEW o \in Operator, NEW q, call' = [call EXCEPT ![o] = q], Sound(q, store),
           \A p \in Operator \ {o} : stage'[p] = stage[p] /\ cur'[p] = cur[p],
           stage'[o] = "service" => q.key = ServiceOf(cur'[o]),
           stage'[o] \in {"route", "domains"} => store[ServiceOf(cur'[o])].spec # None
    PROVE  Grounded'
<1>1. call'[o] = q /\ \A p \in Operator \ {o} : call'[p] = call[p]
  BY DEF TypeInv, API!TypeOK
<1>2. \A p \in Operator : Sound(call'[p], store')
  BY <1>1 DEF Grounded
<1>3. \A r \in late' : Sound(r, store')
  BY DEF Grounded, API!Pending
<1>4. /\ \A p \in Operator : stage'[p] = "service" => call'[p].key = ServiceOf(cur'[p])
      /\ \A p \in Operator :
           stage'[p] \in {"route", "domains"} => store'[ServiceOf(cur'[p])].spec # None
  BY <1>1 DEF Grounded
<1>5. NoDanglingObjects'
  BY DEF Grounded, NoDanglingObjects, Exists, API!Exists
<1>6. QED
  BY <1>2, <1>3, <1>4, <1>5 DEF Grounded

\* Every step keeps every object grounded: one step per action.
LEMMA GroundedStep == ASSUME TypeInv, Grounded, [Next]_vars PROVE Grounded'
<1> USE DEF hydraVars, apiVars, syncVars
<1>1. ASSUME UNCHANGED <<apiVars, stage, cur>>
      PROVE  Grounded'
  BY <1>1 DEF Grounded, NoDanglingObjects, Exists, API!Exists
<1>2. /\ late \subseteq API!Pending /\ \A o \in Operator : call[o] \in API!Pending
      /\ stage \in [Operator -> Stage] /\ cur \in [Operator -> Container \cup {None}]
      /\ \A o \in Operator : stage[o] \in {"service", "route", "domains"} => cur[o] \in Container
      /\ \A o \in Operator : Sound(call[o], store)
  BY DEF API!Pending, TypeInv, SyncTypes, Grounded
<1>3. ASSUME NEW o \in Operator, NextContainer(o)
      PROVE  Grounded'
  BY <1>2, <1>3, NoCallSound, GroundedSync DEF NextContainer
<1>4. CASE Edit
  BY <1>1, <1>4 DEF Edit, Deploy, Undeploy, ToggleRoute, AssignHost, EditWith
<1>5. CASE Cluster
  BY <1>5, GroundedCluster DEF Cluster, APIStep
<1>6. ASSUME NEW o \in Operator, Pull(o)
      PROVE  Grounded'
  BY <1>2, <1>6 DEF Pull, Grounded, NoDanglingObjects, Exists, API!Exists
<1>7. ASSUME NEW o \in Operator, StartContainer(o)
      PROVE  Grounded'
  <2>1. PICK c \in todo[o] :
          /\ cur' = [cur EXCEPT ![o] = c]
          /\ call' = [call EXCEPT ![o] = API!Begin(ServiceOf(c), snap[o][c].version)]
    BY <1>7 DEF StartContainer
  <2> DEFINE v == snap[o][c].version
             q == API!Begin(ServiceOf(c), v)
  <2>2. c \in Container /\ v \in Version
    BY DEF TypeInv, SyncTypes, Entry
  <2>3. Sound(q, store)
    BY <2>2, Specs, Names, BeginSound
  <2>4. q.key = ServiceOf(c)
    BY <2>2, Names, BeginCall
  <2>5. stage'[o] = "service" /\ cur'[o] = c /\ \A p \in Operator \ {o} : stage'[p] = stage[p] /\ cur'[p] = cur[p]
    BY <1>2, <1>7, <2>1 DEF StartContainer
  <2>6. UNCHANGED store /\ late' \subseteq API!Pending
    BY <1>2, <1>7 DEF StartContainer
  <2> HIDE DEF q
  <2>7. QED
    BY <2>1, <2>3, <2>4, <2>5, <2>6, GroundedSync DEF q
<1>8. ASSUME NEW o \in Operator, ServiceFailed(o)
      PROVE  Grounded'
  BY <1>3, <1>8 DEF ServiceFailed
<1>9. ASSUME NEW o \in Operator, ServiceApplied(o)
      PROVE  Grounded'
  <2> DEFINE w == IF Mine(o).route THEN cur[o] ELSE None
             q == API!Begin(RouteOf(cur[o]), w)
  <2>1. cur[o] \in Container
    BY <1>2, <1>9 DEF ServiceApplied
  <2>2. store[ServiceOf(cur[o])].spec # None
    <3>1. call[o].key = ServiceOf(cur[o]) /\ call[o].step = "ok"
      BY <1>9 DEF ServiceApplied, Grounded
    <3>2. QED
      BY <1>2, <2>1, <3>1, Names DEF Sound
  <2>3. Sound(q, store)
    BY <2>1, <2>2, Specs, Names, BeginSound
  <2>4. /\ stage'[o] = "route" /\ cur' = cur
        /\ \A p \in Operator \ {o} : stage'[p] = stage[p]
    BY <1>2, <1>9 DEF ServiceApplied
  <2>5. call' = [call EXCEPT ![o] = q] /\ UNCHANGED store /\ late' \subseteq API!Pending
    BY <1>2, <1>9 DEF ServiceApplied
  <2> HIDE DEF q
  <2>6. QED
    BY <2>2, <2>3, <2>4, <2>5, GroundedSync
<1>10. ASSUME NEW o \in Operator, RouteDone(o)
       PROVE  Grounded'
  <2>1. store[ServiceOf(cur[o])].spec # None
    BY <1>10 DEF RouteDone, Grounded
  <2>2. stage'[o] = "domains" /\ cur' = cur /\ \A p \in Operator \ {o} : stage'[p] = stage[p]
    BY <1>2, <1>10 DEF RouteDone
  <2>3. QED
    BY <1>2, <1>10, <2>1, <2>2, NoCallSound, GroundedSync DEF RouteDone
<1>11. ASSUME NEW o \in Operator, StartDomain(o)
       PROVE  Grounded'
  <2>1. PICK h \in hosts[o] : call' = [call EXCEPT ![o] = API!Begin(MappingOf(cur[o], h), cur[o])]
    BY <1>11 DEF StartDomain
  <2> DEFINE q == API!Begin(MappingOf(cur[o], h), cur[o])
  <2>2. cur[o] \in Container /\ h \in Host /\ store[ServiceOf(cur[o])].spec # None
    BY <1>2, <1>11 DEF StartDomain, TypeInv, SyncTypes, Grounded
  <2>3. Sound(q, store)
    BY <2>2, Specs, Names, BeginSound
  <2>4. stage' = stage /\ cur' = cur /\ stage[o] = "domains" /\ UNCHANGED store /\ late' \subseteq API!Pending
    BY <1>2, <1>11 DEF StartDomain
  <2> HIDE DEF q
  <2>5. QED
    BY <2>1, <2>2, <2>3, <2>4, GroundedSync DEF q
<1>12. ASSUME NEW o \in Operator, DomainDone(o)
       PROVE  Grounded'
  <2>1. stage[o] = "domains" /\ store[ServiceOf(cur[o])].spec # None
    BY <1>12 DEF DomainDone, Grounded
  <2>2. QED
    BY <1>2, <1>12, <2>1, NoCallSound, GroundedSync DEF DomainDone
<1>13. ASSUME NEW o \in Operator, FinishContainer(o)
       PROVE  Grounded'
  BY <1>3, <1>13 DEF FinishContainer
<1>14. ASSUME NEW o \in Operator, FinishSync(o)
       PROVE  Grounded'
  BY <1>2, <1>14 DEF FinishSync, Grounded, NoDanglingObjects, Exists, API!Exists
<1>15. ASSUME NEW o \in Operator, Request(o)
       PROVE  Grounded'
  BY <1>15, GroundedCluster DEF Request, APIStep
<1>16. ASSUME NEW o \in Operator, Crash(o)
       PROVE  Grounded'
  <2>1. late' \subseteq API!Pending
    BY <1>2, <1>16 DEF Crash
  <2>2. stage'[o] = "idle" /\ \A p \in Operator \ {o} : stage'[p] = stage[p] /\ cur'[p] = cur[p]
    BY <1>2, <1>16 DEF Crash
  <2>3. QED
    BY <1>16, <2>1, <2>2, NoCallSound, GroundedSync DEF Crash
<1>17. CASE UNCHANGED vars
  BY <1>1, <1>17 DEF vars
<1>18. QED
  BY <1>4, <1>5, <1>6, <1>7, <1>8, <1>9, <1>10, <1>11, <1>12, <1>13, <1>14, <1>15, <1>16,
     <1>17 DEF Next, Sync

\* At first there are no objects and no requests.
LEMMA GroundedInit == Init => Grounded
BY NoCallSound, Specs DEF Init, API!Init, API!NoObject, API!NoCall, Grounded, Sound, UnderWay,
                          API!Writing, NoDanglingObjects

\* No Route or DomainMapping ever exposes a Service that is not there
\* (ContainerSync!NoDanglingObjects), for any number of operators, containers,
\* domains, late requests and crashes.
THEOREM NothingDangles == Spec => []NoDanglingObjects
<1>1. TypeInv /\ Grounded /\ [Next]_vars => TypeInv' /\ Grounded'
  BY TypeStep, GroundedStep
<1>2. Grounded => NoDanglingObjects
  BY DEF Grounded
<1>3. QED
  BY <1>1, <1>2, TypeInit, GroundedInit, PTL DEF Spec

----------------------------------------------------------------------------
(* One operator pod at a time: a Service never goes back.  The snapshot of  *)
(* a running sync lies between what the cluster has and what Hydra wants,   *)
(* its own request asks for the snapshot, and a late request asks for less  *)
(* than that, but can then only create what is not there or update what has *)
(* not changed since it was read.                                           *)

LateBounds(c) ==
    \A r \in late : r.key = ServiceOf(c) =>
        /\ r.want \in Version /\ r.want <= desired[c].version
        /\ r.step = "update" /\ r.fresh => Applied(c) <= r.want

SnapBounds(o, c) ==
    stage[o] # "idle" =>
        /\ Applied(c) <= snap[o][c].version
        /\ snap[o][c].version <= desired[c].version
        /\ \A r \in late : r.key = ServiceOf(c) => r.want <= snap[o][c].version

CallBounds(o, c) ==
    UnderWay(call[o]) /\ call[o].key = ServiceOf(c) =>
        /\ stage[o] = "service"
        /\ call[o].want \in Version /\ call[o].want = snap[o][c].version

Bounds(o, c) ==
    /\ Applied(c) \in Nat /\ Applied(c) <= desired[c].version
    /\ LateBounds(c) /\ SnapBounds(o, c) /\ CallBounds(o, c)

Forward(o) == \A c \in Container : Bounds(o, c)

\* Versions are numbers, and None is not one of them.
LEMMA Versions ==
    ASSUME TypeInv, NEW c \in Container
    PROVE  /\ desired[c].version \in Nat
           /\ \A o \in Operator : snap[o][c].version \in Nat
           /\ Version \subseteq Nat /\ None \notin Version
           /\ Applied(c) = IF store[ServiceOf(c)].spec # None THEN store[ServiceOf(c)].spec ELSE 0
BY SyncAssumption DEF TypeInv, HydraTypes, SyncTypes, Entry, Version, Applied, Exists, API!Exists

\* A step of the API server moves a Service forward or not at all.
LEMMA ForwardCluster ==
    ASSUME NEW o \in Operator, Operator = {o}, TypeInv, Grounded, Forward(o), APIStep,
           UNCHANGED <<hydraVars, syncVars>>, NEW c \in Container
    PROVE  Bounds(o, c)' /\ Applied(c) <= Applied(c)'
<1> DEFINE k == ServiceOf(c)
<1>1. SpecsFollow /\ LateWerePending /\ CallGoesOn(o)
  BY APIEffect DEF TypeInv
<1>2. /\ Applied(c) \in Nat /\ Applied(c) <= desired[c].version
      /\ LateBounds(c) /\ SnapBounds(o, c) /\ CallBounds(o, c)
  BY DEF Forward, Bounds
<1>3. /\ k \in ObjectKey /\ k.kind = "Service"
      /\ \A r \in API!Pending : r = call[o] \/ r \in late
      /\ \A r \in late : r.step \in API!Writing
  BY Names DEF API!Pending, TypeInv, API!TypeOK
<1>4. /\ desired[c].version \in Nat /\ snap[o][c].version \in Nat
      /\ Version \subseteq Nat /\ None \notin Version
      /\ Applied(c) = IF store[k].spec # None THEN store[k].spec ELSE 0
  BY Versions
<1>5. Applied(c)' = IF store'[k].spec # None THEN store'[k].spec ELSE 0
  BY DEF Applied, Exists, API!Exists
<1>6. desired' = desired /\ snap' = snap /\ stage' = stage /\ cur' = cur
  BY DEF hydraVars, syncVars
<1>7. ASSUME NEW r \in API!Pending, r.key = k, Leaves(r, store'[k].spec)
      PROVE  /\ Applied(c)' = r.want /\ r.want \in Version
             /\ Applied(c) <= r.want /\ r.want <= desired[c].version
             /\ stage[o] # "idle" => r.want <= snap[o][c].version
  <2>1. UnderWay(r) /\ Sound(r, store) /\ API!Accepts(r) /\ r.step \in API!Writing
    BY <1>3, <1>7 DEF Leaves, UnderWay, Grounded
  <2>2. r.want # None /\ r.step \in {"create", "update"} /\ store'[k].spec = r.want
    BY <1>3, <1>7, <2>1 DEF Leaves, Sound, API!Writing
  <2>3. CASE r = call[o]
    BY <1>2, <1>4, <1>5, <1>7, <2>1, <2>2, <2>3 DEF CallBounds, SnapBounds
  <2>4. CASE r \in late
    <3>1. /\ r.want \in Version /\ r.want <= desired[c].version
          /\ r.step = "update" /\ r.fresh => Applied(c) <= r.want
          /\ stage[o] # "idle" => r.want <= snap[o][c].version
      BY <1>2, <1>7, <2>4 DEF LateBounds, SnapBounds
    <3>2. r.step = "create" => Applied(c) = 0
      BY <1>4, <1>7, <2>1 DEF API!Accepts, API!Exists
    <3>3. r.step = "update" => r.fresh
      BY <2>1 DEF API!Accepts
    <3>4. Applied(c)' = r.want
      BY <1>5, <2>2
    <3>5. Applied(c) <= r.want
      <4>1. r.want \in Nat
        BY <1>4, <3>1
      <4>2. QED
        BY <2>2, <3>1, <3>2, <3>3, <4>1
    <3>6. QED
      BY <3>1, <3>4, <3>5
  <2>5. QED
    BY <1>3, <2>3, <2>4
<1>8. /\ Applied(c)' \in Nat /\ Applied(c) <= Applied(c)' /\ Applied(c)' <= desired[c].version
      /\ stage[o] # "idle" => Applied(c)' <= snap[o][c].version
  <2>1. CASE store'[k].spec = store[k].spec
    BY <1>2, <1>4, <1>5, <2>1 DEF SnapBounds
  <2>2. CASE \E r \in API!Pending : r.key = k /\ Leaves(r, store'[k].spec)
    BY <1>4, <1>7, <2>2
  <2>3. QED
    BY <1>1, <1>3, <2>1, <2>2 DEF SpecsFollow
<1>9. ASSUME NEW q \in late', q.key = k
      PROVE  /\ q.want \in Version /\ q.want <= desired[c].version
             /\ q.step = "update" /\ q.fresh => Applied(c)' <= q.want
             /\ stage[o] # "idle" => q.want <= snap[o][c].version
  <2>1. PICK r \in API!Pending : Was(q, r)
    BY <1>1 DEF LateWerePending
  <2>2. CASE r = call[o]
    <3>1. UnderWay(r) /\ r.key = k
      BY <1>9, <2>1, <2>2 DEF Was, UnderWay
    <3>2. /\ stage[o] # "idle" /\ q.want \in Version /\ q.want = snap[o][c].version
          /\ snap[o][c].version <= desired[c].version
      BY <1>2, <2>1, <2>2, <3>1 DEF Was, CallBounds, SnapBounds
    <3>3. QED
      BY <1>4, <1>8, <3>2
  <2>3. CASE r \in late
    <3>1. /\ q.want \in Version /\ q.want <= desired[c].version
          /\ r.step = "update" /\ r.fresh => Applied(c) <= q.want
          /\ stage[o] # "idle" => q.want <= snap[o][c].version
      BY <1>2, <1>9, <2>1, <2>3 DEF Was, LateBounds, SnapBounds
    <3>2. q.step = "update" /\ q.fresh => r.step = "update" /\ r.fresh /\ Applied(c)' = Applied(c)
      BY <1>4, <1>5, <1>9, <2>1 DEF Was
    <3>3. QED
      BY <3>1, <3>2
  <2>4. QED
    BY <1>3, <2>2, <2>3
<1>10. CallBounds(o, c)'
  <2>1. UnderWay(call'[o]) => UnderWay(call[o])
    BY <1>1 DEF CallGoesOn, UnderWay, API!Writing
  <2>2. QED
    BY <1>1, <1>2, <1>6, <2>1 DEF CallBounds, CallGoesOn, UnderWay
<1>11. LateBounds(c)' /\ SnapBounds(o, c)'
  BY <1>2, <1>6, <1>8, <1>9 DEF LateBounds, SnapBounds
<1>12. QED
  BY <1>6, <1>8, <1>10, <1>11 DEF Bounds

\* A sync step of the operator keeps the bounds if its request asks for the
\* snapshot and leaves the rest alone.
LEMMA ForwardSync ==
    ASSUME NEW o \in Operator, Operator = {o}, TypeInv, Forward(o),
           UNCHANGED <<hydraVars, store, late, snap>>, stage[o] # "idle",
           NEW q, call' = [call EXCEPT ![o] = q],
           \A c \in Container : UnderWay(q) /\ q.key = ServiceOf(c) =>
               /\ stage'[o] = "service"
               /\ q.want \in Version /\ q.want = snap[o][c].version
    PROVE  Forward(o)'
<1>1. call'[o] = q
  BY DEF TypeInv, API!TypeOK
<1>2. ASSUME NEW c \in Container
      PROVE  Bounds(o, c)'
  <2>1. Applied(c)' = Applied(c)
    BY DEF Applied, Exists, API!Exists
  <2>2. desired' = desired
    BY DEF hydraVars
  <2>3. CallBounds(o, c)'
    BY <1>1 DEF CallBounds
  <2>4. Applied(c) \in Nat /\ Applied(c) <= desired[c].version /\ LateBounds(c) /\ SnapBounds(o, c)
    BY DEF Forward, Bounds
  <2>5. LateBounds(c)' /\ SnapBounds(o, c)'
    BY <2>1, <2>2, <2>4 DEF LateBounds, SnapBounds
  <2>6. QED
    BY <2>1, <2>2, <2>3, <2>4, <2>5 DEF Bounds
<1>3. QED
  BY <1>2 DEF Forward

\* Hydra's edits publish newer versions only.
LEMMA EditForward ==
    ASSUME TypeInv, Edit, NEW c \in Container
    PROVE  desired'[c].version \in Nat /\ desired[c].version <= desired'[c].version
<1>1. /\ desired \in [Container -> Entry]
      /\ \A d \in Container : desired[d] \in Entry /\ desired[d].version \in Nat
  BY DEF TypeInv, HydraTypes, Entry, Version
<1>2. ASSUME NEW d \in Container, Deploy(d)
      PROVE  desired'[c].version = desired[c].version \/ desired'[c].version = desired[c].version + 1
  BY <1>1, <1>2 DEF Deploy, EditWith, Entry
<1>3. ASSUME NEW d \in Container, Undeploy(d) \/ ToggleRoute(d)
      PROVE  desired'[c].version = desired[c].version
  BY <1>1, <1>3 DEF Undeploy, ToggleRoute, EditWith, Entry
<1>4. ASSUME NEW h \in Host, NEW d \in Container, AssignHost(h, d)
      PROVE  desired'[c].version = desired[c].version
  BY <1>1, <1>4 DEF AssignHost, EditWith, Entry
<1>5. QED
  BY <1>1, <1>2, <1>3, <1>4 DEF Edit

\* Every step keeps the bounds, and no Service goes back: one step per action.
LEMMA ForwardStep ==
    ASSUME NEW o \in Operator, Operator = {o}, TypeInv, Grounded, Forward(o), [Next]_vars
    PROVE  Forward(o)' /\ \A c \in Container : Applied(c) <= Applied(c)'
<1> USE DEF hydraVars, apiVars, syncVars
<1>1. UNCHANGED store => \A c \in Container : Applied(c)' = Applied(c) /\ Applied(c) <= Applied(c)'
  BY DEF Forward, Bounds, Applied, Exists, API!Exists
<1>2. ASSUME NEW c \in Container
      PROVE  /\ Applied(c) \in Nat /\ Applied(c) <= desired[c].version
             /\ LateBounds(c) /\ SnapBounds(o, c) /\ CallBounds(o, c)
             /\ desired[c].version \in Nat
  BY Versions DEF Forward, Bounds
<1>3. ASSUME NEW c \in Container, ServiceOf(c) = call[o].key, UnderWay(call[o])
      PROVE  stage[o] = "service"
  BY <1>2, <1>3 DEF CallBounds
<1>4. ~UnderWay(API!NoCall)
  BY DEF UnderWay, API!NoCall, API!Writing
<1>5. ASSUME NextContainer(o), stage[o] # "idle"
      PROVE  Forward(o)'
  BY <1>4, <1>5, ForwardSync DEF NextContainer
<1>6. CASE Edit
  <2>1. UNCHANGED <<apiVars, syncVars>>
    BY <1>6 DEF Edit, Deploy, Undeploy, ToggleRoute, AssignHost, EditWith
  <2>2. ASSUME NEW c \in Container
        PROVE  Bounds(o, c)'
    <3>1. desired'[c].version \in Nat /\ desired[c].version <= desired'[c].version
      BY <1>6, EditForward
    <3>2. Applied(c)' = Applied(c)
      BY <1>1, <2>1
    <3>3. /\ Applied(c) \in Nat /\ Applied(c) <= desired[c].version
          /\ desired[c].version \in Nat /\ snap[o][c].version \in Nat /\ Version \subseteq Nat
          /\ LateBounds(c) /\ SnapBounds(o, c) /\ CallBounds(o, c)
      BY <1>2, Versions
    <3>4. LateBounds(c)'
      <4>1. \A v \in Version : v <= desired[c].version => v <= desired'[c].version
        <5>1. \A v, m, n \in Nat : v <= m /\ m <= n => v <= n
          OBVIOUS
        <5>2. QED
          BY <3>1, <3>3, <5>1
      <4>2. QED
        BY <2>1, <3>2, <3>3, <4>1 DEF LateBounds
    <3>5. SnapBounds(o, c)'
      BY <2>1, <3>1, <3>2, <3>3 DEF SnapBounds
    <3>6. CallBounds(o, c)'
      BY <2>1, <3>3 DEF CallBounds
    <3>7. QED
      BY <3>1, <3>2, <3>3, <3>4, <3>5, <3>6 DEF Bounds
  <2>3. QED
    BY <1>1, <2>1, <2>2 DEF Forward
<1>7. CASE Cluster
  BY <1>7, ForwardCluster DEF Cluster, APIStep, Forward
<1>8. CASE Request(o)
  BY <1>8, ForwardCluster DEF Request, APIStep, Forward
<1>9. CASE Pull(o)
  <2>1. ASSUME NEW c \in Container
        PROVE  Bounds(o, c)'
    <3>1. /\ UNCHANGED <<desired, store, call, late>> /\ stage[o] = "idle"
          /\ snap'[o] = desired
      BY <1>9 DEF Pull, TypeInv, SyncTypes
    <3>2. Applied(c)' = Applied(c)
      BY <1>1, <3>1
    <3>3. LateBounds(c)' /\ SnapBounds(o, c)'
      BY <1>2, <3>1, <3>2 DEF LateBounds, SnapBounds
    <3>4. CallBounds(o, c)'
      BY <1>2, <3>1 DEF CallBounds
    <3>5. QED
      BY <1>2, <3>1, <3>2, <3>3, <3>4 DEF Bounds
  <2>2. QED
    BY <1>1, <1>9, <2>1 DEF Pull, Forward
<1>10. CASE StartContainer(o)
  <2>1. PICK c \in todo[o] : call' = [call EXCEPT ![o] = API!Begin(ServiceOf(c), snap[o][c].version)]
    BY <1>10 DEF StartContainer
  <2> DEFINE q == API!Begin(ServiceOf(c), snap[o][c].version)
  <2>2. c \in Container /\ snap[o][c].version \in Version
    BY DEF TypeInv, SyncTypes, Entry
  <2>3. q.key = ServiceOf(c) /\ q.want = snap[o][c].version
    BY <2>2, Names, BeginCall
  <2>4. \A d \in Container : ServiceOf(d) = ServiceOf(c) => d = c
    BY DEF ServiceOf
  <2>5. stage'[o] = "service" /\ stage[o] # "idle" /\ UNCHANGED <<hydraVars, store, late, snap>>
    BY <1>10 DEF StartContainer, TypeInv, SyncTypes
  <2> HIDE DEF q
  <2>6. Forward(o)'
    BY <2>1, <2>2, <2>3, <2>4, <2>5, ForwardSync DEF q
  <2>7. QED
    BY <1>1, <2>5, <2>6
<1>11. CASE ServiceFailed(o) \/ FinishContainer(o)
  BY <1>1, <1>5, <1>11 DEF ServiceFailed, FinishContainer, NextContainer
<1>12. CASE ServiceApplied(o)
  <2> DEFINE w == IF Mine(o).route THEN cur[o] ELSE None
             q == API!Begin(RouteOf(cur[o]), w)
  <2>1. cur[o] \in Container
    BY <1>12 DEF ServiceApplied, TypeInv, SyncTypes
  <2>2. q.key = RouteOf(cur[o]) /\ \A c \in Container : RouteOf(cur[o]) # ServiceOf(c)
    BY <2>1, Names, BeginCall
  <2>3. /\ call' = [call EXCEPT ![o] = q] /\ stage[o] # "idle"
        /\ UNCHANGED <<hydraVars, store, late, snap>>
    BY <1>12 DEF ServiceApplied
  <2> HIDE DEF q
  <2>4. Forward(o)'
    BY <2>2, <2>3, ForwardSync
  <2>5. QED
    BY <1>1, <2>3, <2>4
<1>13. CASE RouteDone(o)
  BY <1>1, <1>4, <1>13, ForwardSync DEF RouteDone
<1>14. CASE StartDomain(o)
  <2>1. PICK h \in hosts[o] : call' = [call EXCEPT ![o] = API!Begin(MappingOf(cur[o], h), cur[o])]
    BY <1>14 DEF StartDomain
  <2> DEFINE q == API!Begin(MappingOf(cur[o], h), cur[o])
  <2>2. cur[o] \in Container /\ h \in Host
    BY <1>14 DEF StartDomain, TypeInv, SyncTypes
  <2>3. q.key = MappingOf(cur[o], h) /\ \A c \in Container : MappingOf(cur[o], h) # ServiceOf(c)
    BY <2>2, Names, BeginCall
  <2>4. stage[o] # "idle" /\ UNCHANGED <<hydraVars, store, late, snap>>
    BY <1>14 DEF StartDomain
  <2> HIDE DEF q
  <2>5. Forward(o)'
    BY <2>1, <2>3, <2>4, ForwardSync DEF q
  <2>6. QED
    BY <1>1, <2>4, <2>5
<1>15. CASE DomainDone(o)
  BY <1>1, <1>4, <1>15, ForwardSync DEF DomainDone
<1>16. CASE FinishSync(o)
  <2>1. ASSUME NEW c \in Container
        PROVE  Bounds(o, c)'
    <3>1. /\ UNCHANGED <<desired, store, call, late>> /\ stage[o] = "loop" /\ stage'[o] = "idle"
      BY <1>16 DEF FinishSync, TypeInv, SyncTypes
    <3>2. Applied(c)' = Applied(c)
      BY <1>1, <3>1
    <3>3. LateBounds(c)' /\ SnapBounds(o, c)'
      BY <1>2, <3>1, <3>2 DEF LateBounds, SnapBounds
    <3>4. CallBounds(o, c)'
      BY <1>2, <3>1 DEF CallBounds
    <3>5. QED
      BY <1>2, <3>1, <3>2, <3>3, <3>4 DEF Bounds
  <2>2. QED
    BY <1>1, <1>16, <2>1 DEF FinishSync, Forward
<1>17. CASE Crash(o)
  <2>1. ASSUME NEW c \in Container
        PROVE  Bounds(o, c)'
    <3>1. /\ UNCHANGED <<desired, store>> /\ stage'[o] = "idle" /\ stage[o] # "idle"
          /\ call'[o] = API!NoCall
          /\ \A r \in late' : r \in late \/ (r = call[o] /\ UnderWay(r))
      BY <1>17 DEF Crash, TypeInv, SyncTypes, API!TypeOK, UnderWay
    <3>2. Applied(c)' = Applied(c)
      BY <1>1, <3>1
    <3>3. ASSUME NEW r \in late', r.key = ServiceOf(c)
          PROVE  /\ r.want \in Version /\ r.want <= desired[c].version
                 /\ r.step = "update" /\ r.fresh => Applied(c) <= r.want
      BY <1>2, <3>1, <3>3 DEF LateBounds, SnapBounds, CallBounds
    <3>4. LateBounds(c)' /\ SnapBounds(o, c)'
      BY <3>1, <3>2, <3>3 DEF LateBounds, SnapBounds
    <3>5. CallBounds(o, c)'
      BY <1>4, <3>1 DEF CallBounds
    <3>6. QED
      BY <1>2, <3>1, <3>2, <3>4, <3>5 DEF Bounds
  <2>2. QED
    BY <1>1, <1>17, <2>1 DEF Crash, Forward
<1>18. CASE UNCHANGED vars
  <2>1. Forward(o)'
    BY <1>18 DEF vars, Forward, Bounds, LateBounds, SnapBounds, CallBounds, Applied, Exists, API!Exists
  <2>2. QED
    BY <1>1, <1>18, <2>1 DEF vars
<1>19. QED
  BY <1>6, <1>7, <1>8, <1>9, <1>10, <1>11, <1>12, <1>13, <1>14, <1>15, <1>16, <1>17, <1>18
     DEF Next, Sync

\* Nothing is applied, pulled or under way in the initial states.
LEMMA ForwardInit ==
    ASSUME NEW o \in Operator, Init
    PROVE  Forward(o)
<1> SUFFICES ASSUME NEW c \in Container PROVE Bounds(o, c)
  BY DEF Forward
<1>1. Applied(c) = 0
  BY Names DEF Init, API!Init, API!NoObject, Applied, Exists, API!Exists
<1>2. desired[c].version \in Nat
  BY TypeInit, Versions
<1>3. late = {} /\ stage[o] = "idle" /\ call[o] = API!NoCall
  BY DEF Init, API!Init
<1>4. QED
  BY <1>1, <1>2, <1>3 DEF Bounds, LateBounds, SnapBounds, CallBounds, UnderWay, API!NoCall,
                          API!Writing

\* With one operator pod at a time no Service ever goes back to an older
\* version (ContainerSync!NeverRollsBack), whatever earlier syncs and killed
\* pods have left under way.
THEOREM ServicesNeverGoBack ==
    ASSUME NEW o \in Operator, Operator = {o}
    PROVE  Spec => NeverRollsBack
<1>1. Init => TypeInv /\ Grounded /\ Forward(o)
  BY TypeInit, GroundedInit, ForwardInit
<1>2. TypeInv /\ Grounded /\ Forward(o) /\ [Next]_vars => TypeInv' /\ Grounded' /\ Forward(o)'
  BY TypeStep, GroundedStep, ForwardStep
<1>3. TypeInv /\ Grounded /\ Forward(o) /\ [Next]_vars
        => [\A c \in Container : Applied(c) <= Applied(c)']_vars
  BY ForwardStep
<1>4. QED
  BY <1>1, <1>2, <1>3, PTL DEF Spec, NeverRollsBack

----------------------------------------------------------------------------
(* Refinement: with one operator pod at a time the safety half of           *)
(* PublishedState is implemented, step by step.                             *)

\* A step of the API server changes one object at most.
LEMMA OneObject ==
    ASSUME API!TypeOK, APIStep
    PROVE  \E k : \A j \in ObjectKey : j # k => store'[j] = store[j]
<1>1. UNCHANGED store => \E k : \A j \in ObjectKey : j # k => store'[j] = store[j]
  OBVIOUS
<1>2. ASSUME NEW k, NEW obj, NEW requests, API!Change(k, obj, requests)
      PROVE  \A j \in ObjectKey : j # k => store'[j] = store[j]
  BY <1>2 DEF API!Change, API!TypeOK
<1>3. CASE \E o \in Operator : API!Get(o) \/ API!Land(o) \/ API!Fail(o) \/ API!Abandon(o)
  BY <1>1, <1>2, <1>3 DEF API!Get, API!Land, API!Fail, API!Abandon
<1>4. CASE API!LateStep
  BY <1>1, <1>2, <1>4 DEF API!LateStep, API!LateLand, API!LateDrop
<1>5. CASE \E k \in ObjectKey : API!Observe(k)
  BY <1>2, <1>5 DEF API!Observe
<1>6. QED
  BY <1>3, <1>4, <1>5 DEF APIStep

\* The initial states are those of PublishedState.
LEMMA InitRefines == Init => Abstract!StateInit
<1> SUFFICES ASSUME Init PROVE Abstract!StateInit
  OBVIOUS
<1>1. \A c \in Container : Applied(c) = 0
  BY Names DEF Init, API!Init, API!NoObject, Applied, Exists, API!Exists
<1>2. \A c \in Container :
        desired[c].version \in {0, 1} /\ desired[c].live = (desired[c].version = 1)
  <2> SUFFICES ASSUME NEW c \in Container
               PROVE  desired[c].version \in {0, 1} /\ desired[c].live = (desired[c].version = 1)
    OBVIOUS
  <2>1. CASE c \in Deployed
    <3>1. desired[c].version = 1 /\ desired[c].live = TRUE
      BY <2>1 DEF Init, NoEntry
    <3>2. QED
      BY <3>1
  <2>2. CASE c \notin Deployed
    <3>1. desired[c].version = 0 /\ desired[c].live = FALSE
      BY <2>2 DEF Init, NoEntry
    <3>2. (desired[c].version = 1) = FALSE
      BY <3>1
    <3>3. QED
      BY <3>1, <3>2
  <2>3. QED
    BY <2>1, <2>2
<1>3. QED
  BY <1>1, <1>2 DEF Abstract!StateInit

\* Only an edit changes what is published or wanted.
LEMMA EditRefines == ASSUME TypeInv, Edit PROVE [Abstract!StateNext]_(Abstract!stateVars)
<1> DEFINE published == [c \in Container |-> desired[c].version]
           wanted == [c \in Container |-> desired[c].live]
           applied == [c \in Container |-> Applied(c)]
<1>1. /\ desired \in [Container -> Entry]
      /\ \A c \in Container : desired[c] \in Entry
  BY DEF TypeInv, HydraTypes
<1>2. applied' = applied
  BY DEF Edit, Deploy, Undeploy, ToggleRoute, AssignHost, EditWith, apiVars, Applied, Exists,
         API!Exists
<1>3. ASSUME NEW c \in Container, Deploy(c)
      PROVE  Abstract!StateNext
  <2>1. desired' = [desired EXCEPT ![c].live = TRUE, ![c].version = @ + 1]
    BY <1>3 DEF Deploy, EditWith
  <2>2. /\ desired'[c].version = desired[c].version + 1 /\ desired'[c].live = TRUE
        /\ \A d \in Container \ {c} : desired'[d] = desired[d]
    BY <1>1, <2>1 DEF Entry
  <2>3. /\ published' = [published EXCEPT ![c] = @ + 1]
        /\ wanted' = [wanted EXCEPT ![c] = TRUE]
    BY <2>2
  <2>4. Abstract!Publish(c)
    BY <1>2, <2>3 DEF Abstract!Publish
  <2>5. QED
    BY <2>4 DEF Abstract!StateNext
<1>4. ASSUME NEW c \in Container, Undeploy(c)
      PROVE  Abstract!StateNext
  <2>1. desired' = [desired EXCEPT ![c].live = FALSE, ![c].hosts = {}]
    BY <1>4 DEF Undeploy, EditWith
  <2>2. /\ desired'[c].version = desired[c].version /\ desired'[c].live = FALSE
        /\ \A d \in Container \ {c} : desired'[d] = desired[d]
    BY <1>1, <2>1 DEF Entry
  <2>3. published' = published /\ wanted' = [wanted EXCEPT ![c] = FALSE]
    BY <2>2
  <2>4. Abstract!Withdraw(c)
    BY <1>2, <2>3 DEF Abstract!Withdraw
  <2>5. QED
    BY <2>4 DEF Abstract!StateNext
<1>5. ASSUME \A d \in Container :
               desired'[d].version = desired[d].version /\ desired'[d].live = desired[d].live
      PROVE  UNCHANGED Abstract!stateVars
  <2>1. published' = published /\ wanted' = wanted
    BY <1>5
  <2>2. QED
    BY <1>2, <2>1 DEF Abstract!stateVars
<1>6. ASSUME NEW c \in Container, ToggleRoute(c)
      PROVE  UNCHANGED Abstract!stateVars
  BY <1>1, <1>5, <1>6 DEF ToggleRoute, EditWith, Entry
<1>7. ASSUME NEW h \in Host, NEW c \in Container, AssignHost(h, c)
      PROVE  UNCHANGED Abstract!stateVars
  BY <1>1, <1>5, <1>7 DEF AssignHost, EditWith, Entry
<1>8. QED
  BY <1>3, <1>4, <1>6, <1>7 DEF Edit

\* A step of the API server lets one Service catch up, or is not visible.
LEMMA ClusterRefines ==
    ASSUME NEW o \in Operator, Operator = {o}, TypeInv, Grounded, Forward(o), APIStep,
           UNCHANGED <<hydraVars, syncVars>>
    PROVE  [Abstract!StateNext]_(Abstract!stateVars)
<1> DEFINE published == [c \in Container |-> desired[c].version]
           wanted == [c \in Container |-> desired[c].live]
           applied == [c \in Container |-> Applied(c)]
<1>1. PICK k : \A j \in ObjectKey : j # k => store'[j] = store[j]
  BY OneObject DEF TypeInv
<1>2. published' = published /\ wanted' = wanted
  BY DEF hydraVars
<1>3. \A c \in Container : ServiceOf(c) # k => Applied(c)' = Applied(c)
  BY <1>1, Names DEF Applied, Exists, API!Exists
<1>4. \A c, d \in Container : ServiceOf(c) = ServiceOf(d) => c = d
  BY DEF ServiceOf
<1>5. ASSUME NEW c \in Container
      PROVE  /\ Applied(c) \in Nat /\ Applied(c)' \in Nat /\ desired[c].version \in Nat
             /\ Applied(c) <= Applied(c)' /\ Applied(c)' <= desired[c].version
  <2>1. Bounds(o, c)' /\ Applied(c) <= Applied(c)'
    BY ForwardCluster
  <2>2. QED
    BY <2>1, Versions DEF Forward, Bounds, hydraVars
<1>6. CASE \E c \in Container : ServiceOf(c) = k /\ Applied(c)' # Applied(c)
  <2>1. PICK c \in Container : ServiceOf(c) = k /\ Applied(c)' # Applied(c)
    BY <1>6
  <2>2. applied' = [applied EXCEPT ![c] = Applied(c)']
    BY <1>3, <1>4, <2>1
  <2>3. Applied(c)' \in (applied[c] + 1)..published[c]
    BY <1>5, <2>1
  <2>4. Abstract!Advance(c)
    BY <1>2, <2>2, <2>3 DEF Abstract!Advance
  <2>5. QED
    BY <2>4 DEF Abstract!StateNext
<1>7. CASE \A c \in Container : Applied(c)' = Applied(c)
  BY <1>2, <1>7 DEF Abstract!stateVars
<1>8. QED
  BY <1>3, <1>6, <1>7

\* With one operator pod at a time ContainerSync implements the safety half of
\* PublishedState (the promise of manager.go:85-87): the cluster's Services
\* only ever go forward, to versions that Hydra has published.
THEOREM ImplementsPublishedState ==
    ASSUME NEW o \in Operator, Operator = {o}
    PROVE  Spec => Abstract!StateSafety
<1>1. Init => TypeInv /\ Grounded /\ Forward(o)
  BY TypeInit, GroundedInit, ForwardInit
<1>2. TypeInv /\ Grounded /\ Forward(o) /\ [Next]_vars => TypeInv' /\ Grounded' /\ Forward(o)'
  BY TypeStep, GroundedStep, ForwardStep
<1>3. Init => Abstract!StateInit
  BY InitRefines
<1>4. TypeInv /\ Grounded /\ Forward(o) /\ [Next]_vars
        => [Abstract!StateNext]_(Abstract!stateVars)
  <2> SUFFICES ASSUME TypeInv, Grounded, Forward(o), [Next]_vars
               PROVE  [Abstract!StateNext]_(Abstract!stateVars)
    OBVIOUS
  <2>1. UNCHANGED <<desired, store>> => UNCHANGED Abstract!stateVars
    BY DEF Abstract!stateVars, Applied, Exists, API!Exists
  <2>2. CASE Edit
    BY <2>2, EditRefines
  <2>3. CASE Cluster \/ Request(o)
    BY <2>3, ClusterRefines DEF Cluster, Request, APIStep
  <2>4. CASE UNCHANGED vars
    BY <2>1, <2>4 DEF vars, hydraVars, apiVars
  <2>5. CASE (Sync(o) /\ ~Request(o)) \/ Crash(o)
    BY <2>1, <2>5 DEF Sync, Crash, Pull, StartContainer, ServiceFailed, ServiceApplied, RouteDone,
       StartDomain, DomainDone, FinishContainer, FinishSync, NextContainer, hydraVars, apiVars
  <2>6. QED
    BY <2>2, <2>3, <2>4, <2>5 DEF Next
<1>5. QED
  BY <1>1, <1>2, <1>3, <1>4, PTL DEF Spec, Abstract!StateSafety

=============================================================================
