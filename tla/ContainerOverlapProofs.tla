----------------------- MODULE ContainerOverlapProofs -----------------------
(***************************************************************************)
(* More proofs about ContainerSync: what still holds when a rolling update *)
(* lets any number of operator pods sync at once, each of them with its    *)
(* own snapshot of the desired state, next to the requests that earlier    *)
(* syncs and killed pods have left under way.                              *)
(***************************************************************************)
EXTENDS ContainerSyncProofs

----------------------------------------------------------------------------
(* No lost updates.  The lemmas are those of ApplyObjectProofs, for the     *)
(* objects and the specs of this component.                                 *)

Matches(r, s) == r.step = "update" /\ r.fresh => s[r.key] = r.got

Fresh == (\A o \in Operator : Matches(call[o], store)) /\ (\A r \in late : Matches(r, store))

\* Whatever object changes, what stays fresh is unchanged.
LEMMA FreshStays ==
    ASSUME API!TypeOK, NEW r \in API!Call, r.step # "none" => r.key \in ObjectKey,
           Matches(r, store), NEW k \in ObjectKey, NEW obj, store' = [store EXCEPT ![k] = obj]
    PROVE  Matches(API!Outdated(r, k, obj), store')
<1> DEFINE q == API!Outdated(r, k, obj)
<1>1. /\ q.step = r.step /\ q.key = r.key /\ q.got = r.got
      /\ q.fresh <=> r.fresh /\ (r.key = k => obj = store[k])
  BY OutdatedType
<1>2. ASSUME q.step = "update", q.fresh
      PROVE  store'[q.key] = q.got
  BY <1>1, <1>2 DEF Matches, API!TypeOK
<1>3. QED
  BY <1>2 DEF Matches

\* A change of one object keeps every request that stays fresh unchanged.
LEMMA ChangeFresh ==
    ASSUME API!TypeOK, Fresh, NEW k \in ObjectKey, NEW obj, NEW requests \in SUBSET late,
           API!Change(k, obj, requests)
    PROVE  /\ \A r \in late' : Matches(r, store')
           /\ \A o \in Operator : Matches(API!Outdated(call[o], k, obj), store')
<1>1. store' = [store EXCEPT ![k] = obj]
  BY DEF API!Change
<1>2. \A r \in requests : Matches(API!Outdated(r, k, obj), store')
  BY <1>1, FreshStays DEF API!TypeOK, Fresh
<1>3. \A o \in Operator : Matches(API!Outdated(call[o], k, obj), store')
  BY <1>1, FreshStays DEF API!TypeOK, Fresh
<1>4. QED
  BY <1>2, <1>3 DEF API!Change

\* So does every change that is made behind the operators' backs.
LEMMA FreshChange ==
    ASSUME API!TypeOK, Fresh, NEW k \in ObjectKey, NEW obj, NEW requests \in SUBSET late,
           API!Change(k, obj, requests),
           call' = [p \in Operator |-> API!Outdated(call[p], k, obj)]
    PROVE  Fresh'
<1>1. /\ \A r \in late' : Matches(r, store')
      /\ \A p \in Operator : Matches(call'[p], store')
  BY ChangeFresh
<1>2. QED
  BY <1>1 DEF Fresh, Matches

\* So does a step that only replaces the call of one operator, and leaves
\* behind what was pending.
LEMMA FreshCall ==
    ASSUME API!TypeOK, Fresh, NEW o \in Operator, NEW c, Matches(c, store),
           call' = [call EXCEPT ![o] = c], UNCHANGED store, late' \subseteq API!Pending
    PROVE  Fresh'
<1>1. \A p \in Operator : Matches(call'[p], store')
  BY DEF Fresh, API!TypeOK
<1>2. \A r \in late' : Matches(r, store')
  BY DEF Fresh, API!Pending
<1>3. QED
  BY <1>1, <1>2 DEF Fresh, Matches

\* The API server's steps keep what is fresh unchanged.
LEMMA FreshAPI == ASSUME API!TypeOK, Fresh, APIStep PROVE Fresh'
<1>0. \A o \in Operator : call[o] \in API!Call
  BY DEF API!TypeOK
<1>1. ASSUME NEW o \in Operator, API!Get(o)
      PROVE  Fresh'
  <2> DEFINE r == [call[o] EXCEPT !.step = "update", !.fresh = TRUE,
                                  !.got = store[call[o].key]]
             q == [call[o] EXCEPT !.step = "create"]
  <2>1. Matches(r, store) /\ Matches(q, store)
    BY <1>0 DEF Matches, API!Call
  <2>2. UNCHANGED store /\ late' \subseteq API!Pending
    BY <1>1 DEF API!Get, API!Pending
  <2>3. call' = [call EXCEPT ![o] = r] \/ call' = [call EXCEPT ![o] = q]
    BY <1>1 DEF API!Get
  <2>4. QED
    BY <2>1, <2>2, <2>3, FreshCall
<1>2. ASSUME NEW o \in Operator, API!Land(o)
      PROVE  Fresh'
  <2> DEFINE r == call[o]
             obj == API!Written(r)
  <2>1. r \in API!Call /\ r.key \in ObjectKey
    BY <1>2 DEF API!Land, API!TypeOK, API!Writing
  <2>2. API!Change(r.key, obj, late)
    BY <1>2 DEF API!Land
  <2>3. /\ \A q \in late' : Matches(q, store')
        /\ \A p \in Operator : Matches(API!Outdated(call[p], r.key, obj), store')
    BY <2>1, <2>2, ChangeFresh
  <2>4. ASSUME NEW p \in Operator
        PROVE  Matches(call'[p], store')
    <3>1. CASE p = o
      BY <1>2, <2>1, <3>1 DEF API!Land, Matches, API!Call
    <3>2. CASE p # o
      <4>1. call'[p] = API!Outdated(call[p], r.key, obj)
        BY <1>2, <3>2 DEF API!Land
      <4>2. QED
        BY <2>3, <4>1
    <3>3. QED
      BY <3>1, <3>2
  <2>5. QED
    BY <2>3, <2>4 DEF Fresh, Matches
<1>3. ASSUME NEW o \in Operator, API!GiveUp(o), UNCHANGED store, late' \subseteq API!Pending
      PROVE  Fresh'
  <2> DEFINE q == [call[o] EXCEPT !.step = "failed", !.fresh = FALSE, !.got = API!NoObject]
  <2>1. Matches(q, store)
    BY <1>0 DEF Matches, API!Call
  <2>2. QED
    BY <1>3, <2>1, FreshCall DEF API!GiveUp
<1>4. ASSUME NEW o \in Operator, API!Fail(o) \/ API!Abandon(o)
      PROVE  Fresh'
  BY <1>3, <1>4 DEF API!Fail, API!Abandon, API!Pending
<1>5. ASSUME NEW r \in late, API!LateLand(r)
      PROVE  Fresh'
  BY <1>5, FreshChange DEF API!LateLand, API!TypeOK
<1>6. ASSUME NEW r \in late, API!LateDrop(r)
      PROVE  Fresh'
  BY <1>6 DEF API!LateDrop, Fresh, Matches
<1>7. ASSUME NEW k \in ObjectKey, API!Observe(k)
      PROVE  Fresh'
  BY <1>7, FreshChange DEF API!Observe
<1>8. QED
  BY <1>1, <1>2, <1>4, <1>5, <1>6, <1>7 DEF APIStep, API!LateStep

----------------------------------------------------------------------------
(* What the other steps do to the requests: the sync begins a call for the  *)
(* next object, or gives its call up; a killed pod leaves its call behind.  *)

\* A call that the sync of operator o may begin now.
Begins(o, k, w) ==
    \/ /\ stage[o] = "loop" /\ stage'[o] = "service"
       /\ \E c \in todo[o] : k = ServiceOf(c) /\ w = snap[o][c].version
    \/ /\ stage[o] = "service" /\ stage'[o] = "route" /\ k = RouteOf(cur[o])
       /\ w = IF Mine(o).route THEN cur[o] ELSE None
    \/ /\ stage[o] = "domains" /\ stage'[o] = "domains" /\ w = cur[o]
       /\ \E h \in hosts[o] : k = MappingOf(cur[o], h)

\* The steps of operator o that are not requests.
OwnStep(o) == (Sync(o) /\ ~Request(o)) \/ Crash(o)

\* Such a step leaves the objects alone; it begins a call, drops its call or
\* does not touch it; and it leaves behind what was pending.
LEMMA OwnEffect ==
    ASSUME NEW o \in Operator, TypeInv, OwnStep(o)
    PROVE  /\ UNCHANGED <<hydraVars, store>>
           /\ late' \subseteq API!Pending /\ \A r \in late' \ late : r.step \in API!Writing
           /\ \/ UNCHANGED call
              \/ call' = [call EXCEPT ![o] = API!NoCall]
              \/ \E k \in ObjectKey, w \in Version \cup Container \cup {None} :
                   Begins(o, k, w) /\ call' = [call EXCEPT ![o] = API!Begin(k, w)]
<1>0. SyncTypes
  BY DEF TypeInv
<1>1. CASE StartContainer(o)
  <2>1. PICK c \in todo[o] : call' = [call EXCEPT ![o] = API!Begin(ServiceOf(c), snap[o][c].version)]
    BY <1>1 DEF StartContainer
  <2>2. c \in Container /\ snap[o][c].version \in Version
    BY <1>0 DEF SyncTypes, Entry
  <2>3. Begins(o, ServiceOf(c), snap[o][c].version)
    BY <1>0, <1>1 DEF StartContainer, SyncTypes, Begins
  <2>4. QED
    BY <1>1, <2>1, <2>2, <2>3, Names DEF StartContainer, API!Pending
<1>2. CASE ServiceApplied(o)
  <2> DEFINE w == IF Mine(o).route THEN cur[o] ELSE None
  <2>1. cur[o] \in Container
    BY <1>0, <1>2 DEF ServiceApplied, SyncTypes
  <2>2. Begins(o, RouteOf(cur[o]), w)
    BY <1>0, <1>2 DEF ServiceApplied, SyncTypes, Begins
  <2>3. call' = [call EXCEPT ![o] = API!Begin(RouteOf(cur[o]), w)]
    BY <1>2 DEF ServiceApplied
  <2>4. RouteOf(cur[o]) \in ObjectKey /\ w \in Version \cup Container \cup {None}
    BY <2>1, Names
  <2>5. QED
    BY <1>2, <2>2, <2>3, <2>4 DEF ServiceApplied, API!Pending
<1>3. CASE StartDomain(o)
  <2>1. PICK h \in hosts[o] : call' = [call EXCEPT ![o] = API!Begin(MappingOf(cur[o], h), cur[o])]
    BY <1>3 DEF StartDomain
  <2>2. cur[o] \in Container /\ h \in Host
    BY <1>0, <1>3 DEF StartDomain, SyncTypes
  <2>3. Begins(o, MappingOf(cur[o], h), cur[o])
    BY <1>0, <1>3 DEF StartDomain, SyncTypes, Begins
  <2>4. QED
    BY <1>3, <2>1, <2>2, <2>3, Names DEF StartDomain, API!Pending
<1>4. CASE ServiceFailed(o) \/ FinishContainer(o) \/ RouteDone(o) \/ DomainDone(o)
  BY <1>4 DEF ServiceFailed, FinishContainer, NextContainer, RouteDone, DomainDone, API!Pending
<1>5. CASE Pull(o) \/ FinishSync(o)
  BY <1>5 DEF Pull, FinishSync, apiVars, API!Pending
<1>6. CASE Crash(o)
  BY <1>6 DEF Crash, API!Pending
<1>7. QED
  BY <1>1, <1>2, <1>3, <1>4, <1>5, <1>6 DEF OwnStep, Sync

\* Every step is an edit, one of the API server's steps, or an operator's own.
LEMMA StepKinds ==
    ASSUME [Next]_vars
    PROVE  \/ Edit
           \/ APIStep /\ UNCHANGED <<hydraVars, syncVars>>
           \/ \E o \in Operator : OwnStep(o)
           \/ UNCHANGED vars
BY DEF Next, Cluster, Request, APIStep, OwnStep

\* Whatever pods sync at once, and whatever they have left under way: no
\* update that the API server executes meets an object other than the one its
\* operator read (ContainerSync!NoLostUpdate).
THEOREM SyncLosesNoUpdate == Spec => []NoLostUpdate
<1>1. Init => Fresh
  BY DEF Init, API!Init, Fresh, Matches, API!NoCall
<1>2. TypeInv /\ Fresh /\ [Next]_vars => Fresh'
  <2> SUFFICES ASSUME TypeInv, Fresh, [Next]_vars
               PROVE  Fresh'
    OBVIOUS
  <2>1. API!TypeOK
    BY DEF TypeInv
  <2>2. UNCHANGED apiVars => Fresh'
    BY DEF apiVars, Fresh, Matches
  <2>3. CASE Edit
    BY <2>2, <2>3 DEF Edit, Deploy, Undeploy, ToggleRoute, AssignHost, EditWith
  <2>4. CASE APIStep
    BY <2>1, <2>4, FreshAPI
  <2>5. ASSUME NEW o \in Operator, OwnStep(o)
        PROVE  Fresh'
    <3>1. Matches(API!NoCall, store) /\ \A k, w : Matches(API!Begin(k, w), store)
      BY DEF Matches, API!NoCall, API!Begin
    <3>2. UNCHANGED store /\ late' \subseteq API!Pending
      BY <2>5, OwnEffect
    <3>3. CASE UNCHANGED call
      BY <3>2, <3>3 DEF Fresh, Matches, API!Pending
    <3>4. ASSUME NEW c, Matches(c, store), call' = [call EXCEPT ![o] = c]
          PROVE  Fresh'
      BY <2>1, <3>2, <3>4, FreshCall
    <3>5. QED
      BY <2>5, <3>1, <3>3, <3>4, OwnEffect
  <2>6. QED
    BY <2>2, <2>3, <2>4, <2>5, StepKinds DEF vars
<1>3. Fresh => NoLostUpdate
  BY DEF Fresh, Matches, NoLostUpdate, API!NoLostUpdate, API!Pending, API!Accepts
<1>4. QED
  BY <1>1, <1>2, <1>3, TypeInit, TypeStep, PTL DEF Spec

----------------------------------------------------------------------------
(* Refinement for any number of pods: what is applied was published.  With  *)
(* overlapping syncs a Service may go back, so the bounds that one pod      *)
(* keeps do not hold; but no snapshot, no request and no Service is ahead   *)
(* of the versions that Hydra has published.                                *)

Published ==
    /\ \A c \in Container : Applied(c) \in 0..desired[c].version
    /\ \A o \in Operator, c \in Container : snap[o][c].version <= desired[c].version
    /\ \A r \in API!Pending, c \in Container :
         UnderWay(r) /\ r.key = ServiceOf(c) => r.want \in 1..desired[c].version

\* What is under way after a step of the API server was under way before.
LEMMA UnderWayBefore ==
    ASSUME API!TypeOK, APIStep, NEW r \in API!Pending', UnderWay(r)
    PROVE  \E q \in API!Pending : UnderWay(q) /\ q.key = r.key /\ q.want = r.want
<1>1. LateWerePending /\ \A o \in Operator : CallGoesOn(o)
  BY APIEffect
<1>2. ASSUME NEW o \in Operator, r = call'[o]
      PROVE  UnderWay(call[o]) /\ call[o].key = r.key /\ call[o].want = r.want
  BY <1>1, <1>2 DEF CallGoesOn, UnderWay, API!Writing, Leaves
<1>3. ASSUME r \in late'
      PROVE  \E q \in API!Pending : UnderWay(q) /\ q.key = r.key /\ q.want = r.want
  BY <1>1, <1>3 DEF LateWerePending, Was, UnderWay
<1>4. QED
  BY <1>2, <1>3 DEF API!Pending

\* No sync reads, and no edit leaves, a snapshot that is ahead.
LEMMA PublishedSnap ==
    ASSUME TypeInv, Published, [Next]_vars, NEW o \in Operator, NEW c \in Container
    PROVE  snap'[o][c].version <= desired'[c].version
<1>1. /\ snap[o][c].version <= desired[c].version
      /\ snap[o][c].version \in Nat /\ desired[c].version \in Nat
  BY Versions DEF Published
<1>2. desired[c].version <= desired'[c].version /\ desired'[c].version \in Nat
  <2>1. CASE Edit
    BY <2>1, EditForward
  <2>2. CASE UNCHANGED desired
    BY <1>1, <2>2
  <2>3. QED
    BY <2>1, <2>2, StepKinds, OwnEffect DEF hydraVars, vars
<1>3. snap'[o] = snap[o] \/ snap'[o] = desired \/ snap'[o] = NothingDesired
  <2>1. snap \in [Operator -> [Container -> Entry]]
    BY DEF TypeInv, SyncTypes
  <2>2. CASE Edit
    BY <2>2 DEF Edit, Deploy, Undeploy, ToggleRoute, AssignHost, EditWith, syncVars
  <2>3. ASSUME NEW p \in Operator, OwnStep(p)
        PROVE  snap'[o] = snap[o] \/ snap'[o] = desired \/ snap'[o] = NothingDesired
    BY <2>1, <2>3 DEF OwnStep, Sync, Crash, Pull, StartContainer, ServiceFailed, ServiceApplied,
       RouteDone, StartDomain, DomainDone, FinishContainer, FinishSync, NextContainer, syncVars
  <2>4. QED
    BY <2>2, <2>3, StepKinds DEF syncVars, vars
<1>4. NothingDesired[c].version = 0
  BY DEF NothingDesired, NoEntry
<1>5. QED
  BY <1>1, <1>2, <1>3, <1>4

\* A step of the API server applies nothing that was not published, and
\* removes no Service.
LEMMA PublishedAPI ==
    ASSUME TypeInv, Grounded, Published, APIStep, UNCHANGED desired, NEW c \in Container
    PROVE  /\ Applied(c)' = Applied(c) \/ Applied(c)' \in 1..desired[c].version
           /\ \A r \in API!Pending' :
                UnderWay(r) /\ r.key = ServiceOf(c) => r.want \in 1..desired[c].version
<1>1. SpecsFollow /\ LateWerePending /\ \A o \in Operator : CallGoesOn(o)
  BY APIEffect DEF TypeInv
<1>2. ServiceOf(c) \in ObjectKey
  BY Names
<1>3. /\ desired[c].version \in Nat /\ None \notin Nat
      /\ Applied(c) = IF store[ServiceOf(c)].spec # None THEN store[ServiceOf(c)].spec ELSE 0
  BY Versions, SyncAssumption
<1>4. \A r \in API!Pending : Sound(r, store)
  BY DEF Grounded, API!Pending
<1>5. Applied(c)' = Applied(c) \/ Applied(c)' \in 1..desired[c].version
  <2>1. CASE store'[ServiceOf(c)].spec = store[ServiceOf(c)].spec
    BY <2>1 DEF Applied, Exists, API!Exists
  <2>2. CASE store'[ServiceOf(c)].spec # store[ServiceOf(c)].spec
    <3>1. PICK r \in API!Pending : r.key = ServiceOf(c) /\ Leaves(r, store'[ServiceOf(c)].spec)
      BY <1>1, <1>2, <2>2 DEF SpecsFollow
    <3>2. UnderWay(r) /\ r.want \in 1..desired[c].version
      BY <3>1 DEF Published, UnderWay, Leaves
    <3>3. r.want \in Nat /\ r.want # None
      BY <1>3, <3>2
    <3>4. store'[ServiceOf(c)].spec = r.want
      BY <1>4, <3>1, <3>2, <3>3 DEF Leaves, Sound
    <3>5. Applied(c)' = r.want
      BY <3>3, <3>4 DEF Applied, Exists, API!Exists
    <3>6. QED
      BY <3>2, <3>5
  <2>3. QED
    BY <2>1, <2>2
<1>6. ASSUME NEW r \in API!Pending', UnderWay(r), r.key = ServiceOf(c)
      PROVE  r.want \in 1..desired[c].version
  BY <1>6, UnderWayBefore DEF Published, TypeInv
<1>7. QED
  BY <1>5, <1>6

\* What an operator's own step begins was published.
LEMMA PublishedOwn ==
    ASSUME TypeInv, Published, NEW o \in Operator, OwnStep(o), NEW c \in Container,
           NEW r \in API!Pending', UnderWay(r), r.key = ServiceOf(c)
    PROVE  r.want \in 1..desired[c].version
<1>1. CASE r \in API!Pending
  BY <1>1 DEF Published
<1>2. r \in API!Pending \/ r = call'[o]
  BY OwnEffect DEF API!Pending, TypeInv, API!TypeOK
<1>3. ASSUME NEW k \in ObjectKey, NEW w \in Version \cup Container \cup {None},
             Begins(o, k, w), r = API!Begin(k, w)
      PROVE  r.want \in 1..desired[c].version
  <2>1. k = ServiceOf(c) /\ w = r.want
    BY <1>3, BeginCall
  <2>2. \A d \in Container : ServiceOf(d) = ServiceOf(c) => d = c
    BY DEF ServiceOf
  <2>3. SyncTypes
    BY DEF TypeInv
  <2>4. PICK d \in todo[o] : k = ServiceOf(d) /\ w = snap[o][d].version
    <3>1. stage[o] \in {"service", "route", "domains"} => cur[o] \in Container
      BY <2>3 DEF SyncTypes
    <3>2. hosts[o] \subseteq Host /\ ServiceOf(c).kind = "Service"
      BY <2>3, Names DEF SyncTypes
    <3>3. CASE stage[o] = "service" /\ k = RouteOf(cur[o])
      BY <2>1, <3>1, <3>2, <3>3, Names
    <3>4. CASE stage[o] = "domains" /\ \E h \in hosts[o] : k = MappingOf(cur[o], h)
      BY <2>1, <3>1, <3>2, <3>4, Names
    <3>5. QED
      BY <1>3, <3>3, <3>4 DEF Begins
  <2>5. d = c /\ snap[o][c].version # 0
    BY <2>1, <2>2, <2>3, <2>4 DEF SyncTypes
  <2>6. snap[o][c].version \in Nat /\ desired[c].version \in Nat
    BY Versions
  <2>7. QED
    BY <2>1, <2>4, <2>5, <2>6 DEF Published
<1>4. CASE r = call'[o] /\ call' = [call EXCEPT ![o] = API!NoCall]
  BY <1>4, NoCallType DEF UnderWay, API!Writing, TypeInv, API!TypeOK
<1>5. CASE UNCHANGED call /\ r = call'[o]
  BY <1>1, <1>5 DEF API!Pending
<1>6. QED
  BY <1>1, <1>2, <1>3, <1>4, <1>5, OwnEffect DEF TypeInv, API!TypeOK

\* Every step keeps what is applied, read and asked for published.
LEMMA PublishedStep ==
    ASSUME TypeInv, Grounded, Published, [Next]_vars
    PROVE  Published'
<1>1. \A o \in Operator, c \in Container : snap'[o][c].version <= desired'[c].version
  BY PublishedSnap
<1>2. ASSUME NEW c \in Container
      PROVE  /\ Applied(c)' \in 0..desired'[c].version
             /\ \A r \in API!Pending' :
                  UnderWay(r) /\ r.key = ServiceOf(c) => r.want \in 1..desired'[c].version
  <2>1. Applied(c) \in 0..desired[c].version /\ desired[c].version \in Nat
    BY Versions DEF Published
  <2>2. \A r \in API!Pending : UnderWay(r) /\ r.key = ServiceOf(c) => r.want \in 1..desired[c].version
    BY DEF Published
  <2>3. UNCHANGED store => Applied(c)' = Applied(c)
    BY DEF Applied, Exists, API!Exists
  <2>4. UNCHANGED <<call, late>> => API!Pending' = API!Pending
    BY DEF API!Pending
  <2>5. CASE Edit
    <3>1. desired[c].version <= desired'[c].version /\ desired'[c].version \in Nat
      BY <2>5, EditForward
    <3>2. UNCHANGED <<store, call, late>>
      BY <2>5 DEF Edit, Deploy, Undeploy, ToggleRoute, AssignHost, EditWith, apiVars
    <3>3. QED
      BY <2>1, <2>2, <2>3, <2>4, <3>1, <3>2
  <2>6. CASE APIStep /\ UNCHANGED <<hydraVars, syncVars>>
    BY <2>1, <2>6, PublishedAPI DEF hydraVars
  <2>7. ASSUME NEW o \in Operator, OwnStep(o)
        PROVE  /\ Applied(c)' \in 0..desired'[c].version
               /\ \A r \in API!Pending' :
                    UnderWay(r) /\ r.key = ServiceOf(c) => r.want \in 1..desired'[c].version
    BY <2>1, <2>3, <2>7, OwnEffect, PublishedOwn DEF hydraVars
  <2>8. CASE UNCHANGED vars
    BY <2>1, <2>2, <2>3, <2>4, <2>8 DEF vars, hydraVars, apiVars
  <2>9. QED
    BY <2>5, <2>6, <2>7, <2>8, StepKinds
<1>3. QED
  BY <1>1, <1>2 DEF Published

\* Nothing is ahead in the initial states.
LEMMA PublishedInit == Init => Published
<1> SUFFICES ASSUME Init PROVE Published
  OBVIOUS
<1>1. \A c \in Container : Applied(c) = 0
  BY Names DEF Init, API!Init, API!NoObject, Applied, Exists, API!Exists
<1>2. \A c \in Container : desired[c].version \in Nat
  BY TypeInit, Versions
<1>3. \A o \in Operator, c \in Container : snap[o][c].version = 0
  BY DEF Init, NothingDesired, NoEntry
<1>4. \A r \in API!Pending : ~UnderWay(r)
  BY DEF Init, API!Init, API!Pending, API!NoCall, UnderWay, API!Writing
<1>5. QED
  BY <1>1, <1>2, <1>3, <1>4 DEF Published

\* A step of the API server replaces the version of one Service by a published
\* one, or is not visible.
LEMMA OverlapAPI ==
    ASSUME TypeInv, Grounded, Published, APIStep, UNCHANGED hydraVars
    PROVE  [Abstract!OverlapNext]_(Abstract!stateVars)
<1> DEFINE published == [c \in Container |-> desired[c].version]
           wanted == [c \in Container |-> desired[c].live]
           applied == [c \in Container |-> Applied(c)]
<1>1. PICK k : \A j \in ObjectKey : j # k => store'[j] = store[j]
  BY OneObject DEF TypeInv
<1>2. published' = published /\ wanted' = wanted
  BY DEF hydraVars
<1>3. \A c \in Container : ServiceOf(c) # k => Applied(c)' = Applied(c)
  BY <1>1, Names DEF Applied, Exists, API!Exists
<1>4. \A c, d \in Container : ServiceOf(c) = ServiceOf(d) => c = d
  BY DEF ServiceOf
<1>5. CASE \E c \in Container : ServiceOf(c) = k /\ Applied(c)' # Applied(c)
  <2>1. PICK c \in Container : ServiceOf(c) = k /\ Applied(c)' # Applied(c)
    BY <1>5
  <2>2. applied' = [applied EXCEPT ![c] = Applied(c)']
    BY <1>3, <1>4, <2>1
  <2>3. Applied(c)' \in 1..published[c]
    BY <2>1, PublishedAPI DEF hydraVars
  <2>4. Abstract!Replace(c)
    BY <1>2, <2>2, <2>3 DEF Abstract!Replace
  <2>5. QED
    BY <2>4 DEF Abstract!OverlapNext
<1>6. CASE \A c \in Container : Applied(c)' = Applied(c)
  BY <1>2, <1>6 DEF Abstract!stateVars
<1>7. QED
  BY <1>3, <1>5, <1>6

\* With any number of operator pods ContainerSync implements the overlap half
\* of PublishedState (ContainerSync!AppliesPublished): only published versions
\* are applied, and no Service is ever removed.
THEOREM OverlapAppliesPublished == Spec => AppliesPublished
<1>1. Init => TypeInv /\ Grounded /\ Published
  BY TypeInit, GroundedInit, PublishedInit
<1>2. TypeInv /\ Grounded /\ Published /\ [Next]_vars => TypeInv' /\ Grounded' /\ Published'
  BY TypeStep, GroundedStep, PublishedStep
<1>3. TypeInv /\ Grounded /\ Published /\ [Next]_vars
        => [Abstract!OverlapNext]_(Abstract!stateVars)
  <2> SUFFICES ASSUME TypeInv, Grounded, Published, [Next]_vars
               PROVE  [Abstract!OverlapNext]_(Abstract!stateVars)
    OBVIOUS
  <2>1. UNCHANGED <<desired, store>> => UNCHANGED Abstract!stateVars
    BY DEF Abstract!stateVars, Applied, Exists, API!Exists
  <2>2. CASE Edit
    BY <2>2, EditRefines DEF Abstract!OverlapNext
  <2>3. CASE APIStep /\ UNCHANGED <<hydraVars, syncVars>>
    BY <2>3, OverlapAPI
  <2>4. ASSUME NEW o \in Operator, OwnStep(o)
        PROVE  UNCHANGED Abstract!stateVars
    BY <2>1, <2>4, OwnEffect DEF hydraVars
  <2>5. CASE UNCHANGED vars
    BY <2>1, <2>5 DEF vars, hydraVars, apiVars
  <2>6. QED
    BY <2>2, <2>3, <2>4, <2>5, StepKinds
<1>4. QED
  BY <1>1, <1>2, <1>3, InitRefines, PTL DEF Spec, AppliesPublished, Abstract!OverlapSafety

----------------------------------------------------------------------------
(* What has settled stays.  Without an edit of the desired state nobody     *)
(* begins to ask for anything new: a sync asks for what its snapshot says,  *)
(* a new snapshot is the desired state, and what is executed was asked for. *)

DesiredAsks == UNION {ContainerAsks(desired, c) : c \in {d \in Container : desired[d].live}}

PendingAsks == {<<r.key, r.want>> : r \in {q \in API!Pending : UnderWay(q)}}

\* A call that a sync begins was ahead of it.
LEMMA BeginsAhead ==
    ASSUME NEW o \in Operator, NEW k, NEW w, Begins(o, k, w)
    PROVE  <<k, w>> \in Ahead(o)
<1>1. CASE stage[o] = "loop" /\ \E c \in todo[o] : k = ServiceOf(c) /\ w = snap[o][c].version
  <2>1. PICK c \in todo[o] : k = ServiceOf(c) /\ w = snap[o][c].version
    BY <1>1
  <2>2. <<k, w>> \in ContainerAsks(snap[o], c)
    BY <2>1 DEF ContainerAsks
  <2>3. QED
    BY <2>2 DEF Ahead
<1>2. CASE /\ stage[o] = "service" /\ k = RouteOf(cur[o])
           /\ w = IF Mine(o).route THEN cur[o] ELSE None
  <2>1. <<k, w>> \in RouteAsks(snap[o], cur[o])
    BY <1>2 DEF RouteAsks, Mine
  <2>2. QED
    BY <1>2, <2>1 DEF Ahead
<1>3. CASE stage[o] = "domains" /\ w = cur[o] /\ \E h \in hosts[o] : k = MappingOf(cur[o], h)
  <2>1. <<k, w>> \in DomainAsks(cur[o], hosts[o])
    BY <1>3 DEF DomainAsks
  <2>2. QED
    BY <1>3, <2>1 DEF Ahead
<1>4. QED
  BY <1>1, <1>2, <1>3 DEF Begins

\* An operator's own step leaves no more ahead of it, unless it reads the
\* desired state.
LEMMA AheadShrinks ==
    ASSUME TypeInv, NEW o \in Operator, OwnStep(o)
    PROVE  /\ Ahead(o)' \subseteq Ahead(o) \cup DesiredAsks
           /\ \A p \in Operator \ {o} : Ahead(p)' = Ahead(p)
<1>0. SyncTypes
  BY DEF TypeInv
<1>1. \A p \in Operator \ {o} :
        /\ stage'[p] = stage[p] /\ snap'[p] = snap[p] /\ todo'[p] = todo[p]
        /\ cur'[p] = cur[p] /\ hosts'[p] = hosts[p]
  BY <1>0 DEF OwnStep, Sync, Crash, Pull, StartContainer, ServiceFailed, ServiceApplied, RouteDone,
     StartDomain, DomainDone, FinishContainer, FinishSync, NextContainer, syncVars, SyncTypes
<1>2. \A p \in Operator \ {o} : Ahead(p)' = Ahead(p)
  BY <1>1 DEF Ahead, Mine
<1>3. CASE Pull(o)
  <2>1. stage'[o] = "loop" /\ snap'[o] = desired /\ todo'[o] = {c \in Container : desired[c].live}
    BY <1>0, <1>3 DEF Pull, SyncTypes
  <2>2. Ahead(o)' = DesiredAsks
    BY <2>1 DEF Ahead, DesiredAsks
  <2>3. QED
    BY <1>2, <2>2
<1>4. CASE StartContainer(o)
  <2>1. PICK c \in todo[o] : cur' = [cur EXCEPT ![o] = c] /\ todo' = [todo EXCEPT ![o] = @ \ {c}]
    BY <1>4 DEF StartContainer
  <2>2. /\ stage'[o] = "service" /\ snap'[o] = snap[o] /\ cur'[o] = c /\ todo'[o] = todo[o] \ {c}
    BY <1>0, <1>4, <2>1 DEF StartContainer, SyncTypes
  <2>3. Ahead(o)' = (UNION {ContainerAsks(snap[o], d) : d \in todo[o] \ {c}})
                      \cup RouteAsks(snap[o], c) \cup DomainAsks(c, snap[o][c].hosts)
    BY <2>2 DEF Ahead, Mine
  <2>4. RouteAsks(snap[o], c) \cup DomainAsks(c, snap[o][c].hosts) \subseteq ContainerAsks(snap[o], c)
    BY DEF ContainerAsks
  <2>5. UNION {ContainerAsks(snap[o], d) : d \in todo[o]} \subseteq Ahead(o)
    BY DEF Ahead
  <2>6. QED
    BY <1>2, <2>3, <2>4, <2>5
<1>5. CASE ServiceFailed(o) \/ FinishContainer(o)
  <2>1. stage'[o] = "loop" /\ snap'[o] = snap[o] /\ todo'[o] = todo[o]
    BY <1>0, <1>5 DEF ServiceFailed, FinishContainer, NextContainer, SyncTypes
  <2>2. QED
    BY <1>2, <2>1 DEF Ahead
<1>6. CASE ServiceApplied(o)
  <2>1. /\ stage[o] = "service" /\ stage'[o] = "route" /\ snap'[o] = snap[o] /\ todo'[o] = todo[o]
        /\ cur'[o] = cur[o]
    BY <1>0, <1>6 DEF ServiceApplied, SyncTypes
  <2>2. QED
    BY <1>2, <2>1 DEF Ahead, Mine
<1>7. CASE RouteDone(o)
  <2>1. /\ stage[o] = "route" /\ stage'[o] = "domains" /\ snap'[o] = snap[o] /\ todo'[o] = todo[o]
        /\ cur'[o] = cur[o] /\ hosts'[o] = Mine(o).hosts
    BY <1>0, <1>7 DEF RouteDone, SyncTypes
  <2>2. QED
    BY <1>2, <2>1 DEF Ahead
<1>8. CASE StartDomain(o) \/ DomainDone(o)
  <2>1. /\ stage[o] = "domains" /\ stage'[o] = "domains" /\ snap'[o] = snap[o] /\ todo'[o] = todo[o]
        /\ cur'[o] = cur[o] /\ hosts'[o] \subseteq hosts[o]
    BY <1>0, <1>8 DEF StartDomain, DomainDone, syncVars, SyncTypes
  <2>2. DomainAsks(cur[o], hosts'[o]) \subseteq DomainAsks(cur[o], hosts[o])
    BY <2>1 DEF DomainAsks
  <2>3. QED
    BY <1>2, <2>1, <2>2 DEF Ahead
<1>9. CASE FinishSync(o) \/ Crash(o)
  <2>1. stage'[o] = "idle" /\ todo'[o] = {}
    BY <1>0, <1>9 DEF FinishSync, Crash, SyncTypes
  <2>2. QED
    BY <1>2, <2>1 DEF Ahead
<1>10. QED
  BY <1>3, <1>4, <1>5, <1>6, <1>7, <1>8, <1>9 DEF OwnStep, Sync

\* While nobody edits the desired state, nothing new is asked for.
LEMMA AskedShrinks ==
    ASSUME TypeInv, [Next]_vars, UNCHANGED desired
    PROVE  Asked' \subseteq Asked
<1>1. Asked = PendingAsks \cup (UNION {Ahead(o) : o \in Operator}) \cup DesiredAsks
  BY DEF Asked, PendingAsks, DesiredAsks, UnderWay
<1>2. Asked' = PendingAsks' \cup (UNION {Ahead(o)' : o \in Operator}) \cup DesiredAsks'
  BY DEF Asked, PendingAsks, DesiredAsks, UnderWay
<1>3. DesiredAsks' = DesiredAsks
  BY DEF DesiredAsks, ContainerAsks, RouteAsks, DomainAsks
<1>4. UNCHANGED syncVars => \A o \in Operator : Ahead(o)' = Ahead(o)
  BY DEF syncVars, Ahead, Mine
<1>5. UNCHANGED apiVars => PendingAsks' = PendingAsks
  BY DEF apiVars, PendingAsks, API!Pending
<1>6. CASE Edit \/ UNCHANGED vars
  BY <1>1, <1>2, <1>3, <1>4, <1>5, <1>6
     DEF Edit, Deploy, Undeploy, ToggleRoute, AssignHost, EditWith, vars
<1>7. CASE APIStep /\ UNCHANGED <<hydraVars, syncVars>>
  <2>1. \A r \in API!Pending' : UnderWay(r) =>
          \E q \in API!Pending : UnderWay(q) /\ q.key = r.key /\ q.want = r.want
    BY <1>7, UnderWayBefore DEF TypeInv
  <2>2. PendingAsks' \subseteq PendingAsks
    BY <2>1 DEF PendingAsks, UnderWay
  <2>3. QED
    BY <1>1, <1>2, <1>3, <1>4, <1>7, <2>2
<1>8. ASSUME NEW o \in Operator, OwnStep(o)
      PROVE  Asked' \subseteq Asked
  <2>1. \A p \in Operator : Ahead(p)' \subseteq Ahead(p) \cup Ahead(o) \cup DesiredAsks
    BY <1>8, AheadShrinks
  <2>2. ASSUME NEW r \in API!Pending', UnderWay(r)
        PROVE  <<r.key, r.want>> \in PendingAsks \cup Ahead(o)
    <3>1. CASE r \in API!Pending
      BY <2>2, <3>1 DEF PendingAsks
    <3>2. CASE r \notin API!Pending
      <4>1. r = call'[o] /\ call' # call
        BY <1>8, <2>2, <3>2, OwnEffect DEF API!Pending, TypeInv, API!TypeOK
      <4>2. r # API!NoCall
        BY <2>2, NoCallType DEF UnderWay, API!Writing
      <4>3. PICK k \in ObjectKey, w \in Version \cup Container \cup {None} :
              Begins(o, k, w) /\ r = API!Begin(k, w)
        BY <1>8, <4>1, <4>2, OwnEffect DEF TypeInv, API!TypeOK
      <4>4. QED
        BY <4>3, BeginCall, BeginsAhead
    <3>3. QED
      BY <3>1, <3>2
  <2>3. PendingAsks' \subseteq PendingAsks \cup Ahead(o)
    BY <2>2 DEF PendingAsks, UnderWay
  <2>4. QED
    BY <1>1, <1>2, <1>3, <2>1, <2>3
<1>9. QED
  BY <1>6, <1>7, <1>8, StepKinds

\* A settled object keeps its spec: what is executed was asked for.
LEMMA SettledSpec ==
    ASSUME TypeInv, Grounded, [Next]_vars, NEW k \in Settled
    PROVE  store'[k].spec = store[k].spec
<1>1. k \in ObjectKey /\ \A a \in Asked : a[1] = k => a[2] = store[k].spec
  BY DEF Settled
<1>2. UNCHANGED store => store'[k].spec = store[k].spec
  OBVIOUS
<1>3. CASE APIStep
  <2>1. SpecsFollow
    BY <1>3, APIEffect DEF TypeInv
  <2>2. ASSUME NEW r \in API!Pending, r.key = k, Leaves(r, store'[k].spec)
        PROVE  store'[k].spec = store[k].spec
    <3>1. UnderWay(r) /\ Sound(r, store)
      BY <2>2 DEF Leaves, UnderWay, Grounded, API!Pending
    <3>2. store'[k].spec = r.want
      BY <2>2, <3>1 DEF Leaves, Sound
    <3>3. <<k, r.want>> \in Asked
      BY <2>2, <3>1 DEF Asked, UnderWay
    <3>4. QED
      BY <1>1, <3>2, <3>3
  <2>3. QED
    BY <1>1, <2>1, <2>2 DEF SpecsFollow
<1>4. QED
  BY <1>2, <1>3, StepKinds, OwnEffect DEF Edit, Deploy, Undeploy, ToggleRoute, AssignHost, EditWith,
     vars, apiVars

\* While nobody edits the desired state an object that has settled keeps its
\* spec and stays settled (ContainerSync!SettledStays), for any number of pods,
\* whatever fails, is killed or is repeated: the safety half of the three
\* convergence properties.
THEOREM SettledObjectsStay == Spec => SettledStays
<1>1. Init => TypeInv /\ Grounded
  BY TypeInit, GroundedInit
<1>2. TypeInv /\ Grounded /\ [Next]_vars => TypeInv' /\ Grounded'
  BY TypeStep, GroundedStep
<1>3. TypeInv /\ Grounded /\ [Next]_vars
        => [UNCHANGED desired =>
              /\ Settled \subseteq Settled'
              /\ \A k \in Settled : store'[k].spec = store[k].spec]_vars
  <2> SUFFICES ASSUME TypeInv, Grounded, [Next]_vars, UNCHANGED desired, NEW k \in Settled
               PROVE  k \in Settled' /\ store'[k].spec = store[k].spec
    OBVIOUS
  <2>1. store'[k].spec = store[k].spec
    BY SettledSpec
  <2>2. Asked' \subseteq Asked
    BY AskedShrinks
  <2>3. QED
    BY <2>1, <2>2 DEF Settled
<1>4. QED
  BY <1>1, <1>2, <1>3, PTL DEF Spec, SettledStays

=============================================================================
