------------------------- MODULE SyncReportsProofs -------------------------
(***************************************************************************)
(* Proofs about SyncReports for any number of operators, containers,       *)
(* domains, crashes and reports that are lost or late: the reports leave   *)
(* the sync as it is, and they never say more than what has been applied.  *)
(***************************************************************************)
EXTENDS SyncReports, ContainerSyncProofs, FiniteSetTheorems

----------------------------------------------------------------------------
(* Every step is one of ContainerSync, or leaves its state alone.           *)

LEMMA ReportsStep == ASSUME [ReportsNext]_allVars PROVE [Next]_vars
<1>1. ASSUME NEW o \in Operator, SyncAndReport(o)
      PROVE  Sync(o) \/ UNCHANGED vars
  <2>1. CASE PullFails(o) \/ \E h \in Host : ReportDomain(o, h)
    BY <2>1 DEF PullFails, ReportDomain
  <2>2. CASE ~(PullFails(o) \/ \E h \in Host : ReportDomain(o, h))
    BY <1>1, <2>2 DEF SyncAndReport, Sync, PullState, StartNext, ReportFailure, KeepStatus,
                      KeepEndpoint, MapDomain, KeepDomain, ReportContainer, ReportCluster,
                      Requests
  <2>3. QED
    BY <2>1, <2>2
<1>2. CASE Environment
  BY <1>2 DEF Environment, Next
<1>3. CASE ReceiveLate
  BY <1>3 DEF ReceiveLate
<1>4. ASSUME NEW o \in Operator, CrashAndForget(o)
      PROVE  Crash(o)
  BY <1>4 DEF CrashAndForget
<1>5. CASE UNCHANGED allVars
  BY <1>5 DEF allVars
<1>6. QED
  BY <1>1, <1>2, <1>3, <1>4, <1>5 DEF ReportsNext, Next

\* Reporting to Hydra (manager.go:149-218, status.go) leaves the sync alone:
\* SyncReports implements ContainerSync, so what is proved of the cluster
\* without reports holds with them.
THEOREM ReportsRefineSync == ReportsSpec => Spec
<1>1. ReportsInit => Init
  BY DEF ReportsInit
<1>2. QED
  BY <1>1, ReportsStep, PTL DEF ReportsSpec, Spec

----------------------------------------------------------------------------
(* Services and mappings are never removed by the operator, and the result  *)
(* of a call on a mapping is about a mapping that is there.                 *)

MappingSound(r, s) ==
    r.key.kind = "DomainMapping" =>
        /\ UnderWay(r) => r.want # None
        /\ r.step = "ok" => s[r.key].spec # None

Mapped ==
    /\ \A r \in API!Pending : r.step # "none" => MappingSound(r, store)
    /\ \A o \in Operator : stage[o] = "domains" /\ call[o].step # "none" =>
         \E h \in Host : call[o].key = MappingOf(cur[o], h)

\* What is there stays there.
NothingRemoved ==
    \A k \in ObjectKey :
        k.kind \in {"Service", "DomainMapping"} /\ store[k].spec # None => store'[k].spec # None

\* The steps of the API server.
LEMMA MappedCluster ==
    ASSUME TypeInv, Grounded, Mapped, APIStep, UNCHANGED syncVars
    PROVE  Mapped' /\ NothingRemoved
<1>1. SpecsFollow /\ LateWerePending /\ \A o \in Operator : CallGoesOn(o)
  BY APIEffect DEF TypeInv
<1>2. \A r \in API!Pending : Sound(r, store) /\ (r.step # "none" => MappingSound(r, store))
  BY DEF Grounded, Mapped, API!Pending
<1>3. ASSUME NEW r \in API!Pending, r.key \in ObjectKey,
             r.key.kind \in {"Service", "DomainMapping"}, NEW x, Leaves(r, x)
      PROVE  x # None
  <2>1. UnderWay(r) /\ r.step # "none" /\ x = IF r.step = "delete" THEN None ELSE r.want
    BY <1>3 DEF Leaves, UnderWay, API!Writing
  <2>2. r.want # None
    BY <1>2, <1>3, <2>1 DEF Sound, MappingSound
  <2>3. QED
    BY <1>2, <2>1, <2>2 DEF Sound
<1>4. NothingRemoved
  BY <1>1, <1>3 DEF SpecsFollow, NothingRemoved
<1>5. \A r \in API!Pending : r.step # "none" => r.key \in ObjectKey
  BY DEF API!Pending, TypeInv, API!TypeOK, API!Writing
<1>6. ASSUME NEW r \in API!Pending, NEW q, q.step = r.step, q.key = r.key, q.want = r.want,
             q.step # "none"
      PROVE  MappingSound(q, store')
  BY <1>2, <1>4, <1>5, <1>6 DEF MappingSound, UnderWay, NothingRemoved
<1>7. ASSUME NEW o \in Operator, NEW q, q = call'[o], q.step # "none"
      PROVE  MappingSound(q, store')
  <2> DEFINE r == call[o]
  <2>1. r \in API!Pending /\ r \in API!Call /\ q.key = r.key /\ q.want = r.want
    BY <1>1, <1>7 DEF API!Pending, TypeInv, API!TypeOK, CallGoesOn
  <2>2. CASE q.step = r.step
    BY <1>6, <1>7, <2>1, <2>2
  <2>3. CASE r.step = "get" /\ q.step \in {"create", "update"}
    BY <1>2, <2>1, <2>3 DEF MappingSound, UnderWay, API!Writing
  <2>4. CASE q.step = "ok" /\ Leaves(r, store'[r.key].spec)
    <3>1. r.key \in ObjectKey
      BY <1>5, <2>1, <2>4 DEF Leaves, API!Writing
    <3>2. r.key.kind = "DomainMapping" => store'[r.key].spec # None
      BY <1>3, <2>1, <2>4, <3>1
    <3>3. QED
      BY <2>1, <2>4, <3>2 DEF MappingSound, UnderWay, API!Writing
  <2>5. CASE q.step = "failed"
    BY <2>5 DEF MappingSound, UnderWay, API!Writing
  <2>6. QED
    BY <1>1, <1>7, <2>2, <2>3, <2>4, <2>5 DEF CallGoesOn
<1>8. ASSUME NEW q \in late'
      PROVE  q.step # "none" => MappingSound(q, store')
  <2>1. PICK r \in API!Pending : Was(q, r)
    BY <1>1 DEF LateWerePending
  <2>2. QED
    BY <1>6, <2>1 DEF Was
<1>9. ASSUME NEW o \in Operator, stage'[o] = "domains", call'[o].step # "none"
       PROVE  \E h \in Host : call'[o].key = MappingOf(cur'[o], h)
  <2>1. call[o].step # "none" /\ call'[o].key = call[o].key
    BY <1>1, <1>9 DEF CallGoesOn, Leaves, API!Writing
  <2>2. QED
    BY <1>9, <2>1 DEF Mapped, syncVars
<1>10. QED
  BY <1>4, <1>7, <1>8, <1>9 DEF Mapped, API!Pending

\* The steps of an operator that replace its call.
LEMMA MappedSync ==
    ASSUME TypeInv, Mapped, UNCHANGED store, late' \subseteq API!Pending,
           NEW o \in Operator, NEW q, call' = [call EXCEPT ![o] = q],
           q.step # "none" => MappingSound(q, store),
           \A p \in Operator \ {o} : stage'[p] = stage[p] /\ cur'[p] = cur[p],
           stage'[o] = "domains" /\ q.step # "none" =>
             \E h \in Host : q.key = MappingOf(cur'[o], h)
    PROVE  Mapped' /\ NothingRemoved
<1>1. call'[o] = q /\ \A p \in Operator \ {o} : call'[p] = call[p]
  BY DEF TypeInv, API!TypeOK
<1>2. \A r \in API!Pending' : r \in API!Pending \/ r = q
  BY <1>1 DEF API!Pending
<1>3. \A r \in API!Pending' : r.step # "none" => MappingSound(r, store')
  BY <1>2 DEF Mapped
<1>4. \A p \in Operator : stage'[p] = "domains" /\ call'[p].step # "none" =>
        \E h \in Host : call'[p].key = MappingOf(cur'[p], h)
  BY <1>1 DEF Mapped
<1>5. QED
  BY <1>3, <1>4 DEF Mapped, NothingRemoved

\* Every step keeps the mappings: one step per action.
LEMMA MappedStep ==
    ASSUME TypeInv, Grounded, Mapped, [Next]_vars
    PROVE  Mapped' /\ NothingRemoved
<1> USE DEF hydraVars, apiVars, syncVars
<1>1. ASSUME UNCHANGED apiVars,
             \A o \in Operator : stage'[o] = "domains" => stage[o] = "domains" /\ cur'[o] = cur[o]
      PROVE  Mapped' /\ NothingRemoved
  BY <1>1 DEF Mapped, NothingRemoved, API!Pending
<1>2. /\ late \subseteq API!Pending /\ \A o \in Operator : call[o] \in API!Pending
      /\ stage \in [Operator -> Stage] /\ cur \in [Operator -> Container \cup {None}]
      /\ \A o \in Operator : stage[o] \in {"service", "route", "domains"} => cur[o] \in Container
  BY DEF API!Pending, TypeInv, SyncTypes
<1>3. API!NoCall.step = "none"
  BY DEF API!NoCall
<1>4. ASSUME NEW o \in Operator, UNCHANGED store, late' \subseteq API!Pending,
             call' = [call EXCEPT ![o] = API!NoCall],
             \A p \in Operator \ {o} : stage'[p] = stage[p] /\ cur'[p] = cur[p]
      PROVE  Mapped' /\ NothingRemoved
  BY <1>3, <1>4, MappedSync
<1>5. CASE Edit
  BY <1>1, <1>5 DEF Edit, Deploy, Undeploy, ToggleRoute, AssignHost, EditWith
<1>6. CASE Cluster
  BY <1>6, MappedCluster DEF Cluster, APIStep
<1>7. ASSUME NEW o \in Operator, Pull(o) \/ FinishSync(o)
      PROVE  Mapped' /\ NothingRemoved
  BY <1>1, <1>2, <1>7 DEF Pull, FinishSync
<1>8. ASSUME NEW o \in Operator, NEW k \in ObjectKey, NEW w \in Version \cup Container \cup {None},
             call' = [call EXCEPT ![o] = API!Begin(k, w)], UNCHANGED <<store, late>>,
             \A p \in Operator \ {o} : stage'[p] = stage[p] /\ cur'[p] = cur[p],
             IF k.kind = "DomainMapping"
             THEN w # None /\ \E h \in Host : k = MappingOf(cur'[o], h)
             ELSE stage'[o] # "domains"
      PROVE  Mapped' /\ NothingRemoved
  <2> DEFINE q == API!Begin(k, w)
  <2>1. q.key = k /\ q.want = w /\ q.step # "none" /\ q.step # "ok"
    BY <1>8, BeginCall
  <2>2. MappingSound(q, store)
    BY <1>8, <2>1 DEF MappingSound
  <2>3. stage'[o] = "domains" => \E h \in Host : q.key = MappingOf(cur'[o], h)
    BY <1>8, <2>1
  <2> HIDE DEF q
  <2>4. QED
    BY <1>2, <1>8, <2>2, <2>3, MappedSync DEF q
<1>9. ASSUME NEW o \in Operator, StartContainer(o)
      PROVE  Mapped' /\ NothingRemoved
  <2>1. PICK c \in todo[o] :
          /\ cur' = [cur EXCEPT ![o] = c]
          /\ call' = [call EXCEPT ![o] = API!Begin(ServiceOf(c), snap[o][c].version)]
    BY <1>9 DEF StartContainer
  <2>2. c \in Container /\ snap[o][c].version \in Version
    BY DEF TypeInv, SyncTypes, Entry
  <2>3. ServiceOf(c) \in ObjectKey /\ ServiceOf(c).kind # "DomainMapping"
    BY <2>2, Names
  <2>4. stage'[o] = "service" /\ \A p \in Operator \ {o} : stage'[p] = stage[p] /\ cur'[p] = cur[p]
    BY <1>2, <1>9, <2>1 DEF StartContainer
  <2>5. QED
    BY <1>8, <1>9, <2>1, <2>2, <2>3, <2>4 DEF StartContainer
<1>10. ASSUME NEW o \in Operator, ServiceFailed(o) \/ FinishContainer(o)
       PROVE  Mapped' /\ NothingRemoved
  BY <1>2, <1>4, <1>10 DEF ServiceFailed, FinishContainer, NextContainer
<1>11. ASSUME NEW o \in Operator, ServiceApplied(o)
       PROVE  Mapped' /\ NothingRemoved
  <2> DEFINE w == IF Mine(o).route THEN cur[o] ELSE None
  <2>1. cur[o] \in Container
    BY <1>2, <1>11 DEF ServiceApplied
  <2>2. RouteOf(cur[o]) \in ObjectKey /\ RouteOf(cur[o]).kind # "DomainMapping"
    BY <2>1, Names
  <2>3. /\ stage'[o] = "route" /\ \A p \in Operator \ {o} : stage'[p] = stage[p] /\ cur'[p] = cur[p]
        /\ call' = [call EXCEPT ![o] = API!Begin(RouteOf(cur[o]), w)] /\ UNCHANGED <<store, late>>
    BY <1>2, <1>11 DEF ServiceApplied
  <2>4. w \in Version \cup Container \cup {None}
    BY <2>1
  <2> HIDE DEF w
  <2>5. QED
    BY <1>8, <2>2, <2>3, <2>4
<1>12. ASSUME NEW o \in Operator, RouteDone(o) \/ DomainDone(o)
       PROVE  Mapped' /\ NothingRemoved
  BY <1>2, <1>4, <1>12 DEF RouteDone, DomainDone
<1>13. ASSUME NEW o \in Operator, StartDomain(o)
       PROVE  Mapped' /\ NothingRemoved
  <2>1. PICK h \in hosts[o] : call' = [call EXCEPT ![o] = API!Begin(MappingOf(cur[o], h), cur[o])]
    BY <1>13 DEF StartDomain
  <2>2. cur[o] \in Container /\ cur[o] # None /\ h \in Host
    BY <1>2, <1>13, Specs DEF StartDomain, TypeInv, SyncTypes
  <2>3. MappingOf(cur[o], h) \in ObjectKey /\ MappingOf(cur[o], h).kind = "DomainMapping"
    BY <2>2, Names
  <2>4. UNCHANGED <<store, late, stage, cur>>
    BY <1>13 DEF StartDomain
  <2>5. QED
    BY <1>8, <2>1, <2>2, <2>3, <2>4
<1>14. ASSUME NEW o \in Operator, Request(o)
       PROVE  Mapped' /\ NothingRemoved
  BY <1>14, MappedCluster DEF Request, APIStep
<1>15. ASSUME NEW o \in Operator, Crash(o)
       PROVE  Mapped' /\ NothingRemoved
  BY <1>2, <1>4, <1>15 DEF Crash
<1>16. CASE UNCHANGED vars
  BY <1>1, <1>16 DEF vars
<1>17. QED
  BY <1>5, <1>6, <1>7, <1>9, <1>10, <1>11, <1>12, <1>13, <1>14, <1>15, <1>16 DEF Next, Sync

LEMMA MappedInit == Init => Mapped
BY DEF Init, API!Init, API!NoCall, API!Pending, Mapped

SyncInv == TypeInv /\ Grounded /\ Mapped

\* The invariant of the sync, in a step of SyncReports.
LEMMA SyncInvStep ==
    ASSUME SyncInv, [ReportsNext]_allVars
    PROVE  SyncInv' /\ NothingRemoved
BY ReportsStep, TypeStep, GroundedStep, MappedStep DEF SyncInv

----------------------------------------------------------------------------
(* What is shown is true.  The strengthening: a report says nothing that    *)
(* has not been applied when it is made, late ones included, and this stays *)
(* so because nothing is removed; the domains found active have a mapping;  *)
(* and the containers that a sync has counted are among those it has left   *)
(* behind, each of which has a Service.                                     *)

WithService == {c \in Container : store[ServiceOf(c)].spec # None}

HasMapping(h) == \E c \in Container : store[MappingOf(c, h)].spec # None

Truthful(s, x) ==
    /\ s \in Container /\ x.status \notin {"none", "error"} => s \in WithService
    /\ s \in Host /\ x.status = "active" => HasMapping(s)
    /\ s = "cluster" => x.ready <= Cardinality(WithService)

ShownInv ==
    /\ DOMAIN shown = Subject
    /\ \A s \in Subject : shown[s] \in Content(s) /\ Truthful(s, shown[s])
    /\ \A r \in lateReports : r.of \in Subject /\ r.says \in Content(r.of) /\ Truthful(r.of, r.says)

ResultTypes ==
    /\ outcome \in [Operator -> Outcome]
    /\ domains \in [Operator -> [Host -> DomainOutcome]]
    /\ ready \in [Operator -> Nat]

Counted(o) == {c \in WithService : c \notin todo[o] /\ c # cur[o]}

ResultInv(o) ==
    /\ \A h \in Host : domains[o][h] = "active" => HasMapping(h)
    /\ stage[o] = "idle" => ready[o] = 0
    /\ stage[o] \in {"service", "route", "domains"} => cur[o] \notin todo[o]
    /\ ready[o] <= Cardinality(Counted(o))

ReportsInv == SyncInv /\ ShownInv /\ ResultTypes /\ \A o \in Operator : ResultInv(o)

\* What Hydra can be told of each kind of subject.
LEMMA Contents ==
    /\ \A c \in Container : c \in Subject /\ Content(c) = Outcome
    /\ \A h \in Host : h \in Subject /\ Content(h) = [status : DomainOutcome]
    /\ "cluster" \in Subject
    /\ Content("cluster") = [status : {"none", "reachable", "unreachable"}, ready : Nat]
BY ReportAssumption DEF Subject, Content

\* Counting Services.
LEMMA Counting ==
    /\ IsFiniteSet(WithService) /\ Cardinality(WithService) \in Nat
    /\ \A o \in Operator : IsFiniteSet(Counted(o)) /\ Cardinality(Counted(o)) \in Nat
                           /\ Cardinality(Counted(o)) <= Cardinality(WithService)
<1>1. IsFiniteSet(WithService) /\ Cardinality(WithService) \in Nat
  <2>1. WithService \subseteq Container /\ IsFiniteSet(Container)
    BY ReportAssumption DEF WithService
  <2>2. QED
    BY <2>1, FS_Subset, FS_CardinalityType
<1>2. ASSUME NEW o \in Operator
      PROVE  IsFiniteSet(Counted(o)) /\ Cardinality(Counted(o)) \in Nat
             /\ Cardinality(Counted(o)) <= Cardinality(WithService)
  <2>1. Counted(o) \subseteq WithService
    BY DEF Counted
  <2>2. QED
    BY <1>1, <2>1, FS_Subset, FS_CardinalityType
<1>3. QED
  BY <1>1, <1>2

\* What was true stays true.
LEMMA TruthStays ==
    ASSUME NothingRemoved
    PROVE  /\ WithService \subseteq WithService'
           /\ IsFiniteSet(WithService)' /\ Cardinality(WithService)' \in Nat
           /\ Cardinality(WithService) <= Cardinality(WithService)'
           /\ \A h \in Host : HasMapping(h) => HasMapping(h)'
<1>1. WithService \subseteq WithService'
  BY Names DEF NothingRemoved, WithService
<1>2. IsFiniteSet(WithService')
  <2>1. WithService' \subseteq Container /\ IsFiniteSet(Container)
    BY ReportAssumption DEF WithService
  <2>2. QED
    BY <2>1, FS_Subset
<1>3. Cardinality(WithService') \in Nat /\ Cardinality(WithService) <= Cardinality(WithService')
  BY <1>1, <1>2, FS_Subset, FS_CardinalityType
<1>4. \A h \in Host : HasMapping(h) => HasMapping(h)'
  BY Names DEF NothingRemoved, HasMapping
<1>5. QED
  BY <1>1, <1>2, <1>3, <1>4

LEMMA TruthfulStays ==
    ASSUME NothingRemoved, NEW s \in Subject, NEW x \in Content(s), Truthful(s, x)
    PROVE  Truthful(s, x)'
<1>1. Cardinality(WithService) \in Nat
  BY Counting
<1>2. Cardinality(WithService)' \in Nat
  BY TruthStays
<1>3. ASSUME s = "cluster"
      PROVE  x.ready \in Nat
  <2>1. x \in [status : {"none", "reachable", "unreachable"}, ready : Nat]
    BY <1>3, Contents
  <2>2. QED
    BY <2>1
<1>4. QED
  BY <1>1, <1>2, <1>3, TruthStays DEF Truthful

\* A step that makes no report, and one that makes a true one.
LEMMA ShownStays == ASSUME ShownInv, NothingRemoved, UNCHANGED reportVars PROVE ShownInv'
<1>1. \A s \in Subject : Truthful(s, shown[s])'
  BY TruthfulStays DEF ShownInv, reportVars
<1>2. \A r \in lateReports : Truthful(r.of, r.says)'
  BY TruthfulStays DEF ShownInv
<1>3. QED
  BY <1>1, <1>2 DEF ShownInv, reportVars

LEMMA PutStays ==
    ASSUME ShownInv, NothingRemoved, NEW s \in Subject, NEW x \in Content(s), Truthful(s, x),
           Put(s, x)
    PROVE  ShownInv'
<1>1. \A t \in Subject : \A y \in Content(t) : Truthful(t, y) => Truthful(t, y)'
  BY TruthfulStays
<1>2. CASE shown' = [shown EXCEPT ![s] = x] /\ UNCHANGED lateReports
  <2>1. ASSUME NEW t \in Subject
        PROVE  shown'[t] \in Content(t) /\ Truthful(t, shown[t])'
    <3>1. shown'[t] = IF t = s THEN x ELSE shown[t]
      BY <1>2 DEF ShownInv
    <3>2. shown'[t] \in Content(t) /\ Truthful(t, shown'[t])
      BY <3>1 DEF ShownInv
    <3>3. ASSUME NEW y, y = shown'[t]
          PROVE  Truthful(t, y)'
      BY <1>1, <3>2, <3>3
    <3>4. QED
      BY <3>2, <3>3
  <2>2. \A r \in lateReports : Truthful(r.of, r.says)'
    BY <1>1 DEF ShownInv
  <2>3. DOMAIN shown' = Subject
    BY <1>2 DEF ShownInv
  <2>4. QED
    BY <1>2, <2>1, <2>2, <2>3 DEF ShownInv
<1>3. CASE UNCHANGED reportVars
  BY <1>3, ShownStays
<1>4. CASE lateReports' = lateReports \cup {[of |-> s, says |-> x]} /\ UNCHANGED shown
  <2>1. \A t \in Subject : Truthful(t, shown[t])'
    BY <1>1, <1>4 DEF ShownInv
  <2>2. ASSUME NEW r \in lateReports'
        PROVE  r.of \in Subject /\ r.says \in Content(r.of) /\ Truthful(r.of, r.says)'
    BY <1>1, <1>4, <2>2 DEF ShownInv
  <2>3. QED
    BY <1>4, <2>1, <2>2 DEF ShownInv
<1>5. QED
  BY <1>2, <1>3, <1>4 DEF Put

LEMMA ReceiveStays == ASSUME ShownInv, NothingRemoved, ReceiveLate PROVE ShownInv'
<1>1. PICK r \in lateReports : /\ shown' = [shown EXCEPT ![r.of] = r.says]
                               /\ lateReports' = lateReports \ {r}
  BY DEF ReceiveLate
<1>2. r.of \in Subject /\ r.says \in Content(r.of) /\ Truthful(r.of, r.says)
  BY DEF ShownInv
<1>3. \A t \in Subject : \A y \in Content(t) : Truthful(t, y) => Truthful(t, y)'
  BY TruthfulStays
<1>4. ASSUME NEW t \in Subject
      PROVE  shown'[t] \in Content(t) /\ Truthful(t, shown[t])'
  <2>1. shown'[t] = IF t = r.of THEN r.says ELSE shown[t]
    BY <1>1 DEF ShownInv
  <2>2. shown'[t] \in Content(t) /\ Truthful(t, shown'[t])
    BY <1>2, <2>1 DEF ShownInv
  <2>3. ASSUME NEW y, y = shown'[t]
        PROVE  Truthful(t, y)'
    BY <1>3, <2>2, <2>3
  <2>4. QED
    BY <2>2, <2>3
<1>5. \A q \in lateReports' : Truthful(q.of, q.says)'
  BY <1>1, <1>3 DEF ShownInv
<1>6. QED
  BY <1>1, <1>4, <1>5 DEF ShownInv

\* The reports that a sync makes are true.
LEMMA ReportsTrue ==
    ASSUME ReportsInv, NothingRemoved, NEW o \in Operator, SyncAndReport(o)
    PROVE  ShownInv'
<1> USE DEF ReportsInv
<1>1. CASE UNCHANGED reportVars
  BY <1>1, ShownStays
<1>2. CASE PullFails(o)
  <2> DEFINE x == [status |-> "unreachable", ready |-> 0]
  <2>1. x \in Content("cluster") /\ "cluster" \in Subject
    BY Contents
  <2>2. Truthful("cluster", x)
    BY ReportAssumption, Counting DEF Truthful
  <2>3. QED
    BY <1>2, <2>1, <2>2, PutStays DEF PullFails
<1>3. CASE ReportFailure(o)
  <2>1. cur[o] \in Container
    BY <1>3 DEF ReportFailure, ServiceFailed, SyncInv, TypeInv, SyncTypes
  <2>2. Failure \in Content(cur[o]) /\ cur[o] \in Subject
    BY <2>1, Contents DEF Failure, Outcome, Status
  <2>3. Truthful(cur[o], Failure)
    BY <2>1, ReportAssumption DEF Truthful, Failure
  <2>4. QED
    BY <1>3, <2>2, <2>3, PutStays DEF ReportFailure
<1>4. ASSUME NEW h \in Host, ReportDomain(o, h)
      PROVE  ShownInv'
  <2> DEFINE x == [status |-> domains[o][h]]
  <2>1. x \in Content(h) /\ h \in Subject
    <3>1. domains[o][h] \in DomainOutcome
      BY DEF ResultTypes
    <3>2. x \in [status : DomainOutcome]
      BY <3>1
    <3>3. QED
      BY <3>2, Contents
  <2>2. Truthful(h, x)
    BY ReportAssumption DEF Truthful, ResultInv
  <2>3. QED
    BY <1>4, <2>1, <2>2, PutStays DEF ReportDomain
<1>5. CASE ReportContainer(o)
  <2>1. stage[o] = "domains" /\ cur[o] \in Container
    BY <1>5 DEF ReportContainer, FinishContainer, SyncInv, TypeInv, SyncTypes
  <2>2. outcome[o] \in Content(cur[o]) /\ cur[o] \in Subject
    BY <2>1, Contents DEF ResultTypes
  <2>3. cur[o] \in WithService
    BY <2>1 DEF SyncInv, Grounded, WithService
  <2>4. Truthful(cur[o], outcome[o])
    BY <2>1, <2>3, ReportAssumption DEF Truthful
  <2>5. QED
    BY <1>5, <2>2, <2>4, PutStays DEF ReportContainer
<1>6. CASE ReportCluster(o)
  <2>1. Reachable(o) \in Content("cluster") /\ "cluster" \in Subject
    BY Contents DEF Reachable, ResultTypes
  <2>2. ready[o] <= Cardinality(Counted(o)) /\ ready[o] \in Nat
    BY DEF ResultInv, ResultTypes
  <2>3. Truthful("cluster", Reachable(o))
    BY <2>2, ReportAssumption, Counting DEF Truthful, Reachable
  <2>4. QED
    BY <1>6, <2>1, <2>3, PutStays DEF ReportCluster
<1>7. QED
  BY <1>1, <1>2, <1>3, <1>4, <1>5, <1>6
     DEF SyncAndReport, PullState, StartNext, KeepStatus, KeepEndpoint, MapDomain, KeepDomain,
         Requests

\* The results that a sync keeps have their types.
LEMMA ResultTypesStay ==
    ASSUME ResultTypes, [ReportsNext]_allVars
    PROVE  ResultTypes'
<1> USE DEF ResultTypes
<1>1. /\ NoOutcome \in Outcome /\ NoDomains \in [Host -> DomainOutcome]
      /\ \A svc : ServiceOutcome(svc) \in Outcome
  BY DEF NoOutcome, NoDomains, ServiceOutcome, Outcome, DomainOutcome, Status
<1>2. ASSUME UNCHANGED resultVars
      PROVE  ResultTypes'
  BY <1>2 DEF resultVars
<1>3. ASSUME NEW o \in Operator, SyncAndReport(o)
      PROVE  ResultTypes'
  <2>1. CASE PullState(o) \/ PullFails(o) \/ StartNext(o) \/ ReportFailure(o) \/ MapDomain(o)
             \/ Requests(o)
    BY <1>2, <2>1 DEF PullState, PullFails, StartNext, ReportFailure, MapDomain, Requests
  <2>2. CASE KeepStatus(o)
    BY <1>1, <2>2 DEF KeepStatus
  <2>3. CASE KeepEndpoint(o)
    <3>1. \A e \in {"none", "ksvc", "route"} : [outcome[o] EXCEPT !.endpoint = e] \in Outcome
      BY DEF Outcome
    <3>2. outcome' \in [Operator -> Outcome]
      BY <2>3, <3>1 DEF KeepEndpoint, Outcome
    <3>3. QED
      BY <2>3, <3>2 DEF KeepEndpoint
  <2>4. CASE KeepDomain(o)
    BY <2>4 DEF KeepDomain, DomainOutcome
  <2>5. ASSUME NEW h \in Host, ReportDomain(o, h)
        PROVE  ResultTypes'
    BY <2>5 DEF ReportDomain, DomainOutcome
  <2>6. CASE ReportContainer(o)
    <3>1. ready' \in [Operator -> Nat]
      BY <2>6 DEF ReportContainer
    <3>2. QED
      BY <1>1, <2>6, <3>1 DEF ReportContainer
  <2>7. CASE ReportCluster(o)
    BY <2>7 DEF ReportCluster
  <2>8. QED
    BY <1>3, <2>1, <2>2, <2>3, <2>4, <2>5, <2>6, <2>7 DEF SyncAndReport
<1>4. ASSUME NEW o \in Operator, CrashAndForget(o)
      PROVE  ResultTypes'
  BY <1>1, <1>4 DEF CrashAndForget
<1>5. CASE Environment \/ ReceiveLate \/ UNCHANGED allVars
  BY <1>2, <1>5 DEF Environment, ReceiveLate, allVars
<1>6. QED
  BY <1>3, <1>4, <1>5 DEF ReportsNext

\* Only operator o moves in its steps.
LEMMA OthersStay ==
    ASSUME SyncInv, ResultTypes, NEW o \in Operator, SyncAndReport(o) \/ CrashAndForget(o),
           NEW p \in Operator \ {o}
    PROVE  /\ UNCHANGED <<stage[p], todo[p], cur[p]>>
           /\ UNCHANGED <<domains[p], ready[p]>>
<1> USE DEF hydraVars, apiVars, syncVars, resultVars, vars
<1>1. /\ stage \in [Operator -> Stage] /\ todo \in [Operator -> SUBSET Container]
      /\ cur \in [Operator -> Container \cup {None}]
  BY DEF SyncInv, TypeInv, SyncTypes
<1>2. UNCHANGED <<domains[p], ready[p]>>
  BY DEF SyncAndReport, PullState, PullFails, StartNext, ReportFailure, KeepStatus, KeepEndpoint,
         MapDomain, KeepDomain, ReportDomain, ReportContainer, ReportCluster, Requests,
         CrashAndForget, ResultTypes
<1>3. ASSUME Sync(o)
      PROVE  UNCHANGED <<stage[p], todo[p], cur[p]>>
  <2>1. CASE StartContainer(o)
    BY <1>1, <2>1 DEF StartContainer
  <2>2. CASE ~StartContainer(o)
    BY <1>1, <1>3, <2>2
       DEF Sync, Pull, ServiceFailed, NextContainer, ServiceApplied, RouteDone, StartDomain,
           DomainDone, FinishContainer, FinishSync, Request
  <2>3. QED
    BY <2>1, <2>2
<1>4. ASSUME Crash(o)
      PROVE  UNCHANGED <<stage[p], todo[p], cur[p]>>
  BY <1>1, <1>4 DEF Crash
<1>5. CASE PullFails(o) \/ \E h \in Host : ReportDomain(o, h)
  BY <1>2, <1>5 DEF PullFails, ReportDomain
<1>6. CASE ~(PullFails(o) \/ \E h \in Host : ReportDomain(o, h))
  BY <1>2, <1>3, <1>4, <1>6
     DEF SyncAndReport, Sync, PullState, StartNext, ReportFailure, KeepStatus, KeepEndpoint,
         MapDomain, KeepDomain, ReportContainer, ReportCluster, Requests, CrashAndForget
<1>7. QED
  BY <1>5, <1>6

\* What is counted stays, if the sync leaves no fewer containers behind.
LEMMA CountStays ==
    ASSUME NothingRemoved, ResultTypes, ResultTypes', NEW o \in Operator, ResultInv(o),
           ready'[o] = ready[o],
           \A c \in Container : c \notin todo[o] /\ c # cur[o] => c \notin todo'[o] /\ c # cur'[o]
    PROVE  ready'[o] <= Cardinality(Counted(o))'
<1>1. Counted(o) \subseteq Counted(o)'
  BY TruthStays DEF Counted, WithService
<1>2. IsFiniteSet(Counted(o)')
  <2>1. Counted(o)' \subseteq WithService'
    BY DEF Counted
  <2>2. QED
    BY <2>1, TruthStays, FS_Subset
<1>3. /\ Cardinality(Counted(o)) <= Cardinality(Counted(o)')
      /\ Cardinality(Counted(o)) \in Nat /\ Cardinality(Counted(o)') \in Nat
  BY <1>1, <1>2, FS_Subset, FS_CardinalityType
<1>4. ready[o] \in Nat /\ ready[o] <= Cardinality(Counted(o))
  BY DEF ResultTypes, ResultInv
<1>5. QED
  BY <1>3, <1>4

\* A step that counts nothing and leaves no fewer containers behind.
LEMMA ResultStays ==
    ASSUME NothingRemoved, ResultTypes, ResultTypes', NEW o \in Operator, ResultInv(o),
           ready'[o] = ready[o],
           \A h \in Host : domains'[o][h] = "active" => domains[o][h] = "active" \/ HasMapping(h)',
           stage'[o] = "idle" => ready[o] = 0,
           stage'[o] \in {"service", "route", "domains"} => cur'[o] \notin todo'[o],
           \A c \in Container : c \notin todo[o] /\ c # cur[o] => c \notin todo'[o] /\ c # cur'[o]
    PROVE  ResultInv(o)'
<1>1. ready'[o] <= Cardinality(Counted(o))'
  BY CountStays
<1>2. \A h \in Host : domains'[o][h] = "active" => HasMapping(h)'
  BY TruthStays DEF ResultInv
<1>3. QED
  BY <1>1, <1>2 DEF ResultInv

\* A step that leaves the sync of operator o where it is.
LEMMA ResultUnmoved ==
    ASSUME NothingRemoved, ResultTypes, ResultTypes', NEW o \in Operator, ResultInv(o),
           UNCHANGED <<stage[o], todo[o], cur[o], domains[o], ready[o]>>
    PROVE  ResultInv(o)'
BY ResultStays DEF ResultInv

\* A sync that starts or is lost has counted nothing.
LEMMA NothingCounted ==
    ASSUME NothingRemoved, NEW o \in Operator, ready'[o] = 0,
           \A h \in Host : domains'[o][h] = "active" => HasMapping(h)',
           stage'[o] \in {"idle", "loop"}
    PROVE  ResultInv(o)'
<1>1. Cardinality(Counted(o)') \in Nat
  <2>1. Counted(o)' \subseteq WithService'
    BY DEF Counted
  <2>2. IsFiniteSet(Counted(o)')
    BY <2>1, TruthStays, FS_Subset
  <2>3. QED
    BY <2>2, FS_CardinalityType
<1>2. QED
  BY <1>1 DEF ResultInv

\* The container that is reported is counted if it runs: it was not, before.
LEMMA OneCounted ==
    ASSUME SyncInv, NothingRemoved, ResultTypes, NEW o \in Operator, ResultInv(o),
           ReportContainer(o)
    PROVE  ResultInv(o)'
<1> USE DEF hydraVars, apiVars, syncVars
<1>1. /\ stage[o] = "domains" /\ cur[o] \in Container /\ cur[o] \in WithService
      /\ cur[o] \notin todo[o]
  BY DEF ReportContainer, FinishContainer, SyncInv, TypeInv, SyncTypes, Grounded, WithService,
         ResultInv
<1>2. stage'[o] = "loop" /\ cur'[o] = None /\ todo'[o] = todo[o] /\ domains'[o] = domains[o]
  BY DEF ReportContainer, FinishContainer, NextContainer, SyncInv, TypeInv, SyncTypes
<1>3. Counted(o) \cup {cur[o]} \subseteq Counted(o)'
  BY <1>1, <1>2, Specs, TruthStays DEF Counted, WithService
<1>4. IsFiniteSet(Counted(o)')
  <2>1. Counted(o)' \subseteq WithService'
    BY DEF Counted
  <2>2. QED
    BY <2>1, TruthStays, FS_Subset
<1>5. /\ IsFiniteSet(Counted(o) \cup {cur[o]})
      /\ Cardinality(Counted(o) \cup {cur[o]}) = Cardinality(Counted(o)) + 1
  <2>1. IsFiniteSet(Counted(o)) /\ cur[o] \notin Counted(o)
    BY Counting DEF Counted
  <2>2. QED
    BY <2>1, FS_AddElement
<1>6. Cardinality(Counted(o)) + 1 <= Cardinality(Counted(o)') /\ Cardinality(Counted(o)') \in Nat
  BY <1>3, <1>4, <1>5, FS_Subset, FS_CardinalityType
<1>7. ready'[o] \in Nat /\ ready'[o] <= ready[o] + 1
  BY DEF ReportContainer, ResultTypes
<1>8. ready'[o] <= Cardinality(Counted(o)')
  <2>1. ready[o] \in Nat /\ ready[o] <= Cardinality(Counted(o)) /\ Cardinality(Counted(o)) \in Nat
    BY Counting DEF ResultInv, ResultTypes
  <2>2. QED
    BY <1>6, <1>7, <2>1
<1>9. \A h \in Host : domains'[o][h] = "active" => HasMapping(h)'
  BY <1>2, TruthStays DEF ResultInv
<1>10. QED
  BY <1>2, <1>8, <1>9 DEF ResultInv

\* A domain that is found active has the mapping that was just applied.
LEMMA ActiveHasMapping ==
    ASSUME SyncInv, NothingRemoved, ResultTypes, NEW o \in Operator, ResultInv(o), KeepDomain(o)
    PROVE  \A h \in Host : domains'[o][h] = "active" => domains[o][h] = "active" \/ HasMapping(h)'
<1> DEFINE g == call[o].key.name
<1>1. PICK x \in Host : call[o].key = MappingOf(cur[o], x)
  BY DEF KeepDomain, DomainDone, Returned, SyncInv, Mapped
<1>2. g = x /\ cur[o] \in Container
  BY <1>1 DEF MappingOf, KeepDomain, DomainDone, SyncInv, TypeInv, SyncTypes
<1>3. AppliedReady(call[o]) => HasMapping(x)
  <2>1. call[o] \in API!Pending
    BY DEF API!Pending
  <2>2. AppliedReady(call[o]) => MappingSound(call[o], store)
    BY <2>1 DEF AppliedReady, SyncInv, Mapped
  <2>3. AppliedReady(call[o]) => store[MappingOf(cur[o], x)].spec # None
    BY <1>1, <1>2, <2>2, Names DEF AppliedReady, MappingSound
  <2>4. QED
    BY <1>2, <2>3 DEF HasMapping
<1>4. AppliedReady(call[o]) => HasMapping(x)'
  BY <1>2, <1>3, TruthStays
<1>5. ASSUME NEW h \in Host, domains'[o][h] = "active"
      PROVE  domains[o][h] = "active" \/ HasMapping(h)'
  <2>1. domains' = [domains EXCEPT ![o][g] = IF g \notin HostWithID THEN "none"
                                               ELSE IF AppliedReady(call[o]) THEN "active"
                                               ELSE "error"]
    BY DEF KeepDomain
  <2>2. domains[o] \in [Host -> DomainOutcome] /\ domains \in [Operator -> [Host -> DomainOutcome]]
    BY DEF ResultTypes
  <2>3. CASE h # g
    BY <1>5, <2>1, <2>2, <2>3
  <2>4. CASE h = g /\ AppliedReady(call[o])
    BY <1>2, <1>4, <2>4
  <2>5. CASE h = g /\ ~AppliedReady(call[o])
    <3>1. domains'[o][h] \in {"none", "error"}
      BY <2>1, <2>2, <2>5
    <3>2. QED
      BY <1>5, <3>1
  <2>6. QED
    BY <2>3, <2>4, <2>5
<1>6. QED
  BY <1>5

\* What a sync knows of its own containers stays true: one step per action.
LEMMA SyncResults ==
    ASSUME SyncInv, NothingRemoved, ResultTypes, ResultTypes', NEW o \in Operator, ResultInv(o),
           SyncAndReport(o)
    PROVE  ResultInv(o)'
<1> USE DEF hydraVars, apiVars, syncVars, resultVars
<1>1. /\ stage \in [Operator -> Stage] /\ todo \in [Operator -> SUBSET Container]
      /\ cur \in [Operator -> Container \cup {None}]
      /\ domains \in [Operator -> [Host -> DomainOutcome]] /\ ready \in [Operator -> Nat]
      /\ stage[o] \in {"service", "route", "domains"} => cur[o] \in Container
  BY DEF SyncInv, TypeInv, SyncTypes, ResultTypes
<1>2. CASE PullState(o)
  <2>1. stage[o] = "idle" /\ stage'[o] = "loop" /\ UNCHANGED <<domains, ready>>
    BY <1>1, <1>2 DEF PullState, Pull
  <2>2. \A h \in Host : domains'[o][h] = "active" => HasMapping(h)'
    BY <2>1, TruthStays DEF ResultInv
  <2>3. QED
    BY <2>1, <2>2, NothingCounted DEF ResultInv
<1>3. CASE PullFails(o) \/ Requests(o)
  BY <1>3, ResultUnmoved DEF PullFails, Requests, Request, vars
<1>4. CASE StartNext(o)
  <2>1. PICK c \in todo[o] : /\ cur' = [cur EXCEPT ![o] = c]
                             /\ todo' = [todo EXCEPT ![o] = @ \ {c}]
    BY <1>4 DEF StartNext, StartContainer
  <2>2. cur'[o] = c /\ todo'[o] = todo[o] \ {c} /\ c \in todo[o]
    BY <1>1, <2>1
  <2>3. stage'[o] = "service" /\ UNCHANGED <<domains, ready>>
    BY <1>1, <1>4 DEF StartNext, StartContainer
  <2>4. \A d \in Container : d \notin todo[o] /\ d # cur[o] => d \notin todo'[o] /\ d # cur'[o]
    BY <2>2
  <2>5. cur'[o] \notin todo'[o]
    BY <2>2
  <2>6. QED
    BY <2>3, <2>4, <2>5, ResultStays
<1>5. CASE ReportFailure(o)
  <2>1. stage'[o] = "loop" /\ cur'[o] = None /\ todo' = todo /\ UNCHANGED <<domains, ready>>
    BY <1>1, <1>5 DEF ReportFailure, ServiceFailed, NextContainer
  <2>2. QED
    BY <2>1, Specs, ResultStays
<1>6. ASSUME UNCHANGED <<cur, todo, ready>>,
             stage[o] \in {"service", "route", "domains"}, stage'[o] \in Stage \ {"idle"},
             \A h \in Host : domains'[o][h] = "active" => domains[o][h] = "active" \/ HasMapping(h)'
      PROVE  ResultInv(o)'
  <2>1. cur[o] \notin todo[o]
    BY <1>6 DEF ResultInv
  <2>2. QED
    BY <1>6, <2>1, ResultStays
<1>7. CASE KeepStatus(o) \/ KeepEndpoint(o) \/ MapDomain(o)
  <2>1. UNCHANGED <<cur, todo, ready, domains>>
    BY <1>7 DEF KeepStatus, KeepEndpoint, MapDomain, ServiceApplied, RouteDone, StartDomain
  <2>2. stage[o] \in {"service", "route", "domains"} /\ stage'[o] \in Stage \ {"idle"}
    BY <1>1, <1>7
       DEF KeepStatus, KeepEndpoint, MapDomain, ServiceApplied, RouteDone, StartDomain, Stage
  <2>3. QED
    BY <1>6, <2>1, <2>2
<1>8. CASE KeepDomain(o)
  <2>1. UNCHANGED <<cur, todo, ready, stage>> /\ stage[o] = "domains"
    BY <1>8 DEF KeepDomain, DomainDone
  <2>2. QED
    BY <1>6, <1>8, <2>1, ActiveHasMapping DEF Stage
<1>9. ASSUME NEW h \in Host, ReportDomain(o, h)
      PROVE  ResultInv(o)'
  <2>1. UNCHANGED <<cur, todo, ready, stage>> /\ stage[o] = "domains"
    BY <1>9 DEF ReportDomain, vars
  <2>2. \A x \in Host : domains'[o][x] = "active" => domains[o][x] = "active"
    BY <1>1, <1>9 DEF ReportDomain
  <2>3. QED
    BY <1>6, <2>1, <2>2 DEF Stage
<1>10. CASE ReportContainer(o)
  BY <1>10, OneCounted
<1>11. CASE ReportCluster(o)
  <2>1. stage'[o] = "idle" /\ ready'[o] = 0 /\ UNCHANGED domains
    BY <1>1, <1>11 DEF ReportCluster, FinishSync
  <2>2. \A h \in Host : domains'[o][h] = "active" => HasMapping(h)'
    BY <2>1, TruthStays DEF ResultInv
  <2>3. QED
    BY <2>1, <2>2, NothingCounted
<1>12. QED
  BY <1>2, <1>3, <1>4, <1>5, <1>7, <1>8, <1>9, <1>10, <1>11 DEF SyncAndReport

\* A pod that is killed takes with it what its sync knew.
LEMMA CrashResults ==
    ASSUME SyncInv, NothingRemoved, ResultTypes, NEW o \in Operator, CrashAndForget(o)
    PROVE  ResultInv(o)'
<1>1. stage'[o] = "idle" /\ ready'[o] = 0 /\ domains'[o] = NoDomains
  BY DEF CrashAndForget, Crash, SyncInv, TypeInv, SyncTypes, ResultTypes
<1>2. \A h \in Host : domains'[o][h] # "active"
  BY <1>1 DEF NoDomains
<1>3. QED
  BY <1>1, <1>2, NothingCounted

\* The invariant of the reports is inductive.
LEMMA ReportsInvStep == ASSUME ReportsInv, [ReportsNext]_allVars PROVE ReportsInv'
<1> USE DEF ReportsInv
<1>1. SyncInv' /\ NothingRemoved /\ ResultTypes'
  BY SyncInvStep, ResultTypesStay
<1>2. CASE Environment \/ ReceiveLate \/ UNCHANGED allVars
  <2>1. UNCHANGED <<stage, todo, cur, domains, ready>>
    BY <1>2 DEF Environment, ReceiveLate, allVars, vars, syncVars, resultVars, Edit, Deploy,
                Undeploy, ToggleRoute, AssignHost, EditWith, Cluster
  <2>2. \A o \in Operator : ResultInv(o)'
    BY <1>1, <2>1, ResultUnmoved
  <2>3. ShownInv'
    <3>1. CASE ReceiveLate
      BY <1>1, <3>1, ReceiveStays
    <3>2. CASE UNCHANGED reportVars
      BY <1>1, <3>2, ShownStays
    <3>3. QED
      BY <1>2, <3>1, <3>2 DEF Environment, allVars
  <2>4. QED
    BY <1>1, <2>2, <2>3
<1>3. ASSUME NEW o \in Operator, SyncAndReport(o) \/ CrashAndForget(o)
      PROVE  ReportsInv'
  <2>1. ResultInv(o)'
    BY <1>1, <1>3, SyncResults, CrashResults
  <2>2. ASSUME NEW p \in Operator \ {o}
        PROVE  ResultInv(p)'
    BY <1>1, <1>3, OthersStay, ResultUnmoved
  <2>3. ShownInv'
    <3>1. CASE SyncAndReport(o)
      BY <1>1, <3>1, ReportsTrue
    <3>2. CASE CrashAndForget(o)
      BY <1>1, <3>2, ShownStays DEF CrashAndForget
    <3>3. QED
      BY <1>3, <3>1, <3>2
  <2>4. QED
    BY <1>1, <2>1, <2>2, <2>3
<1>4. QED
  BY <1>2, <1>3 DEF ReportsNext

\* At first nothing is reported and nothing is there.
LEMMA ReportsInvInit == ReportsInit => ReportsInv
<1> SUFFICES ASSUME ReportsInit PROVE ReportsInv
  OBVIOUS
<1>1. SyncInv
  BY TypeInit, GroundedInit, MappedInit DEF ReportsInit, SyncInv
<1>2. ResultTypes
  BY DEF ReportsInit, ResultTypes, NoOutcome, NoDomains, Outcome, Status, DomainOutcome
<1>3. ASSUME NEW o \in Operator
      PROVE  ResultInv(o)
  <2>1. stage[o] = "idle" /\ ready[o] = 0 /\ domains[o] = NoDomains
    BY <1>3 DEF ReportsInit, Init
  <2>2. \A h \in Host : domains[o][h] # "active"
    BY <2>1 DEF NoDomains
  <2>3. QED
    BY <2>1, <2>2, Counting DEF ResultInv
<1>4. ASSUME NEW s \in Subject
      PROVE  shown[s] \in Content(s) /\ Truthful(s, shown[s])
  <2>1. CASE s \in Container
    <3>1. shown[s] = NoOutcome
      BY <1>4, <2>1, ReportAssumption DEF ReportsInit
    <3>2. NoOutcome.status = "none" /\ NoOutcome \in Outcome
      BY DEF NoOutcome, Outcome, Status
    <3>3. s \notin Host /\ s # "cluster" /\ Content(s) = Outcome
      BY <2>1, ReportAssumption, Contents
    <3>4. QED
      BY <3>1, <3>2, <3>3 DEF Truthful
  <2>2. CASE s \in Host
    <3>1. s \notin Container /\ s # "cluster" /\ Content(s) = [status : DomainOutcome]
      BY <2>2, ReportAssumption, Contents
    <3>2. shown[s] = [status |-> "none"]
      BY <1>4, <2>2, <3>1 DEF ReportsInit
    <3>3. shown[s].status = "none" /\ shown[s] \in [status : DomainOutcome]
      BY <3>2 DEF DomainOutcome
    <3>4. QED
      BY <3>1, <3>3 DEF Truthful
  <2>3. CASE s = "cluster"
    <3>1. s \notin Container \cup Host
      BY <2>3, ReportAssumption
    <3>2. shown[s] = [status |-> "none", ready |-> 0]
      BY <1>4, <3>1 DEF ReportsInit
    <3>3. Content(s) = [status : {"none", "reachable", "unreachable"}, ready : Nat]
      BY <2>3, Contents
    <3>4. shown[s].ready <= Cardinality(WithService)
      BY <3>2, Counting
    <3>5. shown[s] \in Content(s)
      BY <3>2, <3>3
    <3>6. QED
      BY <3>1, <3>4, <3>5 DEF Truthful
  <2>4. QED
    BY <1>4, <2>1, <2>2, <2>3 DEF Subject
<1>5. ShownInv
  BY <1>4 DEF ShownInv, ReportsInit
<1>6. QED
  BY <1>1, <1>2, <1>3, <1>5 DEF ReportsInv

LEMMA ReportsInvariant == ReportsSpec => []ReportsInv
BY ReportsInvInit, ReportsInvStep, PTL DEF ReportsSpec

\* Every variable has its type throughout (SyncReports!ReportsTypeOK): Hydra
\* is only ever told of a subject what the API has a status for.
THEOREM ReportsTypeCorrect == ReportsSpec => []ReportsTypeOK
<1>1. ReportsInv => ReportsTypeOK
  BY TypeInvariant DEF ReportsInv, SyncInv, ResultTypes, ShownInv, ReportsTypeOK
<1>2. QED
  BY <1>1, ReportsInvariant, PTL

\* Hydra never shows what has not been applied (NothingShownUnapplied), for
\* any number of operators, crashes, and lost and late reports: what is shown
\* of a container, a domain and the cluster was true when it was reported and
\* the operator removes no Service and no mapping.
THEOREM NothingShownIsUnapplied == ReportsSpec => []NothingShownUnapplied
<1>1. ASSUME ReportsInv PROVE NothingShownUnapplied
  <2>1. \A s \in Subject : Truthful(s, shown[s])
    BY <1>1 DEF ReportsInv, ShownInv
  <2>2. \A k \in ObjectKey : Exists(k) <=> store[k].spec # None
    BY DEF Exists, API!Exists
  <2>3. ASSUME NEW c \in Container, shown[c].status \notin {"none", "error"}
        PROVE  Exists(ServiceOf(c))
    <3>1. c \in WithService
      BY <2>1, <2>3, Contents DEF Truthful
    <3>2. QED
      BY <2>2, <3>1, Names DEF WithService
  <2>4. ASSUME NEW h \in Host, shown[h].status = "active"
        PROVE  \E c \in Container : Exists(MappingOf(c, h))
    <3>1. HasMapping(h)
      BY <2>1, <2>4, Contents DEF Truthful
    <3>2. QED
      BY <2>2, <3>1, Names DEF HasMapping
  <2>5. shown["cluster"].ready <= Cardinality({c \in Container : Exists(ServiceOf(c))})
    <3>1. WithService = {c \in Container : Exists(ServiceOf(c))}
      BY <2>2, Names DEF WithService
    <3>2. shown["cluster"].ready <= Cardinality(WithService)
      BY <2>1, Contents DEF Truthful
    <3>3. QED
      BY <3>1, <3>2
  <2>6. QED
    BY <2>3, <2>4, <2>5 DEF NothingShownUnapplied
<1>2. QED
  BY <1>1, ReportsInvariant, PTL
=============================================================================
