------------------------ MODULE NamespaceSyncProofs ------------------------
(***************************************************************************)
(* Proofs about NamespaceSync for any number of operators, namespaces,     *)
(* limits and failures: type correctness, that a namespace is only         *)
(* reported as synced if it was, that only managed namespaces are created  *)
(* and none is touched otherwise, and that a quota that has settled stays. *)
(***************************************************************************)
EXTENDS NamespaceSync, ApplyObjectProofs

----------------------------------------------------------------------------
(* Types.  The strengthening: a call is under way exactly while a namespace *)
(* is being reconciled, and it is the one for that namespace.               *)

Shape(o) ==
    /\ stage[o] \in {"idle", "loop"} =>
         call[o].step = "none" /\ call[o].key = None /\ cur[o] = None
    /\ stage[o] \in {"namespace", "quota"} => call[o].step # "none" /\ cur[o] \in Namespace
    /\ stage[o] = "namespace" => call[o].key = NamespaceOf(cur[o]) /\ call[o].want = Active
    /\ stage[o] = "quota" => /\ call[o].key = QuotaOf(cur[o])
                             /\ call[o].want = QuotaWanted(snap[o][cur[o]])
    /\ call[o].step = "delete" => stage[o] = "quota" /\ call[o].want = None

NsInv == NamespaceTypeOK /\ \A o \in Operator : Shape(o)

\* The two objects of a namespace.
LEMMA NamespaceKeys ==
    /\ \A n \in Namespace :
         /\ NamespaceOf(n) \in Key /\ NamespaceOf(n).of = "namespace" /\ NamespaceOf(n).in = n
         /\ QuotaOf(n) \in Key /\ QuotaOf(n).of = "quota" /\ QuotaOf(n).in = n
    /\ \A k \in Key : \E n \in Namespace : k = NamespaceOf(n) \/ k = QuotaOf(n)
BY NamespaceAssumption DEF NamespaceOf, QuotaOf

\* The spec of a quota is one an operator can ask for, and enforces
\* the limits it is made from.
LEMMA QuotaWantedEnforces ==
    ASSUME NEW q \in Limits
    PROVE  /\ QuotaWanted(q) \in Want \cup {None}
           /\ Enforces(QuotaWanted(q), q)
           /\ QuotaWanted(q) = None <=> ~HasQuota(q)
           /\ ~HasQuota(q) => Enforces(None, q)
<1>1. Hard(q) \in Want /\ Hard(q) # None
  BY NamespaceAssumption, ApplyAssumption
<1>2. /\ DOMAIN Hard(q) = {r \in Resource : q[r] \in Amount}
      /\ \A r \in DOMAIN Hard(q) : Hard(q)[r] = q[r]
  BY DEF Hard
<1>3. \A r \in Resource : q[r] \in Amount <=> q[r] \notin {"unset", "bad"}
  BY NamespaceAssumption DEF Limits
<1>4. DOMAIN Hard(q) = {r \in Resource : q[r] \notin {"unset", "bad"}}
  BY <1>2, <1>3
<1>5. CASE HasQuota(q)
  BY <1>1, <1>2, <1>4, <1>5 DEF QuotaWanted, Enforces, HasQuota
<1>6. CASE ~HasQuota(q)
  BY <1>6 DEF QuotaWanted, Enforces, HasQuota
<1>7. QED
  BY <1>5, <1>6

\* A call that has been replaced, or has only gone stale.
CallIs(o, c) ==
    /\ call' = [call EXCEPT ![o] = c] /\ UNCHANGED <<store, late>>

CallKept(o) ==
    call'[o].step = call[o].step /\ call'[o].key = call[o].key /\ call'[o].want = call[o].want

LEMMA CallIsType ==
    ASSUME TypeOK, NEW o \in Operator, NEW c \in Call, c.step # "none" => c.key \in Key,
           CallIs(o, c)
    PROVE  TypeOK' /\ call'[o] = c /\ \A p \in Operator \ {o} : call'[p] = call[p]
BY DEF CallIs, TypeOK

\* The calls that the sync makes.
LEMMA NamespaceCalls ==
    ASSUME NEW n \in Namespace, NEW q \in Limits
    PROVE  LET b == Begin(NamespaceOf(n), Active)
               g == [NoCall EXCEPT !.step = "get", !.key = QuotaOf(n), !.want = QuotaWanted(q)]
           IN  /\ b \in Call /\ b.step = "get" /\ b.key = NamespaceOf(n) /\ b.want = Active
               /\ g \in Call /\ g.step = "get" /\ g.key = QuotaOf(n)
               /\ g.want = QuotaWanted(q)
               /\ NoCall \in Call /\ NoCall.step = "none" /\ NoCall.key = None
<1>1. NoCall \in Call
  BY ApplyAssumption DEF NoCall, Call, NoObject, Object
<1>2. Active \in Want /\ Active # None
  BY NamespaceAssumption, ApplyAssumption
<1>3. QED
  BY <1>1, <1>2, NamespaceKeys, QuotaWantedEnforces DEF Begin, NoCall, Call

\* A change by the rest of the cluster.
LEMMA BecomesType ==
    ASSUME TypeOK, NEW k \in Key, NEW obj \in Object, Becomes(k, obj)
    PROVE  TypeOK' /\ \A o \in Operator : CallKept(o)
<1>1. \A o \in Operator : /\ call[o] \in Call
                          /\ call'[o] = Outdated(call[o], k, obj)
  BY DEF Becomes, TypeOK
<1>2. \A o \in Operator : call'[o] \in Call /\ CallKept(o)
  BY <1>1, OutdatedType DEF CallKept
<1>3. store' \in [Key -> Object] /\ late' \subseteq {r \in Call : r.step \in Writing /\ r.key \in Key}
  BY ChangeType DEF Becomes
<1>4. QED
  BY <1>2, <1>3 DEF Becomes, TypeOK, CallKept

\* Bounds are kept.
LEMMA SpendType ==
    ASSUME NamespaceTypeOK, NEW what \in DOMAIN Bound, Spend(what)
    PROVE  spent' \in [DOMAIN Bound -> Nat] /\ \A w \in DOMAIN Bound : spent'[w] <= Bound[w]
<1>1. \A w \in DOMAIN Bound : Bound[w] \in Nat /\ spent[w] \in Nat
  BY NamespaceAssumption DEF Bound, NamespaceTypeOK
<1>2. spent' = [spent EXCEPT ![what] = spent[what] + 1] /\ spent[what] < Bound[what]
  BY DEF Spend
<1>3. QED
  BY <1>1, <1>2 DEF NamespaceTypeOK

\* What every step keeps of the types: those of the API server and of the
\* sync are left to the lemmas below.
HydraTypes ==
    /\ limits \in [Namespace -> Limits]
    /\ shown \in [Subject -> Report]
    /\ lateReports \subseteq [of : Subject, says : Report]

SpentTypes ==
    spent \in [DOMAIN Bound -> Nat] /\ \A what \in DOMAIN Bound : spent[what] <= Bound[what]

LoopTypes ==
    /\ stage \in [Operator -> {"idle", "loop", "namespace", "quota"}]
    /\ snap \in [Operator -> [Namespace -> Limits]]
    /\ todo \in [Operator -> SUBSET Namespace]
    /\ cur \in [Operator -> Namespace \cup {None}]
    /\ synced \in [Operator -> Nat]

LEMMA TypeParts ==
    NamespaceTypeOK <=> /\ TypeOK /\ HydraTypes /\ SpentTypes /\ LoopTypes
                        /\ witnessed \in [Operator -> BOOLEAN]
BY DEF NamespaceTypeOK, HydraTypes, SpentTypes, LoopTypes

LEMMA SpentStays ==
    ASSUME NamespaceTypeOK,
           UNCHANGED spent \/ \E what \in {"edits", "outside", "failures"} : Spend(what)
    PROVE  SpentTypes'
<1>1. DOMAIN Bound = {"edits", "outside", "failures"}
  BY DEF Bound
<1>2. CASE UNCHANGED spent
  BY <1>2 DEF NamespaceTypeOK, SpentTypes, Bound
<1>3. QED
  BY <1>1, <1>2, SpendType DEF SpentTypes, Bound

\* Reports are of the types that Hydra knows.
LEMMA PutTypes ==
    ASSUME NamespaceTypeOK, NEW subject \in Subject,
           NEW status \in {"none", "synced", "error", "reachable"}, NEW number \in Nat,
           Put(subject, status, number)
    PROVE  HydraTypes' /\ SpentTypes'
<1> DEFINE content == [status |-> status, synced |-> number]
<1>1. content \in Report
  BY DEF Report
<1> HIDE DEF content
<1>2. /\ UNCHANGED limits
      /\ shown' = shown \/ shown' = [shown EXCEPT ![subject] = content]
      /\ \/ lateReports' = lateReports
         \/ lateReports' = lateReports \cup {[of |-> subject, says |-> content]}
  BY DEF Put, reportVars, content
<1>3. UNCHANGED spent \/ Spend("failures")
  BY DEF Put
<1>4. SpentTypes'
  BY <1>3, SpentStays
<1>5. QED
  BY <1>1, <1>2, <1>4 DEF NamespaceTypeOK, HydraTypes

\* The steps of operator o that only concern its own loop.
LEMMA LoopStays ==
    ASSUME NsInv, NEW o \in Operator, PullNamespaces(o) \/ ReportCount(o)
    PROVE  TypeOK' /\ HydraTypes' /\ SpentTypes' /\ LoopTypes' /\ \A p \in Operator : Shape(p)'
<1> USE DEF NsInv
<1>1. UNCHANGED <<store, call, late, cur>>
  BY DEF PullNamespaces, ReportCount, vars
<1>2. TypeOK'
  BY <1>1, TypeParts DEF TypeOK
<1>3. HydraTypes' /\ SpentTypes'
  <2>1. CASE PullNamespaces(o)
    BY <2>1, SpentStays DEF PullNamespaces, hydraVars, reportVars, NamespaceTypeOK, HydraTypes
  <2>2. CASE ReportCount(o)
    BY <2>2, PutTypes DEF ReportCount, Subject, NamespaceTypeOK
  <2>3. QED
    BY <2>1, <2>2
<1>4. LoopTypes'
  <2>1. CASE PullNamespaces(o)
    BY <2>1 DEF PullNamespaces, NamespaceTypeOK, LoopTypes
  <2>2. CASE ReportCount(o)
    BY <2>2 DEF ReportCount, NamespaceTypeOK, LoopTypes
  <2>3. QED
    BY <2>1, <2>2
<1>5. Shape(o)'
  BY <1>1 DEF PullNamespaces, ReportCount, Shape, NamespaceTypeOK
<1>6. \A p \in Operator \ {o} : Shape(p)'
  BY <1>1 DEF PullNamespaces, ReportCount, Shape, NamespaceTypeOK
<1>7. QED
  BY <1>2, <1>3, <1>4, <1>5, <1>6

LEMMA CallsStay ==
    ASSUME NsInv, NEW o \in Operator, StartNamespace(o) \/ ReadQuota(o) \/ RemoveQuota(o)
    PROVE  TypeOK' /\ HydraTypes' /\ SpentTypes' /\ LoopTypes' /\ \A p \in Operator : Shape(p)'
<1> USE DEF NsInv
<1>1. HydraTypes' /\ SpentTypes'
  BY SpentStays DEF StartNamespace, ReadQuota, RemoveQuota, hydraVars, reportVars, NamespaceTypeOK,
                    HydraTypes
<1>2. LoopTypes'
  <2>1. CASE StartNamespace(o)
    <3>1. PICK n \in todo[o] : /\ cur' = [cur EXCEPT ![o] = n]
                               /\ todo' = [todo EXCEPT ![o] = @ \ {n}]
      BY <2>1 DEF StartNamespace
    <3>2. QED
      BY <2>1, <3>1 DEF StartNamespace, NamespaceTypeOK, LoopTypes
  <2>2. CASE ReadQuota(o) \/ RemoveQuota(o)
    BY <2>2 DEF ReadQuota, RemoveQuota, syncVars, NamespaceTypeOK, LoopTypes
  <2>3. QED
    BY <2>1, <2>2
<1>3. \A p \in Operator \ {o} : /\ stage'[p] = stage[p] /\ snap'[p] = snap[p]
                                /\ cur'[p] = cur[p] /\ call'[p] = call[p]
  BY DEF StartNamespace, ReadQuota, RemoveQuota, syncVars, NamespaceTypeOK, TypeOK
<1>4. \A p \in Operator \ {o} : Shape(p)'
  BY <1>3 DEF Shape
<1>5. ASSUME NEW c \in Call, c.step # "none" => c.key \in Key, CallIs(o, c)
      PROVE  TypeOK' /\ call'[o] = c
  BY <1>5, CallIsType DEF NamespaceTypeOK
<1>6. CASE StartNamespace(o)
  <2>1. PICK n \in Namespace : /\ cur' = [cur EXCEPT ![o] = n]
                               /\ CallIs(o, Begin(NamespaceOf(n), Active))
    BY <1>6 DEF StartNamespace, CallIs, NamespaceTypeOK
  <2>2. [r \in Resource |-> "unset"] \in Limits
    BY DEF Limits
  <2> DEFINE b == Begin(NamespaceOf(n), Active)
  <2>3. b \in Call /\ b.step = "get" /\ b.key = NamespaceOf(n) /\ b.key \in Key /\ b.want = Active
    BY <2>2, NamespaceCalls, NamespaceKeys
  <2> HIDE DEF b
  <2>4. TypeOK' /\ call'[o] = b
    BY <1>5, <2>1, <2>3 DEF b
  <2>5. Shape(o)'
    BY <1>6, <2>1, <2>3, <2>4 DEF StartNamespace, Shape, NamespaceTypeOK
  <2>6. QED
    BY <1>1, <1>2, <1>4, <2>4, <2>5
<1>7. CASE ReadQuota(o)
  <2> DEFINE n == cur[o]
             g == [NoCall EXCEPT !.step = "get", !.key = QuotaOf(n),
                                 !.want = QuotaWanted(snap[o][n])]
  <2>1. n \in Namespace /\ snap[o][n] \in Limits
    BY <1>7 DEF ReadQuota, Shape, NamespaceTypeOK
  <2>2. CallIs(o, g)
    BY <1>7 DEF ReadQuota, CallIs
  <2>3. /\ g \in Call /\ g.step = "get" /\ g.key = QuotaOf(n) /\ g.key \in Key
        /\ g.want = QuotaWanted(snap[o][n])
    BY <2>1, NamespaceCalls, NamespaceKeys
  <2> HIDE DEF g
  <2>4. TypeOK' /\ call'[o] = g
    BY <1>5, <2>2, <2>3
  <2>5. stage'[o] = "quota" /\ cur'[o] = n /\ snap'[o] = snap[o]
    BY <1>7 DEF ReadQuota, NamespaceTypeOK
  <2>6. Shape(o)'
    BY <2>1, <2>3, <2>4, <2>5 DEF Shape
  <2>7. QED
    BY <1>1, <1>2, <1>4, <2>4, <2>6
<1>8. CASE RemoveQuota(o)
  <2> DEFINE d == [call[o] EXCEPT !.step = "delete", !.fresh = FALSE]
  <2>1. call[o] \in Call /\ call[o].key \in Key /\ stage[o] = "quota" /\ call[o].want = None
    BY <1>8 DEF RemoveQuota, NamespaceTypeOK, TypeOK
  <2>2. /\ d \in Call /\ d.step = "delete" /\ d.key = call[o].key /\ d.want = call[o].want
    BY <2>1 DEF Call, Writing
  <2>3. CallIs(o, d)
    BY <1>8, <2>1 DEF RemoveQuota, CallIs, NamespaceTypeOK, TypeOK, Call
  <2> HIDE DEF d
  <2>4. TypeOK' /\ call'[o] = d
    BY <1>5, <2>1, <2>2, <2>3
  <2>5. stage'[o] = "quota" /\ cur'[o] = cur[o] /\ snap'[o] = snap[o]
    BY <1>8, <2>1 DEF RemoveQuota, syncVars
  <2>6. Shape(o)'
    BY <2>1, <2>2, <2>4, <2>5 DEF Shape
  <2>7. QED
    BY <1>1, <1>2, <1>4, <2>4, <2>6
<1>9. QED
  BY <1>6, <1>7, <1>8

LEMMA ReportsStay ==
    ASSUME NsInv, NEW o \in Operator, ReportSynced(o) \/ ReportError(o)
    PROVE  TypeOK' /\ HydraTypes' /\ SpentTypes' /\ LoopTypes' /\ \A p \in Operator : Shape(p)'
<1> USE DEF NsInv
<1>1. PICK status \in {"synced", "error"} : NextNamespace(o, status)
  BY DEF ReportSynced, ReportError
<1>2. stage[o] \in {"namespace", "quota"}
  BY DEF ReportSynced, ReportError, Succeeded, Failed, Shape, NamespaceTypeOK
<1>3. cur[o] \in Namespace
  BY <1>2 DEF Shape
<1>4. HydraTypes' /\ SpentTypes'
  BY <1>1, <1>3, PutTypes DEF NextNamespace, Subject
<1>5. LoopTypes'
  <2>1. synced' \in [Operator -> Nat]
    BY DEF ReportSynced, ReportError, NamespaceTypeOK
  <2>2. QED
    BY <1>1, <2>1 DEF NextNamespace, NamespaceTypeOK, LoopTypes
<1>6. [r \in Resource |-> "unset"] \in Limits
  BY DEF Limits
<1>7. NoCall \in Call /\ NoCall.step = "none" /\ NoCall.key = None
  BY <1>3, <1>6, NamespaceCalls
<1>8. CallIs(o, NoCall)
  BY <1>1 DEF NextNamespace, CallIs
<1>9. TypeOK' /\ call'[o] = NoCall /\ \A p \in Operator \ {o} : call'[p] = call[p]
  BY <1>7, <1>8, CallIsType DEF NamespaceTypeOK
<1>10. Shape(o)'
  BY <1>1, <1>7, <1>9 DEF NextNamespace, Shape, NamespaceTypeOK
<1>11. \A p \in Operator \ {o} : Shape(p)'
  BY <1>1, <1>9 DEF NextNamespace, Shape, NamespaceTypeOK
<1>12. QED
  BY <1>4, <1>5, <1>9, <1>10, <1>11

\* Calls that go on leave the shape alone.
LEMMA ShapeGoesOn ==
    ASSUME NEW o \in Operator, Shape(o), CallGoesOn(o) \/ CallKept(o), UNCHANGED syncVars,
           call[o] \in Call
    PROVE  Shape(o)'
<1>1. call'[o].step = "none" <=> call[o].step = "none"
  BY DEF CallGoesOn, CallKept, Leaves, Writing, Call
<1>2. QED
  BY <1>1 DEF CallGoesOn, CallKept, Shape, syncVars

LEMMA ServerStays ==
    ASSUME NsInv, (\E o \in Operator : Requests(o) \/ LoseRequest(o)) \/ ClusterStep
    PROVE  TypeOK' /\ HydraTypes' /\ SpentTypes' /\ LoopTypes' /\ \A p \in Operator : Shape(p)'
<1> USE DEF NsInv
<1>1. ServerStep /\ TypeOK
  BY NamespaceKeys, TypeParts DEF Requests, LoseRequest, ClusterStep, ServerStep, LateStep
<1>2. TypeOK'
  BY <1>1, RequestType, ClusterType DEF ServerStep
<1>3. SpentTypes'
  BY SpentStays DEF Requests, LoseRequest, ClusterStep
<1>4. UNCHANGED <<syncVars, hydraVars>>
  BY DEF Requests, LoseRequest, ClusterStep
<1>5. HydraTypes' /\ LoopTypes'
  BY <1>4 DEF hydraVars, reportVars, syncVars, NamespaceTypeOK, HydraTypes, LoopTypes
<1>6. \A p \in Operator : Shape(p)'
  BY <1>1, <1>4, ServerEffect, ShapeGoesOn DEF TypeOK
<1>7. QED
  BY <1>2, <1>3, <1>5, <1>6

LEMMA CrashStays ==
    ASSUME NsInv, NEW o \in Operator, Crash(o)
    PROVE  TypeOK' /\ HydraTypes' /\ SpentTypes' /\ LoopTypes' /\ \A p \in Operator : Shape(p)'
<1> USE DEF NsInv
<1>1. SpentTypes'
  BY SpentStays DEF Crash
<1>2. HydraTypes' /\ LoopTypes'
  BY DEF Crash, hydraVars, reportVars, NamespaceTypeOK, HydraTypes, LoopTypes
<1>3. NoCall \in Call /\ NoCall.step = "none" /\ NoCall.key = None
  BY ApplyAssumption DEF NoCall, Call, NoObject, Object
<1>4. call'[o] = NoCall /\ \A p \in Operator \ {o} : call'[p] = call[p]
  BY DEF Crash, NamespaceTypeOK, TypeOK
<1>5. late' \subseteq {r \in Call : r.step \in Writing /\ r.key \in Key}
  BY DEF Crash, NamespaceTypeOK, TypeOK, Writing
<1>6. TypeOK'
  BY <1>3, <1>4, <1>5 DEF Crash, NamespaceTypeOK, TypeOK
<1>7. Shape(o)'
  BY <1>3, <1>4 DEF Crash, Shape, NamespaceTypeOK
<1>8. \A p \in Operator \ {o} : Shape(p)'
  BY <1>4 DEF Crash, Shape, NamespaceTypeOK
<1>9. QED
  BY <1>1, <1>2, <1>6, <1>7, <1>8

\* The steps of the platform team and of the namespace controller.
LEMMA OutsideBecomes ==
    ASSUME TypeOK, NEW n \in Namespace, Provide(n) \/ Terminate(n) \/ Collect(n)
    PROVE  \E k \in Key, obj \in Object : Becomes(k, obj)
<1>1. {NoObject, [NoObject EXCEPT !.spec = Active], [NoObject EXCEPT !.spec = Terminating]}
        \subseteq Object
  BY NamespaceAssumption, ApplyAssumption DEF NoObject, Object
<1>2. QED
  BY <1>1, NamespaceKeys DEF Provide, Terminate, Collect

LEMMA OutsideStays ==
    ASSUME NsInv, \/ EditLimits \/ ReceiveLate
                  \/ \E n \in Namespace : Provide(n) \/ Terminate(n) \/ Collect(n)
    PROVE  TypeOK' /\ HydraTypes' /\ SpentTypes' /\ LoopTypes' /\ \A p \in Operator : Shape(p)'
<1> USE DEF NsInv
<1>1. SpentTypes'
  BY SpentStays DEF EditLimits, ReceiveLate, Provide, Terminate, Collect
<1>2. UNCHANGED syncVars
  BY DEF EditLimits, ReceiveLate, Provide, Terminate, Collect, Becomes
<1>3. LoopTypes'
  BY <1>2 DEF syncVars, NamespaceTypeOK, LoopTypes
<1>4. HydraTypes'
  <2>1. CASE ReceiveLate
    <3>1. PICK r \in lateReports : /\ shown' = [shown EXCEPT ![r.of] = r.says]
                                  /\ lateReports' = lateReports \ {r}
      BY <2>1 DEF ReceiveLate
    <3>2. QED
      BY <2>1, <3>1 DEF ReceiveLate, NamespaceTypeOK, HydraTypes
  <2>2. CASE ~ReceiveLate
    BY <2>2, NamespaceAssumption
       DEF EditLimits, Provide, Terminate, Collect, Becomes, hydraVars, reportVars, NamespaceTypeOK,
           HydraTypes
  <2>3. QED
    BY <2>1, <2>2
<1>5. TypeOK' /\ \A p \in Operator : CallKept(p)
  <2>1. CASE EditLimits \/ ReceiveLate
    BY <2>1 DEF EditLimits, ReceiveLate, vars, NamespaceTypeOK, TypeOK, CallKept
  <2>2. CASE \E n \in Namespace : Provide(n) \/ Terminate(n) \/ Collect(n)
    BY <2>2, OutsideBecomes, BecomesType DEF NamespaceTypeOK
  <2>3. QED
    BY <2>1, <2>2
<1>6. \A p \in Operator : Shape(p)'
  BY <1>2, <1>5, ShapeGoesOn DEF NamespaceTypeOK, TypeOK
<1>7. QED
  BY <1>1, <1>3, <1>4, <1>5, <1>6

\* Every step keeps the types and the shape.
LEMMA NsInvStays == ASSUME NsInv, [NamespaceNext]_nsVars PROVE NsInv'
<1>1. CASE NamespaceNext
  <2>1. witnessed' \in [Operator -> BOOLEAN]
    BY <1>1 DEF NamespaceNext, Watch, AsWanted
  <2>2. TypeOK' /\ HydraTypes' /\ SpentTypes' /\ LoopTypes' /\ \A p \in Operator : Shape(p)'
    BY <1>1, LoopStays, CallsStay, ReportsStay, ServerStays, CrashStays, OutsideStays
       DEF NamespaceNext, Sync, Outside
  <2>3. QED
    BY <2>1, <2>2, TypeParts DEF NsInv, NamespaceTypeOK, HydraTypes, SpentTypes, LoopTypes
<1>2. CASE UNCHANGED nsVars
  BY <1>2 DEF nsVars, vars, syncVars, hydraVars, reportVars, NsInv, NamespaceTypeOK, TypeOK, Shape, Bound
<1>3. QED
  BY <1>1, <1>2

LEMMA NamespaceStarts == NamespaceInit => NsInv
<1> SUFFICES ASSUME NamespaceInit
             PROVE  NsInv
  OBVIOUS
<1>1. NoObject \in Object /\ NoCall \in Call /\ [NoObject EXCEPT !.spec = Active] \in Object
  BY NamespaceAssumption, ApplyAssumption DEF NoObject, Object, NoCall, Call
<1>2. TypeOK
  BY <1>1 DEF NamespaceInit, TypeOK, NoCall
<1>3. HydraTypes /\ LoopTypes /\ witnessed \in [Operator -> BOOLEAN]
  BY NamespaceAssumption DEF NamespaceInit, HydraTypes, LoopTypes, Report
<1>4. SpentTypes
  BY NamespaceAssumption DEF NamespaceInit, SpentTypes, Bound
<1>5. \A o \in Operator : Shape(o)
  BY DEF NamespaceInit, Shape, NoCall
<1>6. QED
  BY <1>2, <1>3, <1>4, <1>5, TypeParts DEF NsInv

LEMMA NamespaceInvariant == NamespaceSpec => []NsInv
BY NamespaceStarts, NsInvStays, PTL DEF NamespaceSpec

\* Every variable of the namespace sync has its type throughout
\* (NamespaceTypeOK).
THEOREM NamespaceTypeCorrect == NamespaceSpec => []NamespaceTypeOK
<1>1. NsInv => NamespaceTypeOK
  BY DEF NsInv
<1>2. QED
  BY <1>1, NamespaceInvariant, PTL

----------------------------------------------------------------------------
(* SyncedWasTrue.  The argument: a quota is created only in a namespace     *)
(* that is there and a namespace goes only after its quota (Grounded), so   *)
(* when a quota disappears while it is being reconciled, the namespace is   *)
(* there without one at that moment.  Once the namespace has been seen,     *)
(* a reconcile that wants no quota has therefore either witnessed this, or  *)
(* the quota is still there to be deleted.                                  *)

Grounded == \A n \in Namespace : Exists(QuotaOf(n)) => Exists(NamespaceOf(n))

\* The writes that the sync makes: a namespace is only created, and only if it
\* is managed, and a quota is only deleted if none is wanted.
SyncWrite(r) ==
    /\ r.key.of = "namespace" => r.step = "create" /\ r.want = Active /\ r.key.in \in Managed
    /\ r.step = "delete" => r.want = None

LateAsSent == \A r \in late : SyncWrite(r)

\* A namespace keeps existing as long as it has a quota.
QuotaGoesFirst ==
    \A n \in Namespace :
        Exists(QuotaOf(n)) /\ Exists(NamespaceOf(n)) => Exists(NamespaceOf(n))'

Seen(o) == stage[o] = "quota" \/ (stage[o] = "namespace" /\ call[o].step \in {"update", "ok"})

Wants(o) == HasQuota(snap[o][cur[o]])

WitnessInv(o) ==
    /\ AsWanted(o) => witnessed[o]
    /\ Seen(o) /\ ~Wants(o) => witnessed[o] \/ Exists(QuotaOf(cur[o]))
    /\ stage[o] = "quota" /\ call[o].step = "delete" => ~Wants(o)
    /\ stage[o] = "quota" /\ call[o].step = "ok" => witnessed[o]
    /\ stage[o] = "quota" /\ call[o].step = "create" /\ ~Wants(o) => witnessed[o]

\* What a change of one object has to respect.
LEMMA ChangeGrounded ==
    ASSUME TypeOK, Grounded, NEW k \in Key, NEW obj, store' = [store EXCEPT ![k] = obj],
           \A n \in Namespace :
             /\ k = NamespaceOf(n) /\ Exists(QuotaOf(n)) => obj.spec # None
             /\ k = QuotaOf(n) /\ obj.spec # None => Exists(NamespaceOf(n))
    PROVE  Grounded' /\ QuotaGoesFirst
<1>1. ASSUME NEW j \in Key
      PROVE  store'[j] = IF j = k THEN obj ELSE store[j]
  BY DEF TypeOK
<1>2. \A n, m \in Namespace : NamespaceOf(n) # QuotaOf(m)
  BY NamespaceKeys
<1>3. ASSUME NEW n \in Namespace, Exists(QuotaOf(n))'
      PROVE  Exists(NamespaceOf(n))'
  BY <1>1, <1>2, <1>3, NamespaceKeys DEF Grounded, Exists
<1>4. ASSUME NEW n \in Namespace, Exists(QuotaOf(n)), Exists(NamespaceOf(n))
      PROVE  Exists(NamespaceOf(n))'
  BY <1>1, <1>4, NamespaceKeys DEF Exists
<1>5. QED
  BY <1>3, <1>4 DEF Grounded, QuotaGoesFirst

\* A write that is executed respects it.
LEMMA ExecutedGrounded ==
    ASSUME TypeOK, Grounded, NEW r \in Call, r.key \in Key, r.step \in Writing, Executes(r),
           r.key.of = "namespace" => r.step = "create",
           store' = [store EXCEPT ![r.key] = Written(r)]
    PROVE  Grounded' /\ QuotaGoesFirst
<1>1. Written(r).spec = IF r.step = "delete" THEN None ELSE r.want
  BY WrittenSpec DEF TypeOK
<1>2. Active # None
  BY NamespaceAssumption, ApplyAssumption
<1>3. ASSUME NEW n \in Namespace, r.key = NamespaceOf(n), Exists(QuotaOf(n))
      PROVE  Written(r).spec # None
  <2>1. r.step = "create" /\ ~Exists(NamespaceOf(n))
    BY <1>3, NamespaceKeys DEF Executes, Accepts
  <2>2. QED
    BY <1>3, <2>1 DEF Grounded
<1>4. ASSUME NEW n \in Namespace, r.key = QuotaOf(n), Written(r).spec # None
      PROVE  Exists(NamespaceOf(n))
  <2>1. CASE r.step = "create"
    BY <1>2, <1>4, <2>1, NamespaceKeys DEF Executes, Exists
  <2>2. CASE r.step = "update"
    BY <1>4, <2>2 DEF Executes, Accepts, Grounded
  <2>3. QED
    BY <1>1, <1>4, <2>1, <2>2 DEF Writing
<1>5. QED
  BY <1>3, <1>4, ChangeGrounded

\* What the sync sends is such a write.
LEMMA SendsWrite ==
    ASSUME NsInv, NEW o \in Operator, Sends(o), call[o].step \in Writing
    PROVE  SyncWrite(call[o])
<1>1. stage[o] \in {"namespace", "quota"}
  BY DEF NsInv, NamespaceTypeOK, Shape, Writing
<1>2. cur[o] \in Namespace
  BY <1>1 DEF NsInv, Shape
<1>3. CASE stage[o] = "namespace"
  BY <1>2, <1>3, NamespaceKeys DEF NsInv, Shape, Sends, SyncWrite
<1>4. CASE stage[o] = "quota"
  BY <1>2, <1>4, NamespaceKeys DEF NsInv, Shape, SyncWrite
<1>5. QED
  BY <1>1, <1>3, <1>4

\* The requests that were given up on, after a step.
LEMMA LateStays ==
    ASSUME NsInv, LateAsSent, NamespaceNext
    PROVE  LateAsSent'
<1>1. TypeOK
  BY DEF NsInv, NamespaceTypeOK
<1>2. ASSUME NEW k, NEW obj, NEW requests \in SUBSET late, Change(k, obj, requests)
      PROVE  LateAsSent'
  <2>1. ASSUME NEW q \in late'
        PROVE  SyncWrite(q)
    <3>1. PICK r \in requests : q = Outdated(r, k, obj)
      BY <1>2 DEF Change
    <3>2. q.key = r.key /\ q.step = r.step /\ q.want = r.want
      BY <1>1, <3>1, OutdatedType DEF TypeOK
    <3>3. QED
      BY <3>2 DEF LateAsSent, SyncWrite
  <2>2. QED
    BY <2>1 DEF LateAsSent
<1>3. ASSUME NEW o \in Operator, Sends(o), call[o].step \in Writing, late' = late \cup {call[o]}
      PROVE  LateAsSent'
  BY <1>3, SendsWrite DEF LateAsSent
<1>4. ASSUME late' \subseteq late
      PROVE  LateAsSent'
  BY <1>4 DEF LateAsSent
<1>5. CASE Outside
  <2>1. CASE EditLimits \/ ReceiveLate
    BY <1>4, <2>1 DEF EditLimits, ReceiveLate, vars
  <2>2. CASE ClusterStep
    BY <1>2, <1>4, <2>2 DEF ClusterStep, LateLand, LateDrop, Observe
  <2>3. CASE \E n \in Namespace : Provide(n) \/ Terminate(n) \/ Collect(n)
    BY <1>2, <2>3 DEF Provide, Terminate, Collect, Becomes
  <2>4. QED
    BY <1>5, <2>1, <2>2, <2>3 DEF Outside
<1>6. ASSUME NEW o \in Operator, Sync(o)
      PROVE  LateAsSent'
  <2>1. CASE Requests(o)
    BY <1>2, <1>4, <2>1 DEF Requests, Get, Land, Fail
  <2>2. CASE ~Requests(o)
    BY <1>4, <1>6, <2>2 DEF Sync, PullNamespaces, StartNamespace, ReadQuota, RemoveQuota,
                            ReportSynced, ReportError, NextNamespace, ReportCount, vars
  <2>3. QED
    BY <2>1, <2>2
<1>7. ASSUME NEW o \in Operator, LoseRequest(o)
      PROVE  LateAsSent'
  BY <1>3, <1>4, <1>7 DEF LoseRequest, Fail, Abandon, Writing
<1>8. ASSUME NEW o \in Operator, Crash(o)
      PROVE  LateAsSent'
  BY <1>3, <1>4, <1>8 DEF Crash
<1>9. QED
  BY <1>5, <1>6, <1>7, <1>8 DEF NamespaceNext

\* No step leaves a quota without its namespace.
LEMMA GroundedStays ==
    ASSUME NsInv, LateAsSent, Grounded, NamespaceNext
    PROVE  Grounded' /\ QuotaGoesFirst
<1>1. TypeOK
  BY DEF NsInv, NamespaceTypeOK
<1>2. ASSUME UNCHANGED store
      PROVE  Grounded' /\ QuotaGoesFirst
  BY <1>2 DEF Grounded, QuotaGoesFirst, Exists
<1>3. CASE Outside
  <2>1. CASE EditLimits \/ ReceiveLate
    BY <1>2, <2>1 DEF EditLimits, ReceiveLate, vars
  <2>2. CASE ClusterStep
    <3>1. ASSUME NEW r \in late, Executes(r), LateLand(r)
          PROVE  Grounded' /\ QuotaGoesFirst
      BY <1>1, <3>1, ExecutedGrounded DEF LateLand, Change, TypeOK, LateAsSent, SyncWrite
    <3>2. ASSUME NEW n \in Namespace, Observe(QuotaOf(n))
          PROVE  Grounded' /\ QuotaGoesFirst
      <4>1. PICK x \in Readiness :
               store' = [store EXCEPT ![QuotaOf(n)] =
                           [store[QuotaOf(n)] EXCEPT !.ready = x, !.seen = store[QuotaOf(n)].spec]]
        BY <3>2 DEF Observe, Change
      <4>2. store[QuotaOf(n)] \in Object
        BY <1>1, NamespaceKeys DEF TypeOK
      <4>3. \A k \in Key : Exists(k)' = Exists(k)
        BY <1>1, <4>1, <4>2 DEF Exists, Object, TypeOK
      <4>4. QED
        BY <4>3, NamespaceKeys DEF Grounded, QuotaGoesFirst
    <3>3. QED
      BY <1>2, <2>2, <3>1, <3>2 DEF ClusterStep, LateDrop
  <2>3. ASSUME NEW n \in Namespace, Provide(n) \/ Terminate(n) \/ Collect(n)
        PROVE  Grounded' /\ QuotaGoesFirst
    <3>1. Active # None /\ Terminating # None
      BY NamespaceAssumption, ApplyAssumption
    <3>2. ASSUME NEW w, w # None,
                 store' = [store EXCEPT ![NamespaceOf(n)] = [NoObject EXCEPT !.spec = w]]
          PROVE  Grounded' /\ QuotaGoesFirst
      <4> DEFINE obj == [NoObject EXCEPT !.spec = w]
      <4>1. obj.spec # None
        BY <3>2 DEF NoObject
      <4> HIDE DEF obj
      <4>2. store' = [store EXCEPT ![NamespaceOf(n)] = obj]
        BY <3>2 DEF obj
      <4>3. NamespaceOf(n) \in Key /\ \A m \in Namespace : NamespaceOf(n) # QuotaOf(m)
        BY NamespaceKeys
      <4>4. QED
        BY <1>1, <4>1, <4>2, <4>3, ChangeGrounded
    <3>3. CASE Provide(n)
      BY <3>1, <3>2, <3>3 DEF Provide, Becomes, Change
    <3>4. CASE Terminate(n)
      BY <3>1, <3>2, <3>4 DEF Terminate, Becomes, Change
    <3>5. CASE Collect(n)
      <4> DEFINE k == IF Exists(QuotaOf(n)) THEN QuotaOf(n) ELSE NamespaceOf(n)
      <4>1. store' = [store EXCEPT ![k] = NoObject] /\ k \in Key
        BY <3>5, NamespaceKeys DEF Collect, Becomes, Change
      <4>2. \A m \in Namespace : k = NamespaceOf(m) => ~Exists(QuotaOf(m))
        BY NamespaceKeys
      <4> HIDE DEF k
      <4>3. NoObject.spec = None
        BY DEF NoObject
      <4>4. QED
        BY <1>1, <4>1, <4>2, <4>3, ChangeGrounded
    <3>6. QED
      BY <2>3, <3>3, <3>4, <3>5
  <2>4. QED
    BY <1>3, <2>1, <2>2, <2>3 DEF Outside
<1>4. ASSUME NEW o \in Operator, Sync(o) \/ LoseRequest(o) \/ Crash(o)
      PROVE  Grounded' /\ QuotaGoesFirst
  <2>1. CASE Sends(o) /\ Executes(call[o]) /\ Land(o)
    <3>1. call[o] \in Call /\ call[o].step \in Writing /\ call[o].key \in Key
      BY <1>1, <2>1 DEF Land, TypeOK, Writing
    <3>2. store' = [store EXCEPT ![call[o].key] = Written(call[o])]
      BY <2>1 DEF Land, Change
    <3>3. QED
      BY <1>1, <2>1, <3>1, <3>2, SendsWrite, ExecutedGrounded DEF SyncWrite
  <2>2. CASE UNCHANGED store
    BY <1>2, <2>2
  <2>3. QED
    BY <1>4, <2>1, <2>2
       DEF Sync, Requests, LoseRequest, Crash, PullNamespaces, StartNamespace, ReadQuota,
           RemoveQuota, ReportSynced, ReportError, NextNamespace, ReportCount, vars, Get, Fail,
           Abandon
<1>5. QED
  BY <1>3, <1>4 DEF NamespaceNext

\* What the history variable records.
LEMMA Watched ==
    ASSUME Watch, NEW o \in Operator
    PROVE  /\ AsWanted(o)' => witnessed'[o]
           /\ witnessed[o] /\ cur'[o] # None => witnessed'[o]
BY DEF Watch

\* The operator's loop stays where it is.
Stays(o) == stage'[o] = stage[o] /\ cur'[o] = cur[o] /\ snap'[o] = snap[o]

\* A reconcile that wants no quota and has seen the namespace has witnessed
\* the namespace without one, or the quota is still there.
LEMMA SeenStays ==
    ASSUME NsInv, NsInv', Grounded, QuotaGoesFirst, Watch, NEW o \in Operator,
           cur[o] \in Namespace, cur'[o] = cur[o], snap'[o] = snap[o], ~Wants(o),
           witnessed[o] \/ Exists(QuotaOf(cur[o]))
    PROVE  witnessed'[o] \/ Exists(QuotaOf(cur[o]))'
<1> DEFINE n == cur[o]
<1>1. n # None /\ snap[o][n] \in Limits
  BY NamespaceAssumption DEF NsInv, NamespaceTypeOK
<1>2. CASE witnessed[o]
  BY <1>1, <1>2, Watched
<1>3. CASE Exists(QuotaOf(n)) /\ store'[QuotaOf(n)].spec = None
  <2>1. Exists(NamespaceOf(n))'
    BY <1>3 DEF Grounded, QuotaGoesFirst
  <2>2. Enforces(None, snap[o][n])
    BY <1>1, QuotaWantedEnforces DEF Wants
  <2>3. AsWanted(o)'
    BY <1>1, <1>3, <2>1, <2>2 DEF AsWanted, InForce
  <2>4. QED
    BY <2>3, Watched
<1>4. QED
  BY <1>2, <1>3 DEF Exists

\* A step that leaves operator o's own call alone keeps its part.
LEMMA WitnessKept ==
    ASSUME NsInv, NsInv', Grounded, QuotaGoesFirst, Watch, NEW o \in Operator, WitnessInv(o),
           Stays(o), CallKept(o)
    PROVE  WitnessInv(o)'
<1>1. stage[o] \in {"namespace", "quota"} => cur[o] \in Namespace /\ cur[o] # None
  BY NamespaceAssumption DEF NsInv, Shape
<1>2. AsWanted(o)' => witnessed'[o]
  BY Watched
<1>3. Wants(o)' = Wants(o) /\ Seen(o)' = Seen(o)
  BY DEF Wants, Seen, Stays, CallKept
<1>4. ASSUME Seen(o), ~Wants(o)
      PROVE  witnessed'[o] \/ Exists(QuotaOf(cur[o]))'
  <2>1. cur[o] \in Namespace /\ (witnessed[o] \/ Exists(QuotaOf(cur[o])))
    BY <1>1, <1>4 DEF Seen, WitnessInv
  <2>2. QED
    BY <1>4, <2>1, SeenStays DEF Stays
<1>5. witnessed[o] /\ stage[o] = "quota" => witnessed'[o]
  BY <1>1, Watched DEF Stays
<1>6. QED
  BY <1>2, <1>3, <1>4, <1>5 DEF WitnessInv, Stays, CallKept

\* A namespace that is there without a quota is witnessed, or its quota is there.
LEMMA NamespaceSeen ==
    ASSUME NsInv, NsInv', Watch, NEW o \in Operator, Stays(o), cur[o] \in Namespace, ~Wants(o),
           \/ Exists(NamespaceOf(cur[o])) /\ UNCHANGED store /\ WitnessInv(o)
           \/ Exists(NamespaceOf(cur[o]))'
    PROVE  witnessed'[o] \/ Exists(QuotaOf(cur[o]))'
<1> DEFINE n == cur[o]
<1>1. n # None /\ snap[o][n] \in Limits /\ cur'[o] = n /\ snap'[o][n] = snap[o][n]
  BY NamespaceAssumption DEF NsInv, NamespaceTypeOK, Stays
<1>2. Enforces(None, snap[o][n])
  BY <1>1, QuotaWantedEnforces DEF Wants
<1>3. Exists(NamespaceOf(n))'
  BY <1>1 DEF Exists
<1>4. CASE store'[QuotaOf(n)].spec = None
  <2>1. AsWanted(o)'
    BY <1>1, <1>2, <1>3, <1>4 DEF AsWanted, InForce
  <2>2. QED
    BY <2>1, Watched
<1>5. QED
  BY <1>1, <1>4 DEF Exists

\* A request of operator o that is read or fails keeps its part.
LEMMA WitnessAnswer ==
    ASSUME NsInv, NsInv', Grounded, QuotaGoesFirst, Watch, NEW o \in Operator, WitnessInv(o),
           Stays(o), Get(o) \/ Fail(o) \/ Abandon(o)
    PROVE  WitnessInv(o)'
<1>1. /\ call[o] \in Call /\ UNCHANGED store
      /\ cur'[o] = cur[o] /\ snap'[o] = snap[o] /\ stage'[o] = stage[o]
  BY DEF NsInv, NamespaceTypeOK, TypeOK, Get, Fail, Abandon, Stays
<1>2. AsWanted(o)' => witnessed'[o]
  BY Watched
<1>3. Wants(o)' = Wants(o)
  BY <1>1 DEF Wants
<1>4. stage[o] \in {"namespace", "quota"}
  BY DEF NsInv, NamespaceTypeOK, Shape, Get, Fail, Abandon, Writing
<1>5. cur[o] \in Namespace /\ cur[o] # None
  BY <1>4, NamespaceAssumption DEF NsInv, Shape
<1>6. /\ stage[o] = "namespace" => call[o].key = NamespaceOf(cur[o])
      /\ stage[o] = "quota" => call[o].key = QuotaOf(cur[o])
  BY DEF NsInv, Shape
<1>7. ASSUME stage[o] = "quota", ~Wants(o)
      PROVE  witnessed'[o] \/ Exists(QuotaOf(cur[o]))'
  BY <1>1, <1>5, <1>7, SeenStays DEF WitnessInv, Seen
<1>8. CASE Get(o)
  <2>1. call'[o].step = IF Exists(call[o].key) THEN "update" ELSE "create"
    BY <1>1, <1>8 DEF Get, NsInv, NamespaceTypeOK, TypeOK, Call
  <2>2. ASSUME stage[o] = "namespace", call'[o].step = "update", ~Wants(o)
        PROVE  witnessed'[o] \/ Exists(QuotaOf(cur[o]))'
    BY <1>1, <1>5, <1>6, <2>1, <2>2, NamespaceSeen
  <2>3. ASSUME stage[o] = "quota", call'[o].step = "create", ~Wants(o)
        PROVE  witnessed'[o]
    <3>1. ~Exists(QuotaOf(cur[o])) /\ Seen(o)
      BY <1>6, <2>1, <2>3 DEF Seen
    <3>2. witnessed[o]
      BY <2>3, <3>1 DEF WitnessInv
    <3>3. QED
      BY <1>1, <1>5, <3>2, Watched
  <2>4. QED
    BY <1>1, <1>2, <1>3, <1>7, <2>1, <2>2, <2>3 DEF WitnessInv, Seen
<1>9. CASE Fail(o) \/ Abandon(o)
  <2>1. call'[o].step = "failed"
    <3>1. GiveUp(o) /\ call \in [Operator -> Call]
      BY <1>9 DEF Fail, Abandon, NsInv, NamespaceTypeOK, TypeOK
    <3>2. QED
      BY <1>1, <3>1 DEF GiveUp, Call
  <2>2. QED
    BY <1>1, <1>2, <1>3, <1>7, <2>1 DEF WitnessInv, Seen
<1>10. QED
  BY <1>8, <1>9

\* So does a write of operator o that is executed.
LEMMA WitnessLand ==
    ASSUME NsInv, NsInv', Grounded, Grounded', QuotaGoesFirst, Watch, NEW o \in Operator,
           WitnessInv(o), Stays(o), Sends(o), Executes(call[o]), Land(o)
    PROVE  WitnessInv(o)'
<1> DEFINE n == cur[o]
           r == call[o]
<1>1. r \in Call /\ r.step \in Writing /\ r.key \in Key /\ store \in [Key -> Object]
  BY DEF NsInv, NamespaceTypeOK, TypeOK, Land, Writing
<1>2. cur'[o] = n /\ snap'[o] = snap[o] /\ stage'[o] = stage[o]
  BY DEF Stays
<1>3. AsWanted(o)' => witnessed'[o]
  BY Watched
<1>4. Wants(o)' = Wants(o)
  BY <1>2 DEF Wants
<1>5. stage[o] \in {"namespace", "quota"}
  BY <1>1 DEF NsInv, NamespaceTypeOK, Shape, Writing
<1>6. n \in Namespace /\ n # None /\ snap[o][n] \in Limits
  BY <1>5, NamespaceAssumption DEF NsInv, NamespaceTypeOK, Shape
<1>7. call'[o].step = "ok"
  BY <1>1 DEF Land, Call
<1>8. store'[r.key].spec = IF r.step = "delete" THEN None ELSE r.want
  <2>1. store'[r.key] = Written(r)
    BY <1>1 DEF Land, Change
  <2>2. QED
    BY <1>1, <2>1, WrittenSpec
<1>9. CASE stage[o] = "namespace"
  <2>1. r.step = "create" /\ r.key = NamespaceOf(n) /\ r.want = Active
    BY <1>9 DEF NsInv, Shape, Sends
  <2>2. Active # None
    BY NamespaceAssumption, ApplyAssumption
  <2>3. Exists(NamespaceOf(cur[o]))'
    BY <1>2, <1>8, <2>1, <2>2 DEF Exists
  <2>4. ~Wants(o) => witnessed'[o] \/ Exists(QuotaOf(cur[o]))'
    BY <1>6, <2>3, NamespaceSeen
  <2>5. QED
    BY <1>2, <1>3, <1>4, <1>7, <1>9, <2>4 DEF WitnessInv
<1>10. CASE stage[o] = "quota"
  <2>1. r.key = QuotaOf(n) /\ r.want = QuotaWanted(snap[o][n])
    BY <1>10 DEF NsInv, Shape
  <2>2. CASE Wants(o)
    <3>1. r.want # None /\ r.step # "delete"
      BY <1>6, <1>10, <2>1, <2>2, QuotaWantedEnforces DEF Wants, WitnessInv
    <3>2. store'[QuotaOf(n)].spec = QuotaWanted(snap[o][n])
      BY <1>8, <2>1, <3>1
    <3>3. Enforces(store'[QuotaOf(n)].spec, snap[o][n])
      BY <1>6, <3>2, QuotaWantedEnforces
    <3>4. Exists(QuotaOf(cur[o]))'
      BY <1>2, <2>1, <3>1, <3>2 DEF Exists
    <3>5. Exists(NamespaceOf(cur[o]))'
      BY <1>2, <1>6, <3>4 DEF Grounded
    <3>6. AsWanted(o)'
      BY <1>2, <1>6, <3>3, <3>5 DEF AsWanted, InForce
    <3>7. QED
      BY <1>2, <1>3, <1>4, <1>7, <1>10, <2>2, <3>6 DEF WitnessInv
  <2>3. CASE ~Wants(o)
    <3>1. r.step = "delete"
      BY <1>6, <1>10, <2>1, <2>3, QuotaWantedEnforces DEF Wants, Sends
    <3>2. ~Exists(QuotaOf(cur[o]))'
      BY <1>2, <1>8, <2>1, <3>1 DEF Exists
    <3>3. witnessed[o] \/ Exists(QuotaOf(cur[o]))
      BY <1>10, <2>3 DEF WitnessInv, Seen
    <3>4. witnessed'[o]
      BY <1>2, <1>6, <2>3, <3>2, <3>3, SeenStays
    <3>5. QED
      BY <1>2, <1>3, <1>4, <1>7, <2>3, <3>4 DEF WitnessInv
  <2>4. QED
    BY <2>2, <2>3
<1>11. QED
  BY <1>5, <1>9, <1>10

\* So do the other steps of operator o.
LEMMA WitnessLoop ==
    ASSUME NsInv, NsInv', Grounded, QuotaGoesFirst, Watch, NEW o \in Operator, WitnessInv(o),
           \/ PullNamespaces(o) \/ StartNamespace(o) \/ ReadQuota(o) \/ RemoveQuota(o)
           \/ ReportSynced(o) \/ ReportError(o) \/ ReportCount(o) \/ Crash(o)
    PROVE  WitnessInv(o)'
<1>1. AsWanted(o)' => witnessed'[o]
  BY Watched
<1>2. CASE \/ PullNamespaces(o) \/ ReportSynced(o) \/ ReportError(o) \/ ReportCount(o)
           \/ Crash(o)
  <2>1. stage'[o] \in {"idle", "loop"}
    BY <1>2 DEF PullNamespaces, ReportSynced, ReportError, NextNamespace, ReportCount, Crash,
                NsInv, NamespaceTypeOK
  <2>2. QED
    BY <1>1, <2>1 DEF WitnessInv, Seen
<1>3. CASE StartNamespace(o)
  <2>1. stage'[o] = "namespace" /\ call'[o].step = "get"
    <3>1. PICK n \in todo[o] : call' = [call EXCEPT ![o] = Begin(NamespaceOf(n), Active)]
      BY <1>3 DEF StartNamespace
    <3>2. Active # None
      BY NamespaceAssumption, ApplyAssumption
    <3>3. Begin(NamespaceOf(n), Active).step = "get"
      BY <3>2 DEF Begin, NoCall
    <3>4. QED
      BY <1>3, <3>1, <3>3 DEF StartNamespace, NsInv, NamespaceTypeOK, TypeOK
  <2>2. QED
    BY <1>1, <2>1 DEF WitnessInv, Seen
<1>4. CASE ReadQuota(o)
  <2>1. /\ stage'[o] = "quota" /\ cur'[o] = cur[o] /\ snap'[o] = snap[o]
        /\ UNCHANGED store /\ stage[o] = "namespace" /\ NamespaceThere(o)
    BY <1>4 DEF ReadQuota, NsInv, NamespaceTypeOK
  <2>2. call'[o].step = "get"
    BY <1>4 DEF ReadQuota, NoCall, NsInv, NamespaceTypeOK, TypeOK
  <2>3. cur[o] \in Namespace /\ cur[o] # None /\ call[o].key = NamespaceOf(cur[o])
    BY <2>1, NamespaceAssumption DEF NsInv, Shape
  <2>4. cur[o] # None /\ AsWanted(o) => witnessed'[o]
    BY <2>1, Watched DEF WitnessInv
  <2>5. ASSUME ~Wants(o)
        PROVE  witnessed'[o] \/ Exists(QuotaOf(cur[o]))'
    <3>1. CASE Seen(o)
      BY <2>1, <2>3, <2>5, <3>1, SeenStays DEF WitnessInv
    <3>2. CASE ~Seen(o)
      <4>1. Exists(NamespaceOf(cur[o]))
        BY <2>1, <2>3, <3>2 DEF NamespaceThere, Seen
      <4>2. Enforces(None, snap[o][cur[o]])
        BY <2>3, <2>5, QuotaWantedEnforces DEF Wants, NsInv, NamespaceTypeOK
      <4>3. CASE store[QuotaOf(cur[o])].spec = None
        BY <2>3, <2>4, <4>1, <4>2, <4>3 DEF AsWanted, InForce
      <4>4. CASE store[QuotaOf(cur[o])].spec # None
        BY <2>1, <4>4 DEF Exists
      <4>5. QED
        BY <4>3, <4>4
    <3>3. QED
      BY <3>1, <3>2
  <2>6. Wants(o)' = Wants(o)
    BY <2>1 DEF Wants
  <2>7. QED
    BY <1>1, <2>1, <2>2, <2>5, <2>6 DEF WitnessInv
<1>5. CASE RemoveQuota(o)
  <2>1. /\ stage[o] = "quota" /\ stage'[o] = "quota" /\ cur'[o] = cur[o] /\ snap'[o] = snap[o]
        /\ UNCHANGED store /\ call[o].want = None
    BY <1>5 DEF RemoveQuota, syncVars
  <2>2. call'[o].step = "delete"
    BY <1>5 DEF RemoveQuota, NsInv, NamespaceTypeOK, TypeOK, Call
  <2>3. cur[o] \in Namespace /\ snap[o][cur[o]] \in Limits
    BY <2>1 DEF NsInv, Shape, NamespaceTypeOK
  <2>4. ~Wants(o) /\ Wants(o)' = Wants(o)
    BY <2>1, <2>3, QuotaWantedEnforces DEF NsInv, Shape, Wants
  <2>5. witnessed'[o] \/ Exists(QuotaOf(cur[o]))'
    BY <2>1, <2>3, <2>4, SeenStays DEF WitnessInv, Seen
  <2>6. QED
    BY <1>1, <2>1, <2>2, <2>4, <2>5 DEF WitnessInv
<1>6. QED
  BY <1>2, <1>3, <1>4, <1>5

\* A step of operator o leaves the calls of the others alone, or makes them
\* stale; so does a step of the rest of the world.
LEMMA OthersKept ==
    ASSUME NsInv, NEW o \in Operator, NEW p \in Operator \ {o},
           Sync(o) \/ LoseRequest(o) \/ Crash(o)
    PROVE  Stays(p) /\ CallKept(p)
<1> USE DEF NsInv, NamespaceTypeOK, TypeOK
<1>1. Stays(p)
  <2>1. CASE PullNamespaces(o) \/ ReadQuota(o) \/ RemoveQuota(o) \/ ReportCount(o) \/ Crash(o)
    BY <2>1 DEF PullNamespaces, ReadQuota, RemoveQuota, ReportCount, Crash, Stays, syncVars
  <2>2. CASE StartNamespace(o)
    BY <2>2 DEF StartNamespace, Stays
  <2>3. CASE ReportSynced(o) \/ ReportError(o)
    BY <2>3 DEF ReportSynced, ReportError, NextNamespace, Stays
  <2>4. CASE Requests(o) \/ LoseRequest(o)
    BY <2>4 DEF Requests, LoseRequest, Stays, syncVars
  <2>5. QED
    BY <2>1, <2>2, <2>3, <2>4 DEF Sync
<1>2. call'[p] = call[p] \/ (\E k, obj : call'[p] = Outdated(call[p], k, obj))
  <2>1. CASE PullNamespaces(o) \/ ReadQuota(o) \/ RemoveQuota(o) \/ ReportCount(o) \/ Crash(o)
    BY <2>1 DEF PullNamespaces, ReadQuota, RemoveQuota, ReportCount, Crash, vars
  <2>2. CASE StartNamespace(o)
    BY <2>2 DEF StartNamespace
  <2>3. CASE ReportSynced(o) \/ ReportError(o)
    BY <2>3 DEF ReportSynced, ReportError, NextNamespace
  <2>4. CASE Get(o) \/ Fail(o) \/ Abandon(o)
    BY <2>4 DEF Get, Fail, Abandon, GiveUp
  <2>5. CASE Land(o)
    BY <2>5 DEF Land
  <2>6. QED
    BY <2>1, <2>2, <2>3, <2>4, <2>5 DEF Sync, Requests, LoseRequest
<1>3. CallKept(p)
  BY <1>2, OutdatedType DEF CallKept
<1>4. QED
  BY <1>1, <1>3

LEMMA OutsideKept ==
    ASSUME NsInv, NEW p \in Operator, Outside
    PROVE  Stays(p) /\ CallKept(p)
<1>1. UNCHANGED syncVars
  BY DEF Outside, EditLimits, ReceiveLate, ClusterStep, Provide, Terminate, Collect, Becomes
<1>2. call[p] \in Call /\ TypeOK
  BY DEF NsInv, NamespaceTypeOK, TypeOK
<1>3. call'[p] = call[p] \/ (\E k, obj : call'[p] = Outdated(call[p], k, obj))
  BY DEF Outside, EditLimits, ReceiveLate, ClusterStep, Provide, Terminate, Collect, Becomes,
         LateLand, LateDrop, Observe, vars
<1>4. CallKept(p)
  BY <1>2, <1>3, OutdatedType DEF CallKept
<1>5. QED
  BY <1>1, <1>4 DEF Stays, syncVars

SyncedInv == NsInv /\ LateAsSent /\ Grounded /\ \A o \in Operator : WitnessInv(o)

\* Every step keeps what has been witnessed.
LEMMA SyncedInvStays == ASSUME SyncedInv, [NamespaceNext]_nsVars PROVE SyncedInv'
<1> USE DEF SyncedInv
<1>1. NsInv'
  BY NsInvStays
<1>2. CASE NamespaceNext
  <2>1. LateAsSent' /\ Grounded' /\ QuotaGoesFirst /\ Watch
    BY <1>2, LateStays, GroundedStays DEF NamespaceNext
  <2>2. ASSUME NEW p \in Operator, Stays(p), CallKept(p)
        PROVE  WitnessInv(p)'
    BY <1>1, <2>1, <2>2, WitnessKept
  <2>3. CASE Outside
    BY <1>1, <2>1, <2>2, <2>3, OutsideKept
  <2>4. ASSUME NEW o \in Operator, Sync(o) \/ LoseRequest(o) \/ Crash(o)
        PROVE  \A p \in Operator : WitnessInv(p)'
    <3>1. \A p \in Operator \ {o} : WitnessInv(p)'
      BY <2>2, <2>4, OthersKept
    <3>2. WitnessInv(o)'
      <4>1. CASE \/ PullNamespaces(o) \/ StartNamespace(o) \/ ReadQuota(o) \/ RemoveQuota(o)
                 \/ ReportSynced(o) \/ ReportError(o) \/ ReportCount(o) \/ Crash(o)
        BY <1>1, <2>1, <4>1, WitnessLoop
      <4>2. CASE Requests(o) \/ LoseRequest(o)
        <5>1. Stays(o)
          BY <4>2 DEF Requests, LoseRequest, Stays, syncVars
        <5>2. CASE Get(o) \/ Fail(o) \/ Abandon(o)
          BY <1>1, <2>1, <5>1, <5>2, WitnessAnswer
        <5>3. CASE Sends(o) /\ Executes(call[o]) /\ Land(o)
          BY <1>1, <2>1, <5>1, <5>3, WitnessLand
        <5>4. QED
          BY <4>2, <5>2, <5>3 DEF Requests, LoseRequest
      <4>3. QED
        BY <2>4, <4>1, <4>2 DEF Sync
    <3>3. QED
      BY <3>1, <3>2
  <2>5. QED
    BY <1>1, <1>2, <2>1, <2>3, <2>4 DEF NamespaceNext
<1>3. CASE UNCHANGED nsVars
  BY <1>1, <1>3 DEF nsVars, vars, syncVars, LateAsSent, Grounded, WitnessInv, AsWanted, InForce,
                    Exists, Seen, Wants
<1>4. QED
  BY <1>2, <1>3

LEMMA SyncedStarts == NamespaceInit => SyncedInv
<1> SUFFICES ASSUME NamespaceInit
             PROVE  SyncedInv
  OBVIOUS
<1>1. NsInv
  BY NamespaceStarts
<1>2. \A n \in Namespace : ~Exists(QuotaOf(n))
  BY NamespaceKeys DEF NamespaceInit, Exists, NoObject
<1>3. LateAsSent /\ Grounded
  BY <1>2 DEF NamespaceInit, LateAsSent, Grounded
<1>4. \A o \in Operator : WitnessInv(o)
  BY DEF NamespaceInit, WitnessInv, AsWanted, Seen
<1>5. QED
  BY <1>1, <1>3, <1>4 DEF SyncedInv

LEMMA SyncedInvariant == NamespaceSpec => []SyncedInv
BY SyncedStarts, SyncedInvStays, PTL DEF NamespaceSpec

\* A namespace is only reported, and counted, as synced if during its
\* reconcile it was there with the limits of the snapshot that parse in force
\* (SyncedWasTrue), for any number of operators, namespaces, limits, deletions
\* and failures.
THEOREM SyncedIsTrue == NamespaceSpec => []SyncedWasTrue
<1>1. SyncedInv => SyncedWasTrue
  <2> SUFFICES ASSUME SyncedInv, NEW o \in Operator, Succeeded(o)
               PROVE  witnessed[o]
    BY DEF SyncedWasTrue
  <2>1. WitnessInv(o) /\ stage[o] = "quota"
    BY DEF SyncedInv, Succeeded
  <2>2. call[o].want = None => ~Wants(o)
    <3>1. cur[o] \in Namespace /\ snap[o][cur[o]] \in Limits
      BY <2>1 DEF SyncedInv, NsInv, Shape, NamespaceTypeOK
    <3>2. QED
      BY <2>1, <3>1, QuotaWantedEnforces DEF SyncedInv, NsInv, Shape, Wants
  <2>3. QED
    BY <2>1, <2>2 DEF WitnessInv, Succeeded
<1>2. QED
  BY <1>1, SyncedInvariant, PTL

----------------------------------------------------------------------------
(* NamespacesRespected and SettledStays.  The argument: every write that is *)
(* executed is one that the sync makes (SyncWrite), whoever still waits for *)
(* it; and no step brings a request for a quota that nobody could still ask *)
(* for, but for limits that are edited.                                     *)

\* A step of the API server executes at most one write of the sync, or the
\* quota controller reports.
LEMMA OneWrite ==
    ASSUME SyncedInv, (\E o \in Operator : Requests(o) \/ LoseRequest(o)) \/ ClusterStep
    PROVE  \/ UNCHANGED store
           \/ \E r \in Pending : /\ r \in Call /\ r.key \in Key /\ r.step \in Writing
                                 /\ SyncWrite(r) /\ Accepts(r)
                                 /\ store' = [store EXCEPT ![r.key] = Written(r)]
           \/ \E n \in Namespace, obj \in Object :
                /\ store' = [store EXCEPT ![QuotaOf(n)] = obj]
                /\ obj.spec = store[QuotaOf(n)].spec
<1> USE DEF SyncedInv, NsInv, NamespaceTypeOK
<1>1. ASSUME NEW o \in Operator, Sends(o), Executes(call[o]), Land(o)
      PROVE  \E r \in Pending : /\ r \in Call /\ r.key \in Key /\ r.step \in Writing
                                /\ SyncWrite(r) /\ Accepts(r)
                                /\ store' = [store EXCEPT ![r.key] = Written(r)]
  <2>1. call[o] \in Call /\ call[o].key \in Key /\ call[o].step \in Writing
    BY <1>1 DEF Land, TypeOK, Writing
  <2>2. SyncWrite(call[o]) /\ call[o] \in Pending
    BY <1>1, <2>1, SendsWrite DEF Pending
  <2>3. QED
    BY <1>1, <2>1, <2>2 DEF Land, Change
<1>2. ASSUME NEW r \in late, LateLand(r)
      PROVE  /\ r \in Pending /\ r \in Call /\ r.key \in Key /\ r.step \in Writing
             /\ SyncWrite(r) /\ Accepts(r)
             /\ store' = [store EXCEPT ![r.key] = Written(r)]
  BY <1>2 DEF LateLand, Change, LateAsSent, Pending, TypeOK
<1>3. ASSUME NEW n \in Namespace, Observe(QuotaOf(n))
      PROVE  \E obj \in Object : /\ store' = [store EXCEPT ![QuotaOf(n)] = obj]
                                 /\ obj.spec = store[QuotaOf(n)].spec
  <2>1. PICK x \in Readiness :
           store' = [store EXCEPT ![QuotaOf(n)] =
                       [store[QuotaOf(n)] EXCEPT !.ready = x, !.seen = store[QuotaOf(n)].spec]]
    BY <1>3 DEF Observe, Change
  <2>2. store[QuotaOf(n)] \in Object
    BY NamespaceKeys DEF TypeOK
  <2> DEFINE obj == [store[QuotaOf(n)] EXCEPT !.ready = x, !.seen = store[QuotaOf(n)].spec]
  <2>3. obj \in Object /\ obj.spec = store[QuotaOf(n)].spec
    BY <2>2 DEF Object
  <2>4. QED
    BY <2>1, <2>3
<1>4. CASE ClusterStep
  BY <1>2, <1>3, <1>4 DEF ClusterStep, LateDrop
<1>5. ASSUME NEW o \in Operator, Requests(o) \/ LoseRequest(o)
      PROVE  UNCHANGED store \/ (Sends(o) /\ Executes(call[o]) /\ Land(o))
  BY <1>5 DEF Requests, LoseRequest, Get, Fail, Abandon
<1>6. QED
  BY <1>1, <1>4, <1>5

\* A write of the sync leaves a namespace alone, or creates one that is
\* managed and missing.
LEMMA WriteRespects ==
    ASSUME TypeOK, NEW r \in Call, r.key \in Key, r.step \in Writing, SyncWrite(r), Accepts(r),
           store' = [store EXCEPT ![r.key] = Written(r)], NEW n \in Namespace
    PROVE  \/ store'[NamespaceOf(n)] = store[NamespaceOf(n)]
           \/ /\ n \in Managed /\ store[NamespaceOf(n)].spec = None
              /\ store'[NamespaceOf(n)].spec = Active
<1>1. NamespaceOf(n) \in Key /\ NamespaceOf(n).of = "namespace" /\ NamespaceOf(n).in = n
  BY NamespaceKeys
<1>2. CASE r.key = NamespaceOf(n)
  <2>1. r.step = "create" /\ r.want = Active /\ n \in Managed /\ store[NamespaceOf(n)].spec = None
    BY <1>1, <1>2 DEF SyncWrite, Accepts, Exists
  <2>2. Written(r).spec = Active
    BY <2>1, WrittenSpec DEF TypeOK
  <2>3. store'[NamespaceOf(n)] = Written(r)
    BY <1>1, <1>2 DEF TypeOK
  <2>4. QED
    BY <2>1, <2>2, <2>3
<1>3. CASE r.key # NamespaceOf(n)
  BY <1>1, <1>3 DEF TypeOK
<1>4. QED
  BY <1>2, <1>3

\* Only the API server's steps, the platform team and the namespace
\* controller touch an object.
LEMMA StoreKept ==
    ASSUME \/ \E o \in Operator : \/ PullNamespaces(o) \/ StartNamespace(o) \/ ReadQuota(o)
                                  \/ RemoveQuota(o) \/ ReportSynced(o) \/ ReportError(o)
                                  \/ ReportCount(o) \/ Crash(o)
           \/ EditLimits \/ ReceiveLate \/ UNCHANGED nsVars
    PROVE  UNCHANGED store
BY DEF PullNamespaces, StartNamespace, ReadQuota, RemoveQuota, ReportSynced, ReportError,
       NextNamespace, ReportCount, Crash, EditLimits, ReceiveLate, nsVars, vars

\* The namespaces are only touched as they may be (NamespacesRespected), for
\* any number of operators, namespaces and requests given up on.
THEOREM NamespacesAreRespected == NamespaceSpec => NamespacesRespected
<1> DEFINE Respects(n) ==
             \/ store'[NamespaceOf(n)] = store[NamespaceOf(n)]
             \/ spent'.outside # spent.outside
             \/ /\ store[NamespaceOf(n)].spec = Terminating /\ ~Exists(QuotaOf(n))
                /\ store'[NamespaceOf(n)] = NoObject
             \/ /\ n \in Managed /\ store[NamespaceOf(n)].spec = None
                /\ store'[NamespaceOf(n)].spec = Active
<1>1. SyncedInv /\ [NamespaceNext]_nsVars =>
        [\A n \in Namespace :
           LET was == store[NamespaceOf(n)]
               is == store'[NamespaceOf(n)]
           IN  \/ is = was
               \/ spent'.outside # spent.outside
               \/ was.spec = Terminating /\ ~Exists(QuotaOf(n)) /\ is = NoObject
               \/ n \in Managed /\ was.spec = None /\ is.spec = Active]_nsVars
  <2> SUFFICES ASSUME SyncedInv, [NamespaceNext]_nsVars, NEW n \in Namespace
               PROVE  Respects(n)
    OBVIOUS
  <2> USE DEF SyncedInv, NsInv, NamespaceTypeOK
  <2>1. CASE (\E o \in Operator : Requests(o) \/ LoseRequest(o)) \/ ClusterStep
    <3>1. ASSUME NEW m \in Namespace, NEW obj, store' = [store EXCEPT ![QuotaOf(m)] = obj]
          PROVE  store'[NamespaceOf(n)] = store[NamespaceOf(n)]
      BY <3>1, NamespaceKeys DEF TypeOK
    <3>2. QED
      BY <2>1, <3>1, OneWrite, WriteRespects
  <2>2. ASSUME NEW m \in Namespace, Provide(m) \/ Terminate(m)
        PROVE  spent'.outside # spent.outside
    <3>1. Spend("outside") /\ spent.outside \in Nat
      BY <2>2 DEF Provide, Terminate, Bound
    <3>2. QED
      BY <3>1 DEF Spend, Bound
  <2>3. ASSUME NEW m \in Namespace, Collect(m)
        PROVE  Respects(n)
    <3>1. CASE Exists(QuotaOf(m))
      <4>1. store' = [store EXCEPT ![QuotaOf(m)] = NoObject]
        BY <2>3, <3>1 DEF Collect, Becomes, Change
      <4>2. QED
        BY <4>1, NamespaceKeys DEF TypeOK
    <3>2. CASE ~Exists(QuotaOf(m))
      <4>1. /\ store' = [store EXCEPT ![NamespaceOf(m)] = NoObject]
            /\ store[NamespaceOf(m)].spec = Terminating
        BY <2>3, <3>2 DEF Collect, Becomes, Change
      <4>2. store \in [Key -> Object]
        BY DEF TypeOK
      <4>3. CASE m = n
        BY <3>2, <4>1, <4>2, <4>3, NamespaceKeys
      <4>4. CASE m # n
        <5>1. NamespaceOf(m) # NamespaceOf(n) /\ NamespaceOf(n) \in Key
          <6>1. NamespaceOf(m) \in Key /\ NamespaceOf(n) \in Key
            BY NamespaceKeys
          <6>2. NamespaceOf(m).in = m /\ NamespaceOf(n).in = n
            BY DEF NamespaceOf
          <6>3. QED
            BY <4>4, <6>1, <6>2
        <5>2. store'[NamespaceOf(n)] = store[NamespaceOf(n)]
          BY <4>1, <4>2, <5>1
        <5>3. QED
          BY <5>2
      <4>5. QED
        BY <4>3, <4>4
    <3>3. QED
      BY <3>1, <3>2
  <2>4. QED
    BY <2>1, <2>2, <2>3, StoreKept DEF NamespaceNext, Sync, Outside
<1>2. QED
  BY <1>1, SyncedInvariant, PTL DEF NamespaceSpec, NamespacesRespected

\* What is asked for by the requests under way.
QuotaAsks ==
    {<<r.key.in, r.want>> : r \in {q \in Pending : UnderWay(q) /\ q.key.of = "quota"}}

LEMMA AskedParts ==
    /\ Asked = QuotaAsks \cup (UNION {Ahead(o) : o \in Operator})
                 \cup {<<n, QuotaWanted(limits[n])>> : n \in Namespace}
    /\ Asked' = QuotaAsks' \cup (UNION {Ahead(o)' : o \in Operator})
                 \cup {<<n, QuotaWanted(limits'[n])>> : n \in Namespace}
BY DEF Asked, QuotaAsks, UnderWay

\* A step of an operator that is not a request leaves no more ahead of it,
\* unless it reads Hydra's limits.
LEMMA AheadShrinks ==
    ASSUME NsInv, NEW o \in Operator,
           \/ PullNamespaces(o) \/ StartNamespace(o) \/ ReadQuota(o) \/ RemoveQuota(o)
           \/ ReportSynced(o) \/ ReportError(o) \/ ReportCount(o) \/ Crash(o)
    PROVE  /\ Ahead(o)' \subseteq Ahead(o) \cup {<<n, QuotaWanted(limits[n])>> : n \in Namespace}
           /\ \A p \in Operator \ {o} : Ahead(p)' = Ahead(p)
<1> USE DEF NsInv, NamespaceTypeOK
<1>1. \A p \in Operator \ {o} : /\ stage'[p] = stage[p] /\ snap'[p] = snap[p]
                                /\ cur'[p] = cur[p] /\ todo'[p] = todo[p]
  BY DEF PullNamespaces, StartNamespace, ReadQuota, RemoveQuota, ReportSynced, ReportError,
         NextNamespace, ReportCount, Crash, syncVars
<1>2. \A p \in Operator \ {o} : Ahead(p)' = Ahead(p)
  BY <1>1 DEF Ahead
<1>3. CASE PullNamespaces(o)
  <2>1. stage'[o] = "loop" /\ snap'[o] = limits /\ todo'[o] = Namespace
    BY <1>3 DEF PullNamespaces
  <2>2. QED
    BY <1>2, <2>1 DEF Ahead
<1>4. CASE StartNamespace(o)
  <2>1. PICK n \in todo[o] : cur'[o] = n /\ todo'[o] = todo[o] \ {n}
    BY <1>4 DEF StartNamespace
  <2>2. stage[o] = "loop" /\ stage'[o] = "namespace" /\ snap'[o] = snap[o]
    BY <1>4 DEF StartNamespace
  <2>3. QED
    BY <1>2, <2>1, <2>2 DEF Ahead
<1>5. CASE \/ ReadQuota(o) \/ RemoveQuota(o) \/ ReportSynced(o) \/ ReportError(o)
           \/ ReportCount(o) \/ Crash(o)
  <2>1. snap'[o] = snap[o] /\ todo'[o] \subseteq todo[o]
    BY <1>5 DEF ReadQuota, RemoveQuota, ReportSynced, ReportError, NextNamespace, ReportCount,
                Crash, syncVars
  <2>2. stage[o] \in {"loop", "namespace", "quota"} \/ stage'[o] = "idle"
    BY <1>5 DEF ReadQuota, RemoveQuota, ReportSynced, ReportError, Succeeded, Failed, ReportCount,
                Crash, Shape
  <2>3. stage'[o] \in {"idle", "loop", "quota"}
    BY <1>5 DEF ReadQuota, RemoveQuota, ReportSynced, ReportError, NextNamespace, ReportCount,
                Crash, syncVars
  <2>4. QED
    BY <1>2, <2>1, <2>2, <2>3 DEF Ahead
<1>6. QED
  BY <1>3, <1>4, <1>5

\* The only request for a quota that such a step brings was ahead.
LEMMA QuotaAsksShrink ==
    ASSUME NsInv, NEW o \in Operator,
           \/ PullNamespaces(o) \/ StartNamespace(o) \/ ReadQuota(o) \/ RemoveQuota(o)
           \/ ReportSynced(o) \/ ReportError(o) \/ ReportCount(o) \/ Crash(o)
    PROVE  QuotaAsks' \subseteq QuotaAsks \cup Ahead(o)
<1> USE DEF NsInv, NamespaceTypeOK
<1>1. \A r \in Pending' : r \in Pending \/ r = call'[o]
  BY DEF Pending, PullNamespaces, StartNamespace, ReadQuota, RemoveQuota, ReportSynced, ReportError,
         NextNamespace, ReportCount, Crash, vars, TypeOK
<1>2. ASSUME call'[o] \notin Pending, UnderWay(call'[o]), call'[o].key.of = "quota"
      PROVE  <<call'[o].key.in, call'[o].want>> \in QuotaAsks \cup Ahead(o)
  <2>1. CASE PullNamespaces(o) \/ ReportCount(o)
    BY <1>2, <2>1 DEF PullNamespaces, ReportCount, vars, Pending
  <2>2. CASE ReportSynced(o) \/ ReportError(o) \/ Crash(o)
    <3>1. call'[o] = NoCall
      BY <2>2 DEF ReportSynced, ReportError, NextNamespace, Crash, TypeOK
    <3>2. QED
      BY <1>2, <3>1 DEF UnderWay, NoCall, Writing
  <2>3. CASE StartNamespace(o)
    <3>1. PICK n \in Namespace : call' = [call EXCEPT ![o] = Begin(NamespaceOf(n), Active)]
      BY <2>3 DEF StartNamespace
    <3>2. call'[o].key = NamespaceOf(n)
      BY <3>1 DEF TypeOK, Begin, NoCall
    <3>3. QED
      BY <1>2, <3>2, NamespaceKeys
  <2>4. CASE ReadQuota(o)
    <3>1. stage[o] = "namespace" /\ cur[o] \in Namespace
      BY <2>4 DEF ReadQuota, Shape
    <3>2. call'[o].key = QuotaOf(cur[o]) /\ call'[o].want = QuotaWanted(snap[o][cur[o]])
      BY <2>4 DEF ReadQuota, TypeOK, NoCall
    <3>3. QED
      BY <3>1, <3>2, NamespaceKeys DEF Ahead
  <2>5. CASE RemoveQuota(o)
    <3>1. /\ call'[o].key = call[o].key /\ call'[o].want = call[o].want
          /\ UnderWay(call[o]) /\ call[o] \in Pending
      BY <2>5 DEF RemoveQuota, TypeOK, Call, UnderWay, Writing, Pending
    <3>2. QED
      BY <1>2, <3>1 DEF QuotaAsks
  <2>6. QED
    BY <2>1, <2>2, <2>3, <2>4, <2>5
<1>3. QED
  BY <1>1, <1>2 DEF QuotaAsks

\* Nor do the changes that are made outside of the operators.
LEMMA BecomesAsks ==
    ASSUME TypeOK, NEW k, NEW obj, Becomes(k, obj)
    PROVE  QuotaAsks' \subseteq QuotaAsks
<1>1. \A r \in Pending' : \E q \in Pending : r = Outdated(q, k, obj)
  BY DEF Becomes, Change, Pending
<1>2. \A q \in Pending : q \in Call
  BY DEF TypeOK, Pending
<1>3. \A r \in Pending' : \E q \in Pending : r.step = q.step /\ r.key = q.key /\ r.want = q.want
  BY <1>1, <1>2, OutdatedType
<1>4. QED
  BY <1>3 DEF QuotaAsks, UnderWay

\* No step brings a request for a quota that was not asked for before, but
\* for a namespace whose limits are edited.
LEMMA AskedShrinks ==
    ASSUME SyncedInv, [NamespaceNext]_nsVars, NEW a \in Asked', limits'[a[1]] = limits[a[1]]
    PROVE  a \in Asked
<1> USE DEF SyncedInv, NsInv, NamespaceTypeOK
<1>1. UNCHANGED syncVars => \A o \in Operator : Ahead(o)' = Ahead(o)
  BY DEF syncVars, Ahead
<1>2. a \in {<<n, QuotaWanted(limits'[n])>> : n \in Namespace} => a \in Asked
  BY AskedParts
<1>3. ASSUME QuotaAsks' \subseteq QuotaAsks, UNCHANGED syncVars
      PROVE  a \in Asked
  BY <1>1, <1>2, <1>3, AskedParts
<1>4. CASE EditLimits \/ ReceiveLate \/ UNCHANGED nsVars
  BY <1>3, <1>4 DEF EditLimits, ReceiveLate, nsVars, vars, QuotaAsks, Pending
<1>5. CASE (\E o \in Operator : Requests(o) \/ LoseRequest(o)) \/ ClusterStep
  <2>1. ServerStep
    BY <1>5, NamespaceKeys DEF Requests, LoseRequest, ClusterStep, ServerStep, LateStep
  <2>2. \A r \in Pending' : UnderWay(r) =>
          \E q \in Pending : UnderWay(q) /\ q.key = r.key /\ q.want = r.want
    BY <2>1, UnderWayBefore
  <2>3. QuotaAsks' \subseteq QuotaAsks
    BY <2>2 DEF QuotaAsks
  <2>4. QED
    BY <1>3, <1>5, <2>3 DEF Requests, LoseRequest, ClusterStep
<1>6. ASSUME NEW n \in Namespace, Provide(n) \/ Terminate(n) \/ Collect(n)
      PROVE  a \in Asked
  <2>1. PICK k \in Key, obj \in Object : Becomes(k, obj)
    BY <1>6, OutsideBecomes
  <2>2. QuotaAsks' \subseteq QuotaAsks
    BY <2>1, BecomesAsks
  <2>3. QED
    BY <1>3, <2>1, <2>2 DEF Becomes
<1>7. ASSUME NEW o \in Operator,
             \/ PullNamespaces(o) \/ StartNamespace(o) \/ ReadQuota(o) \/ RemoveQuota(o)
             \/ ReportSynced(o) \/ ReportError(o) \/ ReportCount(o) \/ Crash(o)
      PROVE  a \in Asked
  <2>1. /\ Ahead(o)' \subseteq Ahead(o) \cup {<<n, QuotaWanted(limits[n])>> : n \in Namespace}
        /\ \A p \in Operator \ {o} : Ahead(p)' = Ahead(p)
    BY <1>7, AheadShrinks
  <2>2. QuotaAsks' \subseteq QuotaAsks \cup Ahead(o)
    BY <1>7, QuotaAsksShrink
  <2>3. \A p \in Operator : Ahead(p)' \subseteq Asked
    BY <2>1, AskedParts
  <2>4. QuotaAsks' \subseteq Asked
    BY <2>2, AskedParts
  <2>5. QED
    BY <1>2, <2>3, <2>4, AskedParts
<1>8. QED
  BY <1>4, <1>5, <1>6, <1>7 DEF NamespaceNext, Sync, Outside

\* A settled quota keeps its spec: what is executed was asked for.
LEMMA SettledSpec ==
    ASSUME SyncedInv, [NamespaceNext]_nsVars, NEW n \in Settled
    PROVE  store'[QuotaOf(n)].spec = store[QuotaOf(n)].spec
<1> USE DEF SyncedInv, NsInv, NamespaceTypeOK
<1>1. /\ n \in Namespace /\ store[NamespaceOf(n)].spec = Active
      /\ \A a \in Asked : a[1] = n => a[2] = store[QuotaOf(n)].spec
      /\ QuotaOf(n) \in Key /\ QuotaOf(n).of = "quota" /\ QuotaOf(n).in = n
  BY NamespaceKeys DEF Settled
<1>2. ASSUME NEW r \in Pending, r \in Call, r.key = QuotaOf(n), r.step \in Writing, SyncWrite(r),
             store' = [store EXCEPT ![r.key] = Written(r)]
      PROVE  store'[QuotaOf(n)].spec = store[QuotaOf(n)].spec
  <2>1. Written(r).spec = r.want
    BY <1>1, <1>2, WrittenSpec DEF SyncWrite, TypeOK
  <2>2. UnderWay(r) /\ <<r.key.in, r.want>> \in QuotaAsks
    BY <1>1, <1>2 DEF QuotaAsks, UnderWay
  <2>3. <<n, r.want>> \in Asked
    BY <1>1, <1>2, <2>2, AskedParts
  <2>4. r.want = store[QuotaOf(n)].spec
    BY <1>1, <2>3
  <2>5. QED
    BY <1>1, <1>2, <2>1, <2>4 DEF TypeOK
<1>3. ASSUME NEW k \in Key, NEW obj, k # QuotaOf(n), store' = [store EXCEPT ![k] = obj]
      PROVE  store'[QuotaOf(n)] = store[QuotaOf(n)]
  BY <1>1, <1>3 DEF TypeOK
<1>4. CASE (\E o \in Operator : Requests(o) \/ LoseRequest(o)) \/ ClusterStep
  <2>1. ASSUME NEW r \in Pending, r \in Call, r.key \in Key, r.step \in Writing, SyncWrite(r),
               store' = [store EXCEPT ![r.key] = Written(r)]
        PROVE  store'[QuotaOf(n)].spec = store[QuotaOf(n)].spec
    BY <1>2, <1>3, <2>1
  <2>2. ASSUME NEW m \in Namespace, NEW obj \in Object, store' = [store EXCEPT ![QuotaOf(m)] = obj],
               obj.spec = store[QuotaOf(m)].spec
        PROVE  store'[QuotaOf(n)].spec = store[QuotaOf(n)].spec
    BY <1>1, <2>2, NamespaceKeys DEF TypeOK
  <2>3. QED
    BY <1>4, <2>1, <2>2, OneWrite
<1>5. ASSUME NEW m \in Namespace, Provide(m) \/ Terminate(m) \/ Collect(m)
      PROVE  store'[QuotaOf(n)].spec = store[QuotaOf(n)].spec
  <2>1. \E k \in Key : \E obj : k # QuotaOf(n) /\ store' = [store EXCEPT ![k] = obj]
    <3>1. CASE Provide(m) \/ Terminate(m)
      <4>1. NamespaceOf(m) \in Key /\ NamespaceOf(m) # QuotaOf(n)
        BY <1>1, NamespaceKeys
      <4>2. \E obj : store' = [store EXCEPT ![NamespaceOf(m)] = obj]
        BY <3>1 DEF Provide, Terminate, Becomes, Change
      <4>3. QED
        BY <4>1, <4>2
    <3>2. CASE Collect(m)
      <4>1. m # n
        BY <1>1, <3>2, NamespaceAssumption DEF Collect
      <4>2. QuotaOf(m) # QuotaOf(n) /\ NamespaceOf(m) # QuotaOf(n)
        BY <1>1, <4>1, NamespaceKeys
      <4>3. QED
        BY <3>2, <4>2, NamespaceKeys DEF Collect, Becomes, Change
    <3>3. QED
      BY <1>5, <3>1, <3>2
  <2>2. QED
    BY <1>3, <2>1
<1>6. QED
  BY <1>4, <1>5, StoreKept DEF NamespaceNext, Sync, Outside

\* A quota that has settled stays (NamespaceSync!SettledStays), for any number
\* of operators, namespaces, limits and failures; the safety half of
\* QuotaConvergence.
THEOREM QuotasStay == NamespaceSpec => SettledStays
<1>1. SyncedInv /\ [NamespaceNext]_nsVars =>
        [\A n \in Settled :
           limits'[n] = limits[n] /\ store'[NamespaceOf(n)].spec = Active
             => n \in Settled' /\ store'[QuotaOf(n)].spec = store[QuotaOf(n)].spec]_nsVars
  <2> SUFFICES ASSUME SyncedInv, [NamespaceNext]_nsVars, NEW n \in Settled,
                      limits'[n] = limits[n], store'[NamespaceOf(n)].spec = Active
               PROVE  n \in Settled' /\ store'[QuotaOf(n)].spec = store[QuotaOf(n)].spec
    OBVIOUS
  <2>1. store'[QuotaOf(n)].spec = store[QuotaOf(n)].spec
    BY SettledSpec
  <2>2. \A a \in Asked' : a[1] = n => a \in Asked
    BY AskedShrinks
  <2>3. n \in Settled'
    BY <2>1, <2>2 DEF Settled
  <2>4. QED
    BY <2>1, <2>3
<1>2. QED
  BY <1>1, SyncedInvariant, PTL DEF NamespaceSpec, SettledStays

=============================================================================
