-------------------------- MODULE PolicySyncProofs --------------------------
(***************************************************************************)
(* Proofs about PolicySync for any number of operators, of kinds of        *)
(* constraint and of failures: the reconcile only makes the steps of       *)
(* ApplyObject, and the templates come first.                              *)
(***************************************************************************)
EXTENDS PolicySync, ApplyObjectProofs

----------------------------------------------------------------------------
(* The calls of a reconcile.  The strengthening: a call under way is the    *)
(* one that follows the calls done, and nothing is done outside a           *)
(* reconcile.                                                               *)

InOrder(o) ==
    /\ call[o].step = "none" => call[o].key = None
    /\ call[o].step # "none" => /\ stage[o] = "apply" /\ done[o] < 2 * N
                                /\ call[o].key = Target(done[o] + 1)
                                /\ call[o].want = Wanted(done[o] + 1, snap[o])
    /\ stage[o] # "apply" => done[o] = 0

PolicyInv == PolicyTypeOK /\ \A o \in Operator : InOrder(o)

\* The number of kinds, and what the calls are about.
LEMMA KindsNumbered ==
    /\ N \in Nat \ {0}
    /\ \A j \in 1..N : Kinds[j] \in Kind
    /\ \A k \in Kind : \E j \in 1..N : k = Kinds[j]
BY PolicyAssumption DEF N, Kind

LEMMA TargetType ==
    ASSUME NEW i \in 1..(2 * N)
    PROVE  /\ Target(i) \in Key
           /\ i <= N => Target(i) = Template(Kinds[i])
           /\ i > N => Target(i).of = "constraint"
<1>1. N \in Nat /\ i \in Nat
  BY KindsNumbered
<1>2. CASE i <= N
  <2>1. Kinds[i] \in Kind /\ Target(i) = Template(Kinds[i])
    BY <1>1, <1>2, KindsNumbered DEF Target
  <2>2. QED
    BY <1>1, <1>2, <2>1, PolicyAssumption
<1>3. CASE i > N
  <2>1. i - N \in 1..N
    BY <1>1, <1>3
  <2>2. Kinds[i - N] \in Kind /\ Target(i) = Constraint(Kinds[i - N])
    BY <1>1, <1>3, <2>1, KindsNumbered DEF Target
  <2>3. Target(i).of = "constraint"
    BY <2>2 DEF Constraint
  <2>4. QED
    BY <1>1, <1>3, <2>2, <2>3, PolicyAssumption
<1>4. QED
  BY <1>1, <1>2, <1>3

LEMMA WantedType ==
    ASSUME NEW i \in 1..(2 * N), NEW l \in List \cup {None}
    PROVE  /\ Wanted(i, l) \in Want \cup {None}
           /\ i <= N => Wanted(i, l) = Fixed
BY KindsNumbered, PolicyAssumption DEF Wanted, List

\* An answer, a refusal or a loss of a request, and a step of the cluster,
\* are steps of the API server.
LEMMA ServerSteps ==
    ASSUME \/ \E o \in Operator : Answered(o) \/ Refused(o) \/ Lost(o)
           \/ ClusterStep
    PROVE  ServerStep
BY DEF Answered, Refused, Lost, ClusterStep, ServerStep, LateStep

\* Every step is one of ApplyObject, or leaves its state alone.
LEMMA PolicyStep == ASSUME PolicyInv, [PolicyNext]_policyVars PROVE [Next]_vars
<1>1. ASSUME NEW o \in Operator, ApplyNext(o)
      PROVE  Start(o)
  <2> DEFINE i == done[o] + 1
  <2>1. i \in 1..(2 * N)
    BY <1>1, KindsNumbered DEF ApplyNext, PolicyInv, PolicyTypeOK
  <2>2. snap[o] \in List \cup {None}
    BY DEF PolicyInv, PolicyTypeOK
  <2>3. Target(i) \in Key /\ Wanted(i, snap[o]) \in Want \cup {None}
    BY <2>1, <2>2, TargetType, WantedType
  <2>4. QED
    BY <1>1, <2>3 DEF ApplyNext, Start
<1>2. ASSUME NEW o \in Operator, ReconcilePolicy(o) \/ DetectFails(o) \/ Lost(o)
      PROVE  Next \/ UNCHANGED vars
  <2>1. CASE PullPolicy(o) \/ Detect(o) \/ DetectFails(o) \/ FinishPolicy(o)
    BY <2>1 DEF PullPolicy, Detect, DetectFails, FinishPolicy
  <2>2. CASE ApplyNext(o)
    BY <1>1, <2>2 DEF Next
  <2>3. CASE Applied(o) \/ ApplyFailed(o)
    BY <2>3 DEF Applied, ApplyFailed, Next
  <2>4. CASE Answered(o) \/ Refused(o) \/ Lost(o)
    BY <2>4 DEF Answered, Refused, Lost, Next
  <2>5. QED
    BY <1>2, <2>1, <2>2, <2>3, <2>4 DEF ReconcilePolicy
<1>3. ASSUME EditList \/ GenerateOther \/ \E k \in Kind : Generate(k)
      PROVE  UNCHANGED vars
  BY <1>3 DEF EditList, GenerateOther, Generate
<1>4. ASSUME ClusterStep
      PROVE  Next
  BY <1>4 DEF ClusterStep, LateStep, Next
<1>5. QED
  BY <1>2, <1>3, <1>4 DEF PolicyNext, policyVars

\* A step of the API server leaves the calls in order.
LEMMA ServerInOrder ==
    ASSUME TypeOK, NEW o \in Operator, InOrder(o), ServerStep,
           UNCHANGED <<stage, snap, done>>
    PROVE  InOrder(o)'
<1>1. CallGoesOn(o)
  BY ServerEffect
<1>2. call[o] \in Call
  BY DEF TypeOK
<1>3. call'[o].step = "none" <=> call[o].step = "none"
  BY <1>1, <1>2 DEF CallGoesOn, Leaves, Writing
<1>4. QED
  BY <1>1, <1>3 DEF InOrder, CallGoesOn

\* The initial state satisfies the invariant.
LEMMA PolicyStarts == PolicyInit => Init /\ PolicyInv
<1> SUFFICES ASSUME PolicyInit
             PROVE  Init /\ PolicyInv
  OBVIOUS
<1>1. TypeOK
  BY ApplyAssumption DEF PolicyInit, Init, TypeOK, Object, NoObject, Call, NoCall
<1>2. PolicyTypeOK
  BY <1>1, PolicyAssumption, KindsNumbered DEF PolicyInit, PolicyTypeOK
<1>3. \A o \in Operator : InOrder(o)
  BY DEF PolicyInit, Init, InOrder, NoCall
<1>4. QED
  BY <1>2, <1>3 DEF PolicyInit, PolicyInv

\* Every step keeps it.
LEMMA PolicyInvStays == ASSUME PolicyInv, [PolicyNext]_policyVars PROVE PolicyInv'
<1> USE DEF PolicyInv
<1>1. TypeOK'
  BY PolicyStep, StepType DEF PolicyTypeOK
<1>2. ASSUME UNCHANGED <<call, stage, snap, done>>
      PROVE  \A p \in Operator : InOrder(p)'
  BY <1>2 DEF InOrder
<1>3. ASSUME NEW o \in Operator, \A p \in Operator \ {o} : UNCHANGED <<call[p], stage[p], snap[p], done[p]>>,
             InOrder(o)'
      PROVE  \A p \in Operator : InOrder(p)'
  BY <1>3 DEF InOrder
<1>4. ASSUME NEW o \in Operator, PullPolicy(o) \/ Detect(o) \/ DetectFails(o) \/ FinishPolicy(o)
      PROVE  PolicyInv'
  <2>1. /\ UNCHANGED <<call, list, edits, crds>>
        /\ stage' \in [Operator -> {"idle", "detect", "apply"}]
        /\ snap' \in [Operator -> List \cup {None}]
    BY <1>4 DEF PullPolicy, Detect, DetectFails, FinishPolicy, PolicyTypeOK, vars
  <2>2. \A p \in Operator \ {o} : UNCHANGED <<call[p], stage[p], snap[p], done[p]>>
    BY <1>4 DEF PullPolicy, Detect, DetectFails, FinishPolicy, PolicyTypeOK, vars
  <2>3. call'[o] = call[o] /\ call[o].step = "none"
    BY <1>4, <2>1 DEF PullPolicy, Detect, DetectFails, FinishPolicy, InOrder
  <2>4. stage'[o] # "apply" => done'[o] = 0
    BY <1>4 DEF PullPolicy, Detect, DetectFails, FinishPolicy, InOrder, PolicyTypeOK
  <2>5. InOrder(o)'
    BY <2>3, <2>4 DEF InOrder
  <2>6. failures' \in 0..MaxFailures
    BY <1>4, PolicyAssumption DEF PullPolicy, Detect, DetectFails, FinishPolicy, PolicyTypeOK
  <2>7. done' \in [Operator -> 0..(2 * N)]
    BY <1>4, KindsNumbered DEF PullPolicy, Detect, DetectFails, FinishPolicy, PolicyTypeOK
  <2>8. QED
    BY <1>1, <1>3, <2>1, <2>2, <2>5, <2>6, <2>7 DEF PolicyTypeOK
<1>5. ASSUME NEW o \in Operator, ApplyNext(o)
      PROVE  PolicyInv'
  <2> DEFINE b == Begin(Target(done[o] + 1), Wanted(done[o] + 1, snap[o]))
  <2>1. call'[o] = b /\ \A p \in Operator \ {o} : call'[p] = call[p]
    BY <1>5 DEF ApplyNext, PolicyTypeOK, TypeOK
  <2>2. /\ b.key = Target(done[o] + 1) /\ b.want = Wanted(done[o] + 1, snap[o])
        /\ b.step # "none"
    BY DEF Begin, NoCall
  <2>3. InOrder(o)'
    BY <1>5, <2>1, <2>2 DEF ApplyNext, InOrder, syncVars
  <2>4. QED
    BY <1>1, <1>3, <1>5, <2>1, <2>3 DEF ApplyNext, syncVars, PolicyTypeOK
<1>6. ASSUME NEW o \in Operator, Applied(o) \/ ApplyFailed(o)
      PROVE  PolicyInv'
  <2>1. call'[o] = NoCall /\ \A p \in Operator \ {o} : call'[p] = call[p]
    BY <1>6 DEF Applied, ApplyFailed, Return, PolicyTypeOK, TypeOK
  <2>2. stage[o] = "apply" /\ done[o] < 2 * N /\ done[o] \in 0..(2 * N)
    BY <1>6 DEF Applied, ApplyFailed, InOrder, PolicyTypeOK
  <2>3. done[o] + 1 \in 0..(2 * N) /\ 0 \in 0..(2 * N)
    BY <2>2, KindsNumbered
  <2>4. /\ UNCHANGED <<list, edits, crds, snap, failures>>
        /\ stage' \in [Operator -> {"idle", "detect", "apply"}]
        /\ done' \in [Operator -> 0..(2 * N)]
        /\ stage'[o] # "apply" => done'[o] = 0
        /\ \A p \in Operator \ {o} : stage'[p] = stage[p] /\ done'[p] = done[p]
    BY <1>6, <2>2, <2>3 DEF Applied, ApplyFailed, PolicyTypeOK
  <2>5. InOrder(o)'
    BY <2>1, <2>4 DEF InOrder, NoCall
  <2>6. QED
    BY <1>1, <1>3, <2>1, <2>4, <2>5 DEF PolicyTypeOK
<1>7. ASSUME \/ \E o \in Operator : Answered(o) \/ Refused(o) \/ Lost(o)
             \/ ClusterStep
      PROVE  PolicyInv'
  <2>1. UNCHANGED <<list, edits, crds, stage, snap, done>>
    BY <1>7 DEF Answered, Refused, Lost, ClusterStep, syncVars
  <2>2. failures' \in 0..MaxFailures
    BY <1>7, PolicyAssumption DEF Answered, Refused, Lost, ClusterStep, PolicyTypeOK
  <2>3. \A p \in Operator : InOrder(p)'
    BY <1>7, <2>1, ServerSteps, ServerInOrder DEF PolicyTypeOK
  <2>4. QED
    BY <1>1, <2>1, <2>2, <2>3 DEF PolicyTypeOK
<1>8. ASSUME EditList \/ GenerateOther \/ \E k \in Kind : Generate(k)
      PROVE  PolicyInv'
  <2>1. UNCHANGED <<call, stage, snap, done, failures>>
    BY <1>8 DEF EditList, GenerateOther, Generate, vars, syncVars
  <2>2. list' \in List \cup {None} /\ edits' \in 0..MaxEdits /\ crds' \subseteq Kind \cup {Other}
    BY <1>8, PolicyAssumption DEF EditList, GenerateOther, Generate, PolicyTypeOK
  <2>3. QED
    BY <1>1, <1>2, <2>1, <2>2 DEF PolicyTypeOK
<1>9. CASE UNCHANGED policyVars
  BY <1>1, <1>2, <1>9 DEF policyVars, vars, syncVars, PolicyTypeOK
<1>10. QED
  BY <1>4, <1>5, <1>6, <1>7, <1>8, <1>9 DEF PolicyNext, ReconcilePolicy

LEMMA PolicyInvariant == PolicySpec => []PolicyInv
BY PolicyStarts, PolicyInvStays, PTL DEF PolicySpec

\* Every variable of the policy sync has its type throughout (PolicyTypeOK).
THEOREM PolicyTypeCorrect == PolicySpec => []PolicyTypeOK
<1>1. PolicyInv => PolicyTypeOK
  BY DEF PolicyInv
<1>2. QED
  BY <1>1, PolicyInvariant, PTL

\* The policy reconcile (policy.go) acts on the API server only through the
\* Get-or-Create-or-Update pattern: it implements ApplyObject.
THEOREM PolicyRefinesPattern == PolicySpec => Spec
<1>1. PolicyInv /\ [PolicyNext]_policyVars => [Next]_vars
  BY PolicyStep
<1>2. QED
  BY <1>1, PolicyStarts, PolicyInvariant, PTL DEF PolicySpec, Spec

----------------------------------------------------------------------------
(* Templates first.  The strengthening: the templates whose calls are done  *)
(* are there, and stay there because no request, pending or late, removes   *)
(* one.                                                                     *)

TemplatesThere == \A k \in Kind : Exists(Template(k))

TemplateRequest(r) ==
    r.key # None /\ r.key.of = "template" => r.step # "delete" /\ r.want = Fixed

ConstraintRequest(r) ==
    r.key # None /\ r.key.of = "constraint" => TemplatesThere

TemplatesInv ==
    /\ \A r \in Pending : TemplateRequest(r) /\ ConstraintRequest(r)
    /\ \A o \in Operator : \A j \in 1..N : j <= done[o] => Exists(Template(Kinds[j]))
    /\ \A o \in Operator : call[o].step = "ok" /\ call[o].key.of = "template"
                             => Exists(call[o].key)
    /\ \A c \in Kind : Exists(Constraint(c)) => TemplatesThere

\* No step of the API server removes a template, and each keeps the invariant.
LEMMA ServerKeepsTemplates ==
    ASSUME TypeOK, TemplatesInv, ServerStep, UNCHANGED done
    PROVE  TemplatesInv'
<1>1. SpecsFollow /\ LateWerePending /\ \A o \in Operator : CallGoesOn(o)
  BY ServerEffect
<1>2. \A k \in Kind : /\ Template(k) \in Key /\ Template(k) # None /\ Template(k).of = "template"
                      /\ Constraint(k) \in Key /\ Constraint(k) # None
                      /\ Constraint(k).of = "constraint"
  BY PolicyAssumption, ApplyAssumption DEF Template, Constraint
<1>3. Fixed # None
  BY PolicyAssumption, ApplyAssumption
<1>4. \A k \in Kind : Exists(Template(k)) => Exists(Template(k))'
  BY <1>1, <1>2, <1>3 DEF SpecsFollow, Leaves, TemplatesInv, TemplateRequest, Exists
<1>5. TemplatesThere => TemplatesThere'
  BY <1>4 DEF TemplatesThere
<1>6. ASSUME NEW r, NEW q \in Pending, r.step = q.step \/ r.step # "delete",
             r.key = q.key, r.want = q.want
      PROVE  TemplateRequest(r) /\ ConstraintRequest(r)'
  <2>1. TemplateRequest(q) /\ ConstraintRequest(q)
    BY DEF TemplatesInv
  <2>2. TemplateRequest(r)
    BY <1>6, <2>1 DEF TemplateRequest
  <2>3. ConstraintRequest(r)'
    BY <1>5, <1>6, <2>1 DEF ConstraintRequest
  <2>4. QED
    BY <2>2, <2>3
<1>7. \A r \in Pending' : TemplateRequest(r) /\ ConstraintRequest(r)'
  <2>1. ASSUME NEW o \in Operator, NEW r, r = call'[o]
        PROVE  TemplateRequest(r) /\ ConstraintRequest(r)'
    <3>1. call[o] \in Pending /\ CallGoesOn(o) /\ r.key = call[o].key /\ r.want = call[o].want
      BY <1>1, <2>1 DEF Pending, CallGoesOn
    <3>2. r.step # "delete" \/ r.step = call[o].step
      BY <2>1, <3>1 DEF CallGoesOn
    <3>3. QED
      BY <1>6, <3>1, <3>2
  <2>2. ASSUME NEW q \in late'
        PROVE  TemplateRequest(q) /\ ConstraintRequest(q)'
    <3>1. PICK r \in Pending : Was(q, r)
      BY <1>1 DEF LateWerePending
    <3>2. q.step = r.step /\ q.key = r.key /\ q.want = r.want
      BY <3>1 DEF Was
    <3>3. QED
      BY <1>6, <3>2
  <2>3. QED
    BY <2>1, <2>2 DEF Pending
<1>8. \A o \in Operator : \A j \in 1..N : j <= done'[o] => Exists(Template(Kinds[j]))'
  BY <1>4, KindsNumbered DEF TemplatesInv
<1>9. ASSUME NEW o \in Operator, NEW k, k = call'[o].key, call'[o].step = "ok", k.of = "template"
      PROVE  Exists(k)'
  <2>1. CallGoesOn(o) /\ call[o] \in Pending /\ call[o] \in Call /\ call[o].key = k
    BY <1>1, <1>9 DEF Pending, TypeOK, CallGoesOn
  <2>2. call[o].step # "none"
    BY <1>9, <2>1 DEF CallGoesOn, Leaves, Writing
  <2>3. k \in Key /\ k # None
    BY <2>1, <2>2, ApplyAssumption DEF TypeOK
  <2>4. PICK t \in Kind : k = Template(t)
    BY <1>2, <1>9, <2>3, PolicyAssumption
  <2>5. CASE call[o].step = "ok"
    <3>1. Exists(k)
      BY <1>9, <2>1, <2>5 DEF TemplatesInv
    <3>2. QED
      BY <1>4, <2>4, <3>1
  <2>6. CASE call[o].step # "ok"
    <3>1. TemplateRequest(call[o]) /\ Leaves(call[o], store'[k].spec)
      BY <1>9, <2>1, <2>6 DEF CallGoesOn, TemplatesInv
    <3>2. store'[k].spec = Fixed
      BY <1>9, <2>1, <2>3, <3>1 DEF TemplateRequest, Leaves
    <3>3. QED
      BY <1>3, <3>2 DEF Exists
  <2>7. QED
    BY <2>5, <2>6
<1>10. ASSUME NEW c \in Kind, Exists(Constraint(c))'
       PROVE  TemplatesThere'
  <2>1. CASE Exists(Constraint(c))
    BY <1>5, <2>1 DEF TemplatesInv
  <2>2. CASE ~Exists(Constraint(c))
    <3>1. PICK r \in Pending : r.key = Constraint(c)
      BY <1>1, <1>2, <1>10, <2>2 DEF SpecsFollow, Exists
    <3>2. ConstraintRequest(r)
      BY DEF TemplatesInv
    <3>3. QED
      BY <1>2, <1>5, <3>1, <3>2 DEF ConstraintRequest
  <2>3. QED
    BY <2>1, <2>2
<1>11. QED
  BY <1>7, <1>8, <1>9, <1>10 DEF TemplatesInv

\* A step of the sync that makes or ends a call keeps it.
LEMMA SyncKeepsTemplates ==
    ASSUME TypeOK, TemplatesInv, NEW o \in Operator, NEW c,
           call' = [call EXCEPT ![o] = c], UNCHANGED <<store, late>>,
           TemplateRequest(c), ConstraintRequest(c), c.step # "ok",
           \A p \in Operator : \A j \in 1..N : j <= done'[p] => Exists(Template(Kinds[j]))
    PROVE  TemplatesInv'
<1>1. call'[o] = c /\ \A p \in Operator \ {o} : call'[p] = call[p]
  BY DEF TypeOK
<1>2. \A r \in Pending' : TemplateRequest(r) /\ ConstraintRequest(r)
  BY <1>1 DEF Pending, TemplatesInv
<1>3. TemplatesThere' = TemplatesThere /\ \A k : Exists(k)' = Exists(k)
  BY DEF TemplatesThere, Exists
<1>4. \A r \in Pending' : TemplateRequest(r) /\ ConstraintRequest(r)'
  BY <1>2, <1>3 DEF ConstraintRequest
<1>5. \A p \in Operator : call'[p].step = "ok" /\ call'[p].key.of = "template"
                             => Exists(call'[p].key)
  BY <1>1 DEF TemplatesInv
<1>6. QED
  BY <1>3, <1>4, <1>5 DEF TemplatesInv

\* Every step keeps the templates in place.
LEMMA TemplatesStay ==
    ASSUME PolicyInv, TemplatesInv, [PolicyNext]_policyVars
    PROVE  TemplatesInv'
<1> USE DEF PolicyInv
<1>1. TypeOK
  BY DEF PolicyTypeOK
<1>2. ASSUME UNCHANGED vars,
             \A o \in Operator : \A j \in 1..N : j <= done'[o] => Exists(Template(Kinds[j]))
      PROVE  TemplatesInv'
  BY <1>2 DEF vars, TemplatesInv, TemplatesThere, TemplateRequest, ConstraintRequest,
              Pending, Exists
<1>3. TemplateRequest(NoCall) /\ ConstraintRequest(NoCall) /\ NoCall.step # "ok"
  BY DEF TemplateRequest, ConstraintRequest, NoCall
<1>4. ASSUME NEW o \in Operator, PullPolicy(o) \/ Detect(o) \/ DetectFails(o) \/ FinishPolicy(o)
      PROVE  TemplatesInv'
  <2>1. UNCHANGED vars /\ \A p \in Operator : done'[p] = done[p] \/ done'[p] = 0
    BY <1>4 DEF PullPolicy, Detect, DetectFails, FinishPolicy, PolicyTypeOK
  <2>2. QED
    BY <1>2, <2>1, KindsNumbered DEF TemplatesInv
<1>5. ASSUME NEW o \in Operator, ApplyNext(o)
      PROVE  TemplatesInv'
  <2> DEFINE i == done[o] + 1
             b == Begin(Target(i), Wanted(i, snap[o]))
  <2>1. i \in 1..(2 * N) /\ snap[o] \in List \cup {None}
    BY <1>5, KindsNumbered DEF ApplyNext, PolicyTypeOK
  <2>2. /\ b.key = Target(i) /\ b.want = Wanted(i, snap[o])
        /\ b.step = IF Wanted(i, snap[o]) = None THEN "delete" ELSE "get"
    BY DEF Begin, NoCall
  <2>3. CASE i <= N
    <3>1. b.want = Fixed /\ b.step = "get"
      BY <2>1, <2>2, <2>3, WantedType, PolicyAssumption, ApplyAssumption
    <3>2. b.key.of = "template"
      BY <2>1, <2>2, <2>3, TargetType DEF Template
    <3>3. TemplateRequest(b) /\ ConstraintRequest(b)
      BY <3>1, <3>2 DEF TemplateRequest, ConstraintRequest
    <3>4. QED
      BY <1>1, <1>5, <3>1, <3>3, SyncKeepsTemplates DEF ApplyNext, syncVars, TemplatesInv
  <2>4. CASE i > N
    <3>1. b.key.of = "constraint"
      BY <2>1, <2>2, <2>4, TargetType
    <3>2. TemplatesThere
      <4>1. \A j \in 1..N : j <= done[o]
        BY <2>1, <2>4, KindsNumbered DEF PolicyTypeOK
      <4>2. \A j \in 1..N : Exists(Template(Kinds[j]))
        BY <4>1 DEF TemplatesInv
      <4>3. QED
        BY <4>2, KindsNumbered DEF TemplatesThere
    <3>3. TemplateRequest(b) /\ ConstraintRequest(b) /\ b.step # "ok"
      BY <2>2, <3>1, <3>2 DEF TemplateRequest, ConstraintRequest
    <3>4. QED
      BY <1>1, <1>5, <3>3, SyncKeepsTemplates DEF ApplyNext, syncVars, TemplatesInv
  <2>5. QED
    BY <2>1, <2>3, <2>4, KindsNumbered
<1>6. ASSUME NEW o \in Operator, Applied(o)
      PROVE  TemplatesInv'
  <2>1. /\ call[o].step = "ok" /\ call[o].key = Target(done[o] + 1)
        /\ done[o] + 1 \in 1..(2 * N) /\ done' = [done EXCEPT ![o] = done[o] + 1]
    BY <1>6, KindsNumbered DEF Applied, InOrder, PolicyTypeOK
  <2>2. done[o] + 1 <= N => Exists(Template(Kinds[done[o] + 1]))
    <3>1. ASSUME done[o] + 1 <= N
          PROVE  Exists(Template(Kinds[done[o] + 1]))
      <4>1. call[o].key = Template(Kinds[done[o] + 1])
        BY <2>1, <3>1, TargetType
      <4>2. call[o].key.of = "template"
        BY <4>1 DEF Template
      <4>3. QED
        BY <2>1, <4>1, <4>2 DEF TemplatesInv
    <3>2. QED
      BY <3>1
  <2>3. ASSUME NEW p \in Operator, NEW j \in 1..N, j <= done'[p]
        PROVE  Exists(Template(Kinds[j]))
    <3>1. CASE p = o /\ j = done[o] + 1
      BY <2>2, <3>1
    <3>2. CASE ~(p = o /\ j = done[o] + 1)
      <4>1. j <= done[p]
        BY <2>1, <2>3, <3>2, KindsNumbered DEF PolicyTypeOK
      <4>2. QED
        BY <4>1 DEF TemplatesInv
    <3>3. QED
      BY <3>1, <3>2
  <2>4. QED
    BY <1>1, <1>3, <1>6, <2>3, SyncKeepsTemplates DEF Applied, Return
<1>7. ASSUME NEW o \in Operator, ApplyFailed(o)
      PROVE  TemplatesInv'
  <2>1. \A p \in Operator : done'[p] = done[p] \/ done'[p] = 0
    BY <1>7 DEF ApplyFailed, PolicyTypeOK
  <2>2. \A p \in Operator : \A j \in 1..N : j <= done'[p] => Exists(Template(Kinds[j]))
    BY <2>1, KindsNumbered DEF TemplatesInv
  <2>3. QED
    BY <1>1, <1>3, <1>7, <2>2, SyncKeepsTemplates DEF ApplyFailed, Return
<1>8. ASSUME \/ \E o \in Operator : Answered(o) \/ Refused(o) \/ Lost(o)
             \/ ClusterStep
      PROVE  TemplatesInv'
  BY <1>1, <1>8, ServerSteps, ServerKeepsTemplates
     DEF Answered, Refused, Lost, ClusterStep, syncVars
<1>9. ASSUME EditList \/ GenerateOther \/ \E k \in Kind : Generate(k)
      PROVE  TemplatesInv'
  BY <1>2, <1>9 DEF EditList, GenerateOther, Generate, syncVars, TemplatesInv
<1>10. CASE UNCHANGED policyVars
  BY <1>2, <1>10 DEF policyVars, syncVars, TemplatesInv
<1>11. QED
  BY <1>4, <1>5, <1>6, <1>7, <1>8, <1>9, <1>10 DEF PolicyNext, ReconcilePolicy

\* No request for a Constraint, pending or late, and no Constraint, without
\* every ConstraintTemplate (PolicySync!TemplatesFirst), for any number of
\* kinds, operators and failures.
THEOREM ConstraintsFollowTemplates == PolicySpec => []TemplatesFirst
<1>1. PolicyInit => TemplatesInv
  <2> SUFFICES ASSUME PolicyInit
               PROVE  TemplatesInv
    OBVIOUS
  <2>1. \A r \in Pending : r.key = None /\ r.step = "none"
    BY DEF PolicyInit, Init, Pending, NoCall
  <2>2. \A k \in Kind : ~Exists(Constraint(k))
    BY PolicyAssumption DEF PolicyInit, Init, NoObject, Exists
  <2>3. QED
    BY <2>1, <2>2, KindsNumbered
       DEF PolicyInit, Init, NoCall, TemplatesInv, TemplateRequest, ConstraintRequest
<1>2. TemplatesInv => TemplatesFirst
  BY DEF TemplatesInv, ConstraintRequest, TemplatesThere, TemplatesFirst
<1>3. QED
  BY <1>1, <1>2, PolicyInvariant, TemplatesStay, PTL DEF PolicySpec

----------------------------------------------------------------------------
(* What has settled stays.  The calls ahead of a reconcile only get fewer,  *)
(* a reconcile that starts over asks for what its list and Hydra's ask for, *)
(* and a change of the list concerns the last constraint only.              *)

PendingAsks == {<<r.key, r.want>> : r \in {q \in Pending : UnderWay(q)}}

\* The later calls of a reconcile are some of its calls, and only the last one
\* depends on the list.
LEMMA AsksOfList ==
    ASSUME NEW i \in Nat, NEW l
    PROVE  /\ PolicyAsks(i + 1, l) \subseteq PolicyAsks(i, l)
           /\ \A m : \A a \in PolicyAsks(i, l) : a \in PolicyAsks(i, m) \/ a[1] = Target(2 * N)
BY KindsNumbered DEF PolicyAsks, Wanted

\* A step of an operator that is not a request leaves no more ahead of it,
\* unless it reads Hydra's list.
LEMMA AheadShrinks ==
    ASSUME PolicyInv, NEW o \in Operator,
           \/ PullPolicy(o) \/ Detect(o) \/ DetectFails(o) \/ ApplyNext(o)
           \/ Applied(o) \/ ApplyFailed(o) \/ FinishPolicy(o)
    PROVE  /\ Ahead(o)' \subseteq Ahead(o) \cup PolicyAsks(1, list)
           /\ \A p \in Operator \ {o} : Ahead(p)' = Ahead(p)
<1> USE DEF PolicyInv
<1>1. done[o] \in 0..(2 * N) /\ done[o] \in Nat /\ (stage[o] = "idle" => done[o] = 0)
  BY KindsNumbered DEF PolicyTypeOK, InOrder
<1>2. \A p \in Operator \ {o} : stage'[p] = stage[p] /\ snap'[p] = snap[p] /\ done'[p] = done[p]
  BY DEF PullPolicy, Detect, DetectFails, ApplyNext, Applied, ApplyFailed, FinishPolicy,
         PolicyTypeOK, syncVars
<1>3. \A p \in Operator \ {o} : Ahead(p)' = Ahead(p)
  BY <1>2 DEF Ahead, PolicyAsks
<1>4. CASE PullPolicy(o)
  <2>1. stage'[o] = "detect" /\ snap'[o] = list /\ done'[o] = 0
    BY <1>1, <1>4 DEF PullPolicy, PolicyTypeOK
  <2>2. Ahead(o)' = PolicyAsks(1, list)
    BY <2>1 DEF Ahead, PolicyAsks
  <2>3. QED
    BY <1>3, <2>2
<1>5. CASE Detect(o) \/ DetectFails(o) \/ ApplyNext(o) \/ ApplyFailed(o) \/ FinishPolicy(o)
  <2>1. \/ stage'[o] = "idle"
        \/ stage[o] # "idle" /\ snap'[o] = snap[o] /\ done'[o] = done[o]
    BY <1>5 DEF Detect, DetectFails, ApplyNext, ApplyFailed, FinishPolicy, PolicyTypeOK, syncVars
  <2>2. Ahead(o)' \subseteq Ahead(o)
    BY <2>1 DEF Ahead, PolicyAsks
  <2>3. QED
    BY <1>3, <2>2
<1>6. CASE Applied(o)
  <2>1. /\ stage[o] = "apply" /\ stage'[o] = "apply" /\ snap'[o] = snap[o]
        /\ done'[o] = done[o] + 1
    BY <1>6 DEF Applied, InOrder, PolicyTypeOK
  <2>2. Ahead(o)' = PolicyAsks(done[o] + 1 + 1, snap[o]) /\ Ahead(o) = PolicyAsks(done[o] + 1, snap[o])
    BY <2>1 DEF Ahead, PolicyAsks
  <2>3. QED
    BY <1>1, <1>3, <2>2, AsksOfList
<1>7. QED
  BY <1>4, <1>5, <1>6

\* No step brings a request for anything that was not asked for before, but
\* for the constraint that takes the list when the list is changed.
LEMMA AskedShrinks ==
    ASSUME PolicyInv, [PolicyNext]_policyVars, NEW a \in Asked'
    PROVE  a \in Asked \/ (list' # list /\ a[1] = Target(2 * N))
<1> USE DEF PolicyInv
<1>1. Asked = PendingAsks \cup (UNION {Ahead(o) : o \in Operator}) \cup PolicyAsks(1, list)
  BY DEF Asked, PendingAsks, UnderWay
<1>2. Asked' = PendingAsks' \cup (UNION {Ahead(o)' : o \in Operator}) \cup PolicyAsks(1, list)'
  BY DEF Asked, PendingAsks, UnderWay
<1>3. PolicyAsks(1, list)' = PolicyAsks(1, list')
  BY DEF PolicyAsks
<1>4. UNCHANGED syncVars => \A o \in Operator : Ahead(o)' = Ahead(o)
  BY DEF syncVars, Ahead, PolicyAsks
<1>5. UNCHANGED <<call, late>> => PendingAsks' = PendingAsks
  BY DEF PendingAsks, Pending
<1>6. CASE EditList
  <2>1. a \in PolicyAsks(1, list') => a \in PolicyAsks(1, list) \/ a[1] = Target(2 * N)
    BY AsksOfList
  <2>2. QED
    BY <1>1, <1>2, <1>3, <1>4, <1>5, <1>6, <2>1 DEF EditList, vars
<1>7. CASE GenerateOther \/ (\E k \in Kind : Generate(k)) \/ UNCHANGED policyVars
  BY <1>1, <1>2, <1>3, <1>4, <1>5, <1>7 DEF GenerateOther, Generate, vars, policyVars
<1>8. CASE (\E o \in Operator : Answered(o) \/ Refused(o) \/ Lost(o)) \/ ClusterStep
  <2>1. \A r \in Pending' : UnderWay(r) =>
          \E q \in Pending : UnderWay(q) /\ q.key = r.key /\ q.want = r.want
    BY <1>8, ServerSteps, UnderWayBefore DEF PolicyTypeOK
  <2>2. PendingAsks' \subseteq PendingAsks
    BY <2>1 DEF PendingAsks, UnderWay
  <2>3. UNCHANGED <<list, syncVars>>
    BY <1>8 DEF Answered, Refused, Lost, ClusterStep
  <2>4. QED
    BY <1>1, <1>2, <1>3, <1>4, <2>2, <2>3
<1>9. ASSUME NEW o \in Operator,
             \/ PullPolicy(o) \/ Detect(o) \/ DetectFails(o) \/ ApplyNext(o)
             \/ Applied(o) \/ ApplyFailed(o) \/ FinishPolicy(o)
      PROVE  a \in Asked
  <2>1. \A p \in Operator : Ahead(p)' \subseteq Ahead(p) \cup Ahead(o) \cup PolicyAsks(1, list)
    BY <1>9, AheadShrinks
  <2>2. UNCHANGED <<list, late>>
    BY <1>9 DEF PullPolicy, Detect, DetectFails, ApplyNext, Applied, ApplyFailed, FinishPolicy,
                Return, vars
  <2>3. ASSUME NEW r \in Pending', UnderWay(r)
        PROVE  <<r.key, r.want>> \in PendingAsks \cup Ahead(o)
    <3>1. CASE r \in Pending
      BY <2>3, <3>1 DEF PendingAsks
    <3>2. CASE r \notin Pending
      <4>1. r = call'[o] /\ call'[o] # call[o]
        BY <1>9, <2>2, <3>2 DEF Pending, PullPolicy, Detect, DetectFails, ApplyNext, Applied,
           ApplyFailed, FinishPolicy, Return, vars, PolicyTypeOK, TypeOK
      <4>2. r # NoCall
        BY <2>3 DEF UnderWay, Writing, NoCall
      <4>3. ApplyNext(o) /\ r = Begin(Target(done[o] + 1), Wanted(done[o] + 1, snap[o]))
        BY <1>9, <4>1, <4>2 DEF PullPolicy, Detect, DetectFails, ApplyNext, Applied, ApplyFailed,
           FinishPolicy, Return, vars, PolicyTypeOK, TypeOK
      <4>4. r.key = Target(done[o] + 1) /\ r.want = Wanted(done[o] + 1, snap[o])
        BY <4>3 DEF Begin, NoCall
      <4>5. stage[o] = "apply" /\ done[o] + 1 \in (done[o] + 1)..(2 * N)
        BY <4>3, KindsNumbered DEF ApplyNext, PolicyTypeOK
      <4>6. QED
        BY <4>4, <4>5 DEF Ahead, PolicyAsks
    <3>3. QED
      BY <3>1, <3>2
  <2>4. PendingAsks' \subseteq PendingAsks \cup Ahead(o)
    BY <2>3 DEF PendingAsks, UnderWay
  <2>5. QED
    BY <1>1, <1>2, <1>3, <2>1, <2>2, <2>4
<1>10. QED
  BY <1>6, <1>7, <1>8, <1>9 DEF PolicyNext, ReconcilePolicy

\* A settled object keeps its spec: what is executed was asked for.
LEMMA SettledSpec ==
    ASSUME PolicyInv, Consistent, [PolicyNext]_policyVars, NEW k \in Settled
    PROVE  store'[k].spec = store[k].spec
<1>1. k \in Key /\ \A a \in Asked : a[1] = k => a[2] = store[k].spec
  BY DEF Settled
<1>2. CASE ServerStep
  <2>1. SpecsFollow
    BY <1>2, ServerEffect DEF PolicyInv, PolicyTypeOK
  <2>2. ASSUME NEW r \in Pending, r.key = k, Leaves(r, store'[k].spec)
        PROVE  store'[k].spec = store[k].spec
    <3>1. UnderWay(r) /\ store'[k].spec = r.want
      BY <2>2, LeavesWant
    <3>2. <<k, r.want>> \in Asked
      BY <2>2, <3>1 DEF Asked, UnderWay
    <3>3. QED
      BY <1>1, <3>1, <3>2
  <2>3. QED
    BY <1>1, <2>1, <2>2 DEF SpecsFollow
<1>3. CASE UNCHANGED store
  BY <1>3
<1>4. ASSUME \/ \E o \in Operator : \/ PullPolicy(o) \/ Detect(o) \/ DetectFails(o) \/ ApplyNext(o)
                                    \/ Applied(o) \/ ApplyFailed(o) \/ FinishPolicy(o)
             \/ EditList \/ GenerateOther \/ (\E j \in Kind : Generate(j)) \/ UNCHANGED policyVars
      PROVE  UNCHANGED store
  BY <1>4 DEF PullPolicy, Detect, DetectFails, ApplyNext, Applied, ApplyFailed, FinishPolicy, Return,
     EditList, GenerateOther, Generate, policyVars, vars
<1>5. QED
  BY <1>2, <1>3, <1>4, ServerSteps DEF PolicyNext, ReconcilePolicy

\* What has settled stays (PolicySync!SettledStays): an enforced policy is not
\* weakened at any moment, for any number of kinds, operators and failures; the
\* safety half of PolicyConvergence.
THEOREM EnforcedStays == PolicySpec => SettledStays
<1>1. PolicyInv /\ Consistent /\ [PolicyNext]_policyVars
        => [LET held == IF UNCHANGED list THEN Settled ELSE Settled \ {Target(2 * N)}
            IN  held \subseteq Settled' /\ \A k \in held : store'[k].spec = store[k].spec]_policyVars
  <2> SUFFICES ASSUME PolicyInv, Consistent, [PolicyNext]_policyVars,
                      NEW k \in Settled, UNCHANGED list \/ k # Target(2 * N)
               PROVE  k \in Settled' /\ store'[k].spec = store[k].spec
    OBVIOUS
  <2>1. store'[k].spec = store[k].spec
    BY SettledSpec
  <2>2. \A a \in Asked' : a[1] = k => a \in Asked
    BY AskedShrinks
  <2>3. k \in Settled'
    BY <2>1, <2>2 DEF Settled
  <2>4. QED
    BY <2>1, <2>3
<1>2. QED
  BY <1>1, PolicyRefinesPattern, AskedConsistently, PolicyInvariant, PTL DEF PolicySpec, SettledStays

=============================================================================
