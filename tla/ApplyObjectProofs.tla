------------------------- MODULE ApplyObjectProofs -------------------------
(***************************************************************************)
(* Proofs about ApplyObject for any number of operators, objects, specs    *)
(* and late requests: type correctness, and that no update overwrites an   *)
(* object its operator has not read.                                       *)
(***************************************************************************)
EXTENDS ApplyObject, TLAPS

\* A request that has gone stale is still a request on the same object.
LEMMA OutdatedType ==
    ASSUME NEW r \in Call, NEW k, NEW obj
    PROVE  /\ Outdated(r, k, obj) \in Call
           /\ Outdated(r, k, obj).step = r.step
           /\ Outdated(r, k, obj).key = r.key
           /\ Outdated(r, k, obj).want = r.want
           /\ Outdated(r, k, obj).got = r.got
           /\ Outdated(r, k, obj).fresh <=> r.fresh /\ (r.key = k => obj = store[k])
BY DEF Outdated, Call

\* An accepted write leaves an object of the right type.
LEMMA WrittenType ==
    ASSUME store \in [Key -> Object], NEW r \in Call, r.key \in Key, r.step \in Writing
    PROVE  Written(r) \in Object
<1>1. "Unknown" \in Readiness /\ None \in Want \cup {None}
  BY ApplyAssumption
<1>2. store[r.key] \in Object /\ r.want \in Want \cup {None}
  BY DEF Call
<1>3. CASE r.step = "create"
  BY <1>1, <1>2, <1>3 DEF Written, Object, NoObject
<1>4. CASE r.step = "update"
  BY <1>2, <1>4 DEF Written, Object
<1>5. CASE r.step = "delete"
  BY <1>1, <1>5 DEF Written, Object, NoObject
<1>6. QED
  BY <1>3, <1>4, <1>5 DEF Writing

\* What a change of one object does to the types of all three variables.
LEMMA ChangeType ==
    ASSUME TypeOK, NEW k \in Key, NEW obj \in Object, NEW requests \in SUBSET late,
           Change(k, obj, requests)
    PROVE  /\ store' \in [Key -> Object]
           /\ late' \subseteq {r \in Call : r.step \in Writing /\ r.key \in Key}
<1>1. store' \in [Key -> Object]
  BY DEF Change, TypeOK
<1>2. \A r \in requests : r \in Call /\ r.step \in Writing /\ r.key \in Key
  BY DEF TypeOK
<1>3. QED
  BY <1>1, <1>2, OutdatedType DEF Change

\* A request of an operator preserves the types.
LEMMA RequestType ==
    ASSUME TypeOK, NEW self \in Operator,
           Get(self) \/ Land(self) \/ Fail(self) \/ Abandon(self)
    PROVE  TypeOK'
<1>1. ASSUME NEW o \in Operator, Get(o)
      PROVE  TypeOK'
  <2>1. call[o] \in Call /\ call[o].key \in Key /\ store[call[o].key] \in Object
    BY <1>1 DEF Get, TypeOK
  <2>2. /\ call' \in [Operator -> Call]
        /\ \A p \in Operator : call'[p].key = call[p].key
        /\ \A p \in Operator \ {o} : call'[p].step = call[p].step
    BY <1>1, <2>1 DEF Get, TypeOK, Call, Writing
  <2>3. QED
    BY <1>1, <2>1, <2>2 DEF Get, TypeOK
<1>2. ASSUME NEW o \in Operator, Land(o)
      PROVE  TypeOK'
  <2> DEFINE r == call[o]
             obj == Written(r)
  <2>1. r \in Call /\ r.key \in Key /\ r.step \in Writing
    BY <1>2 DEF Land, TypeOK, Writing
  <2>2. obj \in Object
    BY <2>1, WrittenType DEF TypeOK
  <2>3. Change(r.key, obj, late)
    BY <1>2 DEF Land
  <2>4. [r EXCEPT !.step = "ok", !.fresh = FALSE, !.got = obj] \in Call
    BY <2>1, <2>2 DEF Call
  <2>5. \A p \in Operator : Outdated(call[p], r.key, obj) \in Call
    BY OutdatedType DEF TypeOK
  <2>6. call' \in [Operator -> Call]
    BY <1>2, <2>4, <2>5 DEF Land
  <2>7. \A p \in Operator : call'[p].step # "none" => call'[p].key \in Key
    <3> SUFFICES ASSUME NEW p \in Operator, call'[p].step # "none"
                 PROVE  call'[p].key \in Key
      OBVIOUS
    <3>1. CASE p = o
      BY <1>2, <2>1, <3>1 DEF Land, Call
    <3>2. CASE p # o
      BY <1>2, <3>2, OutdatedType DEF Land, TypeOK
    <3>3. QED
      BY <3>1, <3>2
  <2>8. QED
    BY <2>1, <2>2, <2>3, <2>6, <2>7, ChangeType DEF TypeOK
<1>3. ASSUME NEW o \in Operator, GiveUp(o), call[o].step # "none"
      PROVE  /\ call' \in [Operator -> Call]
             /\ \A p \in Operator : call'[p].step # "none" => call'[p].key \in Key
  <2>1. NoObject \in Object
    BY ApplyAssumption DEF Object, NoObject
  <2>2. call[o] \in Call /\ call[o].key \in Key
    BY <1>3 DEF TypeOK
  <2>3. [call[o] EXCEPT !.step = "failed", !.fresh = FALSE, !.got = NoObject] \in Call
    BY <2>1, <2>2 DEF Call
  <2>4. call' \in [Operator -> Call]
    BY <1>3, <2>3 DEF GiveUp, TypeOK
  <2>5. \A p \in Operator : call'[p].key = call[p].key /\ (p # o => call'[p].step = call[p].step)
    BY <1>3, <2>2 DEF GiveUp, TypeOK, Call
  <2>6. QED
    BY <2>2, <2>4, <2>5 DEF TypeOK
<1>4. ASSUME NEW o \in Operator, Fail(o)
      PROVE  TypeOK'
  BY <1>3, <1>4 DEF Fail, Writing, TypeOK
<1>5. ASSUME NEW o \in Operator, Abandon(o)
      PROVE  TypeOK'
  BY <1>3, <1>5 DEF Abandon, Writing, TypeOK
<1>6. QED
  BY <1>1, <1>2, <1>4, <1>5

\* So does what the rest of the cluster does.
LEMMA ClusterType ==
    ASSUME TypeOK, LateStep \/ \E k \in Key : Observe(k)
    PROVE  TypeOK'
<1>1. ASSUME NEW r \in late, LateLand(r)
      PROVE  TypeOK'
  <2>1. r \in Call /\ r.key \in Key /\ r.step \in Writing
    BY DEF TypeOK
  <2>2. Written(r) \in Object
    BY <2>1, WrittenType DEF TypeOK
  <2>3. Change(r.key, Written(r), late \ {r})
    BY <1>1 DEF LateLand
  <2>4. QED
    BY <1>1, <2>1, <2>2, <2>3, ChangeType, OutdatedType DEF LateLand, TypeOK
<1>2. ASSUME NEW r \in late, LateDrop(r)
      PROVE  TypeOK'
  BY <1>2 DEF LateDrop, TypeOK
<1>3. ASSUME NEW k \in Key, Observe(k)
       PROVE  TypeOK'
  <2>1. PICK r \in Readiness :
           LET obj == [store[k] EXCEPT !.ready = r, !.seen = store[k].spec]
           IN  /\ Change(k, obj, late)
               /\ call' = [p \in Operator |-> Outdated(call[p], k, obj)]
    BY <1>3 DEF Observe
  <2> DEFINE obj == [store[k] EXCEPT !.ready = r, !.seen = store[k].spec]
  <2>2. obj \in Object
    BY DEF TypeOK, Object
  <2>3. QED
    BY <2>1, <2>2, ChangeType, OutdatedType DEF TypeOK
<1>4. QED
  BY <1>1, <1>2, <1>3 DEF LateStep

\* Every step preserves the types.
LEMMA StepType == ASSUME TypeOK, [Next]_vars PROVE TypeOK'
<1>1. ASSUME NEW o \in Operator, Start(o)
      PROVE  TypeOK'
  <2>1. PICK k \in Key, w \in Want \cup {None} :
           call' = [call EXCEPT ![o] = Begin(k, w)]
    BY <1>1 DEF Start
  <2>2. Begin(k, w) \in Call /\ Begin(k, w).key = k
    BY ApplyAssumption DEF Begin, NoCall, Call, Object, NoObject, Writing
  <2>3. QED
    BY <1>1, <2>1, <2>2 DEF Start, TypeOK
<1>2. ASSUME NEW o \in Operator, Get(o) \/ Land(o) \/ Fail(o) \/ Abandon(o)
      PROVE  TypeOK'
  BY <1>2, RequestType
<1>3. ASSUME NEW o \in Operator, Return(o)
      PROVE  TypeOK'
  BY <1>3, ApplyAssumption DEF Return, TypeOK, NoCall, Call, Object, NoObject
<1>4. ASSUME LateStep \/ \E k \in Key : Observe(k)
      PROVE  TypeOK'
  BY <1>4, ClusterType
<1>5. CASE UNCHANGED vars
  BY <1>5 DEF vars, TypeOK
<1>6. QED
  BY <1>1, <1>2, <1>3, <1>4, <1>5 DEF Next

\* Every variable has its type throughout (ApplyObject!TypeOK).
THEOREM TypeCorrect == Spec => []TypeOK
<1>1. Init => TypeOK
  BY ApplyAssumption DEF Init, TypeOK, Object, NoObject, Call, NoCall
<1>2. QED
  BY <1>1, StepType, PTL DEF Spec

----------------------------------------------------------------------------
(* What a request, or a step of the rest of the cluster, can do: all that   *)
(* the proofs about the reconcilers need to know of the API server.         *)

ServerStep ==
    \/ \E o \in Operator : Get(o) \/ Land(o) \/ Fail(o) \/ Abandon(o)
    \/ LateStep
    \/ \E k \in Key : Observe(k)

\* The write r leaves its object with spec s.
Leaves(r, s) ==
    /\ r.step \in Writing /\ Accepts(r)
    /\ s = IF r.step = "delete" THEN None ELSE r.want

\* An object keeps its spec, or gets the one a pending request asks for.
SpecsFollow ==
    \A k \in Key :
        \/ store'[k].spec = store[k].spec
        \/ \E r \in Pending : r.key = k /\ Leaves(r, store'[k].spec)

\* An operator's request goes on, is executed, or fails.
CallGoesOn(o) ==
    /\ call'[o].key = call[o].key /\ call'[o].want = call[o].want
    /\ \/ call'[o].step = call[o].step
       \/ call[o].step = "get" /\ call'[o].step \in {"create", "update"}
       \/ call'[o].step = "ok" /\ Leaves(call[o], store'[call[o].key].spec)
       \/ call'[o].step = "failed" /\ call[o].step # "none"

\* Late requests are writes that were pending before, and fresh only if they
\* were fresh and their object has not changed.
Was(q, r) ==
    /\ r.step \in Writing /\ q.step = r.step /\ q.key = r.key /\ q.want = r.want
    /\ q.fresh => r.fresh /\ store'[r.key] = store[r.key]

LateWerePending == \A q \in late' : \E r \in Pending : Was(q, r)

\* The spec that a write leaves.
LEMMA WrittenSpec ==
    ASSUME store \in [Key -> Object], NEW r \in Call, r.key \in Key,
           r.step \in Writing
    PROVE  Written(r).spec = IF r.step = "delete" THEN None ELSE r.want
BY DEF Written, Object, NoObject, Writing

\* A change of one object touches no other spec, and no late request's want.
LEMMA ChangeEffect ==
    ASSUME TypeOK, NEW k \in Key, NEW obj \in Object,
           NEW requests \in SUBSET late, Change(k, obj, requests)
    PROVE  /\ store'[k].spec = obj.spec
           /\ \A j \in Key \ {k} : store'[j] = store[j]
           /\ LateWerePending
<1>1. store' = [store EXCEPT ![k] = obj] /\ late' = {Outdated(r, k, obj) : r \in requests}
  BY DEF Change
<1>2. store'[k] = obj /\ \A j \in Key \ {k} : store'[j] = store[j]
  BY <1>1 DEF TypeOK
<1>3. ASSUME NEW q \in late'
      PROVE  \E r \in Pending : Was(q, r)
  <2>1. PICK r \in requests : q = Outdated(r, k, obj)
    BY <1>1
  <2>2. r \in Call /\ r.step \in Writing /\ r \in Pending
    BY DEF TypeOK, Pending
  <2>3. r.key \in Key
    BY DEF TypeOK
  <2>4. QED
    BY <1>2, <2>1, <2>2, <2>3, OutdatedType DEF Was
<1>4. QED
  BY <1>2, <1>3 DEF LateWerePending

\* Requests that go stale go on otherwise.
LEMMA OutdatedGoOn ==
    ASSUME TypeOK, NEW o \in Operator, NEW k, NEW obj,
           call'[o] = Outdated(call[o], k, obj)
    PROVE  CallGoesOn(o)
<1>1. call[o] \in Call
  BY DEF TypeOK
<1>2. QED
  BY <1>1, OutdatedType DEF CallGoesOn

\* Every such step has these effects.
LEMMA ServerEffect ==
    ASSUME TypeOK, ServerStep
    PROVE  SpecsFollow /\ LateWerePending /\ \A o \in Operator : CallGoesOn(o)
<1>1. ASSUME UNCHANGED store, UNCHANGED late
      PROVE  SpecsFollow /\ LateWerePending
  BY <1>1 DEF SpecsFollow, LateWerePending, Was, Pending, TypeOK
<1>2. ASSUME NEW o \in Operator, Get(o)
      PROVE  SpecsFollow /\ LateWerePending /\ \A p \in Operator : CallGoesOn(p)
  <2>1. call[o] \in Call
    BY DEF TypeOK
  <2>2. CallGoesOn(o) /\ \A p \in Operator \ {o} : call'[p] = call[p]
    BY <1>2, <2>1 DEF Get, TypeOK, Call, CallGoesOn
  <2>3. QED
    BY <1>1, <1>2, <2>2 DEF Get, CallGoesOn
<1>3. ASSUME NEW o \in Operator, Land(o)
      PROVE  SpecsFollow /\ LateWerePending /\ \A p \in Operator : CallGoesOn(p)
  <2> DEFINE r == call[o]
             obj == Written(r)
  <2>1. r \in Call /\ r.key \in Key /\ r.step \in Writing /\ Accepts(r)
    BY <1>3 DEF Land, TypeOK, Writing
  <2>2. obj \in Object /\ obj.spec = IF r.step = "delete" THEN None ELSE r.want
    BY <2>1, WrittenType, WrittenSpec DEF TypeOK
  <2>3. /\ store'[r.key].spec = obj.spec
        /\ \A j \in Key \ {r.key} : store'[j] = store[j]
        /\ LateWerePending
    BY <1>3, <2>1, <2>2, ChangeEffect DEF Land
  <2>4. Leaves(r, store'[r.key].spec) /\ r \in Pending
    BY <2>1, <2>2, <2>3 DEF Leaves, Pending
  <2>5. SpecsFollow
    BY <2>3, <2>4 DEF SpecsFollow
  <2>6. CallGoesOn(o)
    BY <1>3, <2>1, <2>4 DEF Land, Call, CallGoesOn
  <2>7. \A p \in Operator \ {o} : CallGoesOn(p)
    BY <1>3, OutdatedGoOn DEF Land
  <2>8. QED
    BY <2>3, <2>5, <2>6, <2>7
<1>4. ASSUME NEW o \in Operator, GiveUp(o), call[o].step # "none"
      PROVE  \A p \in Operator : CallGoesOn(p)
  <2>1. call[o] \in Call
    BY DEF TypeOK
  <2>2. CallGoesOn(o) /\ \A p \in Operator \ {o} : call'[p] = call[p]
    BY <1>4, <2>1 DEF GiveUp, TypeOK, Call, CallGoesOn
  <2>3. QED
    BY <2>2 DEF CallGoesOn
<1>5. ASSUME NEW o \in Operator, Fail(o)
      PROVE  SpecsFollow /\ LateWerePending /\ \A p \in Operator : CallGoesOn(p)
  BY <1>1, <1>4, <1>5 DEF Fail, Writing
<1>6. ASSUME NEW o \in Operator, Abandon(o)
      PROVE  SpecsFollow /\ LateWerePending /\ \A p \in Operator : CallGoesOn(p)
  <2>1. SpecsFollow
    BY <1>6 DEF Abandon, SpecsFollow
  <2>2. LateWerePending
    BY <1>6 DEF Abandon, LateWerePending, Was, Pending, TypeOK
  <2>3. QED
    BY <1>4, <1>6, <2>1, <2>2 DEF Abandon, Writing
<1>7. ASSUME NEW r \in late, LateLand(r)
      PROVE  SpecsFollow /\ LateWerePending /\ \A p \in Operator : CallGoesOn(p)
  <2> DEFINE obj == Written(r)
  <2>1. r \in Call /\ r.key \in Key /\ r.step \in Writing /\ Accepts(r)
    BY <1>7 DEF LateLand, TypeOK
  <2>2. obj \in Object /\ obj.spec = IF r.step = "delete" THEN None ELSE r.want
    BY <2>1, WrittenType, WrittenSpec DEF TypeOK
  <2>3. /\ store'[r.key].spec = obj.spec
        /\ \A j \in Key \ {r.key} : store'[j] = store[j]
        /\ LateWerePending
    BY <1>7, <2>1, <2>2, ChangeEffect DEF LateLand
  <2>4. Leaves(r, store'[r.key].spec) /\ r \in Pending
    BY <2>1, <2>2, <2>3 DEF Leaves, Pending
  <2>5. SpecsFollow
    BY <2>3, <2>4 DEF SpecsFollow
  <2>6. \A p \in Operator : CallGoesOn(p)
    BY <1>7, OutdatedGoOn DEF LateLand
  <2>7. QED
    BY <2>3, <2>5, <2>6
<1>8. ASSUME NEW r \in late, LateDrop(r)
      PROVE  SpecsFollow /\ LateWerePending /\ \A p \in Operator : CallGoesOn(p)
  <2>1. SpecsFollow /\ LateWerePending
    BY <1>8 DEF LateDrop, SpecsFollow, LateWerePending, Was, Pending, TypeOK
  <2>2. QED
    BY <1>8, <2>1 DEF LateDrop, CallGoesOn
<1>9. ASSUME NEW k \in Key, Observe(k)
      PROVE  SpecsFollow /\ LateWerePending /\ \A p \in Operator : CallGoesOn(p)
  <2>1. PICK r \in Readiness :
           LET obj == [store[k] EXCEPT !.ready = r, !.seen = store[k].spec]
           IN  /\ Change(k, obj, late)
               /\ call' = [p \in Operator |-> Outdated(call[p], k, obj)]
    BY <1>9 DEF Observe
  <2> DEFINE obj == [store[k] EXCEPT !.ready = r, !.seen = store[k].spec]
  <2>2. obj \in Object /\ obj.spec = store[k].spec
    BY DEF TypeOK, Object
  <2>3. /\ store'[k].spec = store[k].spec
        /\ \A j \in Key \ {k} : store'[j] = store[j]
        /\ LateWerePending
    BY <2>1, <2>2, ChangeEffect
  <2>4. \A p \in Operator : CallGoesOn(p)
    BY <2>1, OutdatedGoOn
  <2>5. QED
    BY <2>3, <2>4 DEF SpecsFollow
<1>10. QED
  BY <1>2, <1>3, <1>5, <1>6, <1>7, <1>8, <1>9 DEF ServerStep, LateStep

----------------------------------------------------------------------------
(* What is asked for.  A request asks for the same from its beginning to    *)
(* its end, whether its operator still waits for it or not, and a Delete is *)
(* what asks for nothing.                                                   *)

UnderWay(r) == r.step \in Writing \cup {"get"}

Consistent == \A r \in Pending : UnderWay(r) => (r.step = "delete" <=> r.want = None)

\* What is under way after a step of the API server was under way before.
LEMMA UnderWayBefore ==
    ASSUME TypeOK, ServerStep, NEW r \in Pending', UnderWay(r)
    PROVE  \E q \in Pending : /\ UnderWay(q) /\ q.key = r.key /\ q.want = r.want
                              /\ q.step = r.step \/ (q.step = "get" /\ r.step \in {"create", "update"})
<1> DEFINE Before(q) == /\ UnderWay(q) /\ q.key = r.key /\ q.want = r.want
                        /\ q.step = r.step \/ (q.step = "get" /\ r.step \in {"create", "update"})
<1>1. LateWerePending /\ \A o \in Operator : CallGoesOn(o)
  BY ServerEffect
<1>2. ASSUME NEW o \in Operator, r = call'[o]
      PROVE  Before(call[o])
  BY <1>1, <1>2 DEF CallGoesOn, UnderWay, Writing, Leaves
<1>3. ASSUME r \in late'
      PROVE  \E q \in Pending : Before(q)
  BY <1>1, <1>3 DEF LateWerePending, Was, UnderWay
<1>4. QED
  BY <1>2, <1>3 DEF Pending

\* Every step keeps what is asked for consistent.
LEMMA ConsistentStep == ASSUME TypeOK, Consistent, [Next]_vars PROVE Consistent'
<1>1. CASE ServerStep
  BY <1>1, UnderWayBefore DEF Consistent, UnderWay
<1>2. ASSUME NEW o \in Operator, NEW c, call' = [call EXCEPT ![o] = c], UNCHANGED late,
             UnderWay(c) => (c.step = "delete" <=> c.want = None)
      PROVE  Consistent'
  <2>1. \A r \in Pending' : r \in Pending \/ r = c
    BY <1>2 DEF Pending, TypeOK
  <2>2. QED
    BY <1>2, <2>1 DEF Consistent, UnderWay
<1>3. ASSUME NEW o \in Operator, Start(o)
      PROVE  Consistent'
  <2>1. PICK k \in Key, w \in Want \cup {None} : call' = [call EXCEPT ![o] = Begin(k, w)]
    BY <1>3 DEF Start
  <2>2. Begin(k, w).want = w /\ Begin(k, w).step = IF w = None THEN "delete" ELSE "get"
    BY DEF Begin, NoCall
  <2>3. QED
    BY <1>2, <1>3, <2>1, <2>2 DEF Start
<1>4. ASSUME NEW o \in Operator, Return(o)
      PROVE  Consistent'
  <2>1. ~UnderWay(NoCall)
    BY DEF UnderWay, NoCall, Writing
  <2>2. QED
    BY <1>2, <1>4, <2>1 DEF Return
<1>5. CASE UNCHANGED vars
  BY <1>5 DEF vars, Consistent, Pending
<1>6. QED
  BY <1>1, <1>3, <1>4, <1>5 DEF Next, ServerStep

\* What is asked for is consistent throughout.
LEMMA AskedConsistently == Spec => []Consistent
<1>1. Init => Consistent
  BY DEF Init, Consistent, Pending, UnderWay, NoCall, Writing
<1>2. QED
  BY <1>1, ConsistentStep, TypeCorrect, PTL DEF Spec

\* So a write leaves what it asks for.
LEMMA LeavesWant ==
    ASSUME Consistent, NEW r \in Pending, NEW x, Leaves(r, x)
    PROVE  UnderWay(r) /\ x = r.want
BY DEF Leaves, Consistent, UnderWay

----------------------------------------------------------------------------
(* No lost updates.  The invariant: as long as a request is fresh, its      *)
(* object is the one its Get returned.                                      *)

Matches(r, s) == r.step = "update" /\ r.fresh => s[r.key] = r.got

Fresh == (\A o \in Operator : Matches(call[o], store)) /\ (\A r \in late : Matches(r, store))

\* Whatever object changes, what stays fresh is unchanged.
LEMMA FreshStays ==
    ASSUME TypeOK, NEW r \in Call, r.step # "none" => r.key \in Key, Matches(r, store),
           NEW k \in Key, NEW obj, store' = [store EXCEPT ![k] = obj]
    PROVE  Matches(Outdated(r, k, obj), store')
<1> DEFINE q == Outdated(r, k, obj)
<1>1. /\ q.step = r.step /\ q.key = r.key /\ q.got = r.got
      /\ q.fresh <=> r.fresh /\ (r.key = k => obj = store[k])
  BY OutdatedType
<1>2. ASSUME q.step = "update", q.fresh
      PROVE  store'[q.key] = q.got
  BY <1>1, <1>2 DEF Matches, TypeOK
<1>3. QED
  BY <1>2 DEF Matches

\* A change of one object keeps every request that stays fresh unchanged.
LEMMA ChangeFresh ==
    ASSUME TypeOK, Fresh, NEW k \in Key, NEW obj, NEW requests \in SUBSET late,
           Change(k, obj, requests)
    PROVE  /\ \A r \in late' : Matches(r, store')
           /\ \A o \in Operator : Matches(Outdated(call[o], k, obj), store')
<1>1. store' = [store EXCEPT ![k] = obj]
  BY DEF Change
<1>2. \A r \in requests : Matches(Outdated(r, k, obj), store')
  BY <1>1, FreshStays DEF TypeOK, Fresh
<1>3. \A o \in Operator : Matches(Outdated(call[o], k, obj), store')
  BY <1>1, FreshStays DEF TypeOK, Fresh
<1>4. QED
  BY <1>2, <1>3 DEF Change

\* So does every change that is made behind the operators' backs.
LEMMA FreshChange ==
    ASSUME TypeOK, Fresh, NEW k \in Key, NEW obj, NEW requests \in SUBSET late,
           Change(k, obj, requests),
           call' = [p \in Operator |-> Outdated(call[p], k, obj)]
    PROVE  Fresh'
<1>1. /\ \A r \in late' : Matches(r, store')
      /\ \A p \in Operator : Matches(call'[p], store')
  BY ChangeFresh
<1>2. QED
  BY <1>1 DEF Fresh, Matches

\* So does a step that only replaces the call of one operator, and leaves
\* behind what was pending.
LEMMA FreshCall ==
    ASSUME TypeOK, Fresh, NEW o \in Operator, NEW c, Matches(c, store),
           call' = [call EXCEPT ![o] = c], UNCHANGED store, late' \subseteq Pending
    PROVE  Fresh'
<1>1. \A p \in Operator : Matches(call'[p], store')
  BY DEF Fresh, TypeOK
<1>2. \A r \in late' : Matches(r, store')
  BY DEF Fresh, Pending
<1>3. QED
  BY <1>1, <1>2 DEF Fresh, Matches

\* The requests, and the rest of the cluster, keep what is fresh unchanged.
LEMMA FreshServer == ASSUME TypeOK, Fresh, ServerStep PROVE Fresh'
<1>0. \A o \in Operator : call[o] \in Call
  BY DEF TypeOK
<1>1. ASSUME NEW o \in Operator, Get(o)
      PROVE  Fresh'
  <2> DEFINE r == [call[o] EXCEPT !.step = "update", !.fresh = TRUE,
                                  !.got = store[call[o].key]]
             q == [call[o] EXCEPT !.step = "create"]
  <2>1. Matches(r, store) /\ Matches(q, store)
    BY <1>0 DEF Matches, Call
  <2>2. UNCHANGED store /\ late' \subseteq Pending
    BY <1>1 DEF Get, Pending
  <2>3. call' = [call EXCEPT ![o] = r] \/ call' = [call EXCEPT ![o] = q]
    BY <1>1 DEF Get
  <2>4. QED
    BY <2>1, <2>2, <2>3, FreshCall
<1>2. ASSUME NEW o \in Operator, Land(o)
      PROVE  Fresh'
  <2> DEFINE r == call[o]
             obj == Written(r)
  <2>1. r \in Call /\ r.key \in Key
    BY <1>2 DEF Land, TypeOK, Writing
  <2>2. Change(r.key, obj, late)
    BY <1>2 DEF Land
  <2>3. /\ \A q \in late' : Matches(q, store')
        /\ \A p \in Operator : Matches(Outdated(call[p], r.key, obj), store')
    BY <2>1, <2>2, ChangeFresh
  <2>4. ASSUME NEW p \in Operator
        PROVE  Matches(call'[p], store')
    <3>1. CASE p = o
      BY <1>2, <2>1, <3>1 DEF Land, Matches, Call
    <3>2. CASE p # o
      <4>1. call'[p] = Outdated(call[p], r.key, obj)
        BY <1>2, <3>2 DEF Land
      <4>2. QED
        BY <2>3, <4>1
    <3>3. QED
      BY <3>1, <3>2
  <2>5. QED
    BY <2>3, <2>4 DEF Fresh, Matches
<1>3. ASSUME NEW o \in Operator, GiveUp(o), UNCHANGED store, late' \subseteq Pending
      PROVE  Fresh'
  <2> DEFINE q == [call[o] EXCEPT !.step = "failed", !.fresh = FALSE, !.got = NoObject]
  <2>1. Matches(q, store)
    BY <1>0 DEF Matches, Call
  <2>2. QED
    BY <1>3, <2>1, FreshCall DEF GiveUp
<1>4. ASSUME NEW o \in Operator, Fail(o) \/ Abandon(o)
      PROVE  Fresh'
  BY <1>3, <1>4 DEF Fail, Abandon, Pending
<1>5. ASSUME NEW r \in late, LateLand(r)
      PROVE  Fresh'
  BY <1>5, FreshChange DEF LateLand, TypeOK
<1>6. ASSUME NEW r \in late, LateDrop(r)
      PROVE  Fresh'
  BY <1>6 DEF LateDrop, Fresh, Matches
<1>7. ASSUME NEW k \in Key, Observe(k)
      PROVE  Fresh'
  BY <1>7, FreshChange DEF Observe
<1>8. QED
  BY <1>1, <1>2, <1>4, <1>5, <1>6, <1>7 DEF ServerStep, LateStep

\* What is fresh when nothing has been asked for yet.
LEMMA FreshStart == Matches(NoCall, store) /\ \A k, w : Matches(Begin(k, w), store)
BY DEF Matches, NoCall, Begin

\* Fresh says more than NoLostUpdate.
LEMMA FreshSuffices == Fresh => NoLostUpdate
BY DEF Fresh, Matches, NoLostUpdate, Pending, Accepts

\* No accepted update meets an object other than the one its operator read
\* (ApplyObject!NoLostUpdate), for any number of operators and late requests.
THEOREM UpdatesAreNotLost == Spec => []NoLostUpdate
<1>1. Init => Fresh
  BY DEF Init, Fresh, Matches, NoCall
<1>2. TypeOK /\ Fresh /\ [Next]_vars => Fresh'
  <2> SUFFICES ASSUME TypeOK, Fresh, [Next]_vars
               PROVE  Fresh'
    OBVIOUS
  <2>1. ASSUME NEW o \in Operator, Start(o) \/ Return(o)
        PROVE  Fresh'
    BY <2>1, FreshCall, FreshStart DEF Start, Return, Pending
  <2>2. CASE ServerStep
    BY <2>2, FreshServer
  <2>3. CASE UNCHANGED vars
    BY <2>3 DEF vars, Fresh, Matches
  <2>4. QED
    BY <2>1, <2>2, <2>3 DEF Next, ServerStep
<1>3. QED
  BY <1>1, <1>2, FreshSuffices, TypeCorrect, PTL DEF Spec

=============================================================================
