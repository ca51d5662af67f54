------------------------- MODULE ManagerLoopsProofs -------------------------
(***************************************************************************)
(* Proofs about ManagerLoops for any number of items, failures, hung       *)
(* requests, SIGTERMs, late requests and changes of the cluster.           *)
(***************************************************************************)
EXTENDS ManagerLoops, TLAPS

----------------------------------------------------------------------------
(* The invariant: what a loop is about to tell Hydra is either true of a    *)
(* failure that is not the shutdown, or the context is cancelled and        *)
(* nothing will be sent.                                                    *)

\* What report r about s blames on the cluster did fail.
Just(s, r) ==
    /\ s \in Item /\ r.status = "error" => s \in faulted
    /\ s = "cluster" /\ r.status = "unreachable" => "hydra" \in faulted
    /\ s = "capabilities" /\ r.status = "alive" => Steady \subseteq r.caps \cup faulted

ToldJustly ==
    /\ \A s \in Subject : Just(s, shown[s])
    /\ \A r \in late : Just(r.of, r.says)

SyncKnows ==
    /\ at["sync"] = "unreachable" => cancelled \/ "hydra" \in faulted
    /\ at["sync"] = "report" =>
         cur \in Item /\ (failed => cancelled \/ cur \in faulted)

\* The probes that are done found what is there, or failed.
BeatKnows ==
    /\ at["heartbeat"] # "detect" => next["heartbeat"] = 1
    /\ \A n \in 1..7 :
         at["heartbeat"] = "detect" /\ n < next["heartbeat"] /\ Probes[n] \in Steady
           => cancelled \/ Probes[n] \in found["heartbeat"] \cup faulted
    /\ at["heartbeat"] = "beat" =>
         cancelled \/ Steady \subseteq found["heartbeat"] \cup faulted

LoopsInv ==
    /\ LoopsTypeOK /\ Steady \subseteq installed
    /\ ToldJustly /\ SyncKnows /\ BeatKnows

LEMMA ProbesAre ==
    /\ Len(Probes) = 7 /\ DOMAIN Probes = 1..7
    /\ \A n \in 1..7 : Probes[n] \in Capability \cup {"version", "nodes"}
    /\ \A c \in Capability : \E n \in 1..5 : Probes[n] = c
<1>1. Len(Probes) = 7 /\ DOMAIN Probes = 1..7
  BY DEF Probes
<1>2. /\ Probes[1] = "openshift" /\ Probes[2] = "gateway" /\ Probes[3] = "knative"
      /\ Probes[4] = "gatekeeper" /\ Probes[5] = "kourier"
      /\ Probes[6] = "version" /\ Probes[7] = "nodes"
  BY DEF Probes
<1>3. \A n \in 1..7 : Probes[n] \in Capability \cup {"version", "nodes"}
  BY <1>2 DEF Capability
<1>4. \A c \in Capability : \E n \in 1..5 : Probes[n] = c
  BY <1>2 DEF Capability
<1>5. QED
  BY <1>1, <1>3, <1>4

\* What may fail.
Faultable == Item \cup {"hydra"} \cup Capability \cup {"version", "nodes"}

FaultTypes ==
    /\ spent \in [Event -> Nat]
    /\ faulted \subseteq Item \cup {"hydra"} \cup {Probes[n] : n \in DOMAIN Probes}

HydraTypes ==
    /\ shown \in [Subject -> Report]
    /\ late \subseteq [of : Subject, says : Report]

OwnTypes ==
    /\ at \in [Loop -> At] /\ hung \in [Loop -> BOOLEAN]
    /\ next \in [Loop -> 1..Len(Probes)] /\ found \in [Loop -> SUBSET Capability]
    /\ todo \subseteq Item /\ cur \in Item \cup {NoItem} /\ failed \in BOOLEAN
    /\ cancelled \in BOOLEAN /\ installed \subseteq Capability

LEMMA TypeParts == LoopsTypeOK <=> OwnTypes /\ HydraTypes /\ FaultTypes
BY DEF LoopsTypeOK, OwnTypes, HydraTypes, FaultTypes

LEMMA SpendTypes ==
    ASSUME FaultTypes, NEW e \in Event, Spend(e)
    PROVE  spent' \in [Event -> Nat]
BY DEF Spend, FaultTypes

LEMMA FaultEffect ==
    ASSUME FaultTypes, NEW x \in Faultable, Fault(x)
    PROVE  FaultTypes' /\ faulted' = faulted \cup {x}
<1>1. Item \cup {"hydra"} \cup {Probes[n] : n \in DOMAIN Probes} = Faultable
  <2>1. {Probes[n] : n \in 1..7} = Capability \cup {"version", "nodes"}
    <3>1. Probes[6] = "version" /\ Probes[7] = "nodes"
      BY DEF Probes
    <3>2. QED
      BY <3>1, ProbesAre
  <2>2. QED
    BY <2>1, ProbesAre DEF Faultable
<1>2. QED
  BY <1>1, SpendTypes DEF Fault, FaultTypes, Event

\* Past reports stay just, since what has failed stays so.
LEMMA StaysJust ==
    ASSUME ToldJustly, UNCHANGED hydraVars, faulted \subseteq faulted'
    PROVE  ToldJustly'
BY DEF ToldJustly, Just, hydraVars

LEMMA PostEffect ==
    ASSUME HydraTypes, FaultTypes, ToldJustly,
           NEW s \in Subject, NEW r \in Report, cancelled \/ Just(s, r), cancelled \in BOOLEAN,
           Post(s, r)
    PROVE  HydraTypes' /\ FaultTypes' /\ ToldJustly' /\ faulted' = faulted
<1>1. faulted' = faulted
  BY DEF Post, faultVars
<1>2. FaultTypes'
  BY <1>1, SpendTypes DEF Post, faultVars, FaultTypes, Event
<1>3. HydraTypes'
  BY DEF Post, hydraVars, HydraTypes
<1>4. ToldJustly'
  <2>1. CASE UNCHANGED hydraVars
    BY <1>1, <2>1, StaysJust
  <2>2. CASE Just(s, r) /\ shown' = [shown EXCEPT ![s] = r] /\ UNCHANGED late
    BY <1>1, <2>2 DEF ToldJustly, Just, HydraTypes
  <2>3. CASE Just(s, r) /\ UNCHANGED shown /\ late' = late \cup {[of |-> s, says |-> r]}
    BY <1>1, <2>3 DEF ToldJustly, Just
  <2>4. QED
    BY <2>1, <2>2, <2>3 DEF Post, hydraVars
<1>5. QED
  BY <1>1, <1>2, <1>3, <1>4

----------------------------------------------------------------------------
(* The loops                                                                *)

LEMMA TickStays ==
    ASSUME LoopsInv, NEW l \in Loop, Tick(l) \/ ReturnFromLoop(l)
    PROVE  LoopsInv'
<1> USE DEF LoopsInv
<1>1. FirstStep(l) \in {"pull", "detect"} /\ OwnTypes /\ HydraTypes /\ FaultTypes
  BY TypeParts DEF FirstStep
<1>2. /\ \A k \in Loop \ {l} : at'[k] = at[k]
      /\ at'[l] \in {"pull", "detect", "returned"} /\ at[l] = "idle"
      /\ at' \in [Loop -> At]
      /\ UNCHANGED <<hung, cancelled, installed, detectVars, syncVars, hydraVars, faultVars>>
  BY <1>1 DEF Tick, ReturnFromLoop, Goto, OwnTypes, At
<1>3. LoopsTypeOK'
  BY <1>1, <1>2
     DEF LoopsTypeOK, OwnTypes, HydraTypes, FaultTypes, detectVars, syncVars, hydraVars, faultVars
<1>4. ToldJustly'
  BY <1>2, StaysJust DEF faultVars
<1>5. SyncKnows'
  BY <1>2 DEF SyncKnows, Loop, syncVars, faultVars
<1>6. BeatKnows'
  <2>1. at["heartbeat"] = "idle" \/ at'["heartbeat"] = at["heartbeat"]
    BY <1>2 DEF Loop
  <2>2. next["heartbeat"] = 1 \/ at'["heartbeat"] = at["heartbeat"]
    BY <2>1 DEF BeatKnows
  <2>3. QED
    BY <1>1, <1>2, <2>1, <2>2 DEF BeatKnows, detectVars, faultVars, Loop, OwnTypes
<1>7. QED
  BY <1>2, <1>3, <1>4, <1>5, <1>6

\* NextProbe and LeaveDetect change where the loop stands and what it knows.
LEMMA NextProbeTypes ==
    ASSUME OwnTypes, NEW l \in Loop, NEW known \in SUBSET Capability, NextProbe(l, known)
    PROVE  /\ at' \in [Loop -> At] /\ next' \in [Loop -> 1..Len(Probes)]
           /\ found' \in [Loop -> SUBSET Capability]
           /\ \A k \in Loop \ {l} : at'[k] = at[k] /\ next'[k] = next[k] /\ found'[k] = found[k]
           /\ \/ /\ at'[l] = at[l] /\ next[l] < 7
                 /\ next'[l] = next[l] + 1 /\ found'[l] = known
              \/ /\ at'[l] \in {"beat", "policy", "work"} /\ (l # "sync" => at'[l] = "beat")
                 /\ (l = "sync" => at'[l] # "beat")
                 /\ next[l] = 7 /\ next'[l] = 1 /\ (at'[l] = "beat" => found'[l] = found[l])
<1>1. next[l] \in 1..7 /\ Len(Probes) = 7
  BY ProbesAre DEF OwnTypes
<1>2. CASE next[l] < Len(Probes)
  BY <1>1, <1>2 DEF NextProbe, OwnTypes
<1>3. CASE ~(next[l] < Len(Probes))
  <2> DEFINE step == AfterDetect(l, known)
  <2>1. /\ step \in {"beat", "policy", "work"} /\ (l # "sync" => step = "beat")
        /\ (l = "sync" => step # "beat")
    <3>1. CASE l = "heartbeat"
      BY <3>1 DEF AfterDetect
    <3>2. CASE l = "sync"
      BY <3>2 DEF AfterDetect
    <3>3. QED
      BY <3>1, <3>2 DEF Loop
  <2>2. LeaveDetect(l, step)
    BY <1>3 DEF NextProbe
  <2> HIDE DEF step
  <2>3. QED
    BY <1>1, <1>3, <2>1, <2>2 DEF LeaveDetect, Goto, OwnTypes, At
<1>4. QED
  BY <1>2, <1>3

LEMMA LeaveDetectTypes ==
    ASSUME OwnTypes, NEW l \in Loop, LeaveDetect(l, AfterError(l))
    PROVE  /\ at' \in [Loop -> At] /\ next' \in [Loop -> 1..Len(Probes)]
           /\ found' \in [Loop -> SUBSET Capability]
           /\ \A k \in Loop \ {l} : at'[k] = at[k] /\ next'[k] = next[k] /\ found'[k] = found[k]
           /\ at'[l] \in {"idle", "work"} /\ next'[l] = 1
BY ProbesAre DEF LeaveDetect, AfterError, Goto, OwnTypes, At

LEMMA ProbesStay ==
    ASSUME LoopsInv, NEW l \in Loop, ProbeAnswers(l) \/ ProbeFails(l)
    PROVE  LoopsInv'
<1> USE DEF LoopsInv
<1> DEFINE p == Probes[next[l]]
<1>1. OwnTypes /\ HydraTypes /\ FaultTypes
  BY TypeParts
<1>2. next[l] \in 1..7 /\ p \in Capability \cup {"version", "nodes"} /\ at[l] = "detect"
  BY <1>1, ProbesAre DEF OwnTypes, ProbeAnswers, ProbeFails, Probing
<1>3. /\ FaultTypes' /\ faulted \subseteq faulted'
      /\ \/ ProbeAnswers(l) \/ cancelled
         \/ p \in faulted'
  <2>1. CASE UNCHANGED faultVars
    BY <1>1, <2>1 DEF ProbeFails, Heard, Fault, faultVars, FaultTypes
  <2>2. CASE Fault(p)
    BY <1>1, <1>2, <2>2, FaultEffect DEF Faultable
  <2>3. QED
    BY <2>1, <2>2 DEF ProbeAnswers, ProbeFails
<1>4. UNCHANGED <<hung, cancelled, installed, syncVars, hydraVars>>
  BY DEF ProbeAnswers, ProbeFails
<1>5. /\ at' \in [Loop -> At] /\ next' \in [Loop -> 1..Len(Probes)]
      /\ found' \in [Loop -> SUBSET Capability]
      /\ \A k \in Loop \ {l} : at'[k] = at[k] /\ next'[k] = next[k] /\ found'[k] = found[k]
      /\ \/ /\ at'[l] = at[l] /\ next[l] < 7 /\ next'[l] = next[l] + 1
            /\ found'[l] = found[l] \cup (IF ProbeAnswers(l) THEN {p} \cap installed ELSE {})
         \/ /\ at'[l] \in {"beat", "policy", "work"} /\ (l = "sync" => at'[l] # "beat")
            /\ next[l] = 7 /\ next'[l] = 1 /\ (at'[l] = "beat" => found'[l] = found[l])
         \/ at'[l] \in {"idle", "work"} /\ next'[l] = 1
  <2>1. CASE ProbeAnswers(l)
    <3>1. found[l] \cup ({p} \cap installed) \in SUBSET Capability
      BY <1>1 DEF OwnTypes
    <3>2. NextProbe(l, found[l] \cup ({p} \cap installed))
      BY <2>1 DEF ProbeAnswers
    <3>3. QED
      BY <1>1, <2>1, <3>1, <3>2, NextProbeTypes
  <2>2. CASE ~ProbeAnswers(l)
    <3>1. found[l] \in SUBSET Capability /\ (NextProbe(l, found[l]) \/ LeaveDetect(l, AfterError(l)))
      BY <1>1, <2>2 DEF OwnTypes, ProbeFails
    <3>2. QED
      BY <1>1, <2>2, <3>1, NextProbeTypes, LeaveDetectTypes
  <2>3. QED
    BY <2>1, <2>2
<1> HIDE DEF p
<1>6. LoopsTypeOK'
  BY <1>1, <1>3, <1>4, <1>5
     DEF LoopsTypeOK, OwnTypes, HydraTypes, FaultTypes, syncVars, hydraVars
<1>7. ToldJustly'
  BY <1>3, <1>4, StaysJust
<1>8. SyncKnows'
  BY <1>3, <1>4, <1>5 DEF SyncKnows, Loop, syncVars, LoopsTypeOK
<1>9. BeatKnows'
  <2>1. CASE l # "heartbeat"
    BY <1>3, <1>4, <1>5, <2>1 DEF BeatKnows, Loop
  <2>2. CASE l = "heartbeat"
    <3>1. \A n \in 1..7 : n < next[l] /\ Probes[n] \in Steady
                          => cancelled \/ Probes[n] \in found[l] \cup faulted
      BY <1>2, <2>2 DEF BeatKnows
    <3>2. CASE at'[l] = "detect"
      <4>1. /\ next'[l] = next[l] + 1
            /\ found'[l] = found[l] \cup (IF ProbeAnswers(l) THEN {p} \cap installed ELSE {})
        BY <1>2, <1>5, <3>2
      <4>2. p \in Steady => cancelled \/ p \in found'[l] \cup faulted'
        BY <1>3, <4>1
      <4>3. \A n \in 1..7 : n < next'[l] /\ Probes[n] \in Steady
                            => cancelled' \/ Probes[n] \in found'[l] \cup faulted'
        BY <1>2, <1>3, <1>4, <3>1, <4>1, <4>2 DEF p
      <4>4. QED
        BY <2>2, <3>2, <4>3 DEF BeatKnows
    <3>3. CASE at'[l] = "beat"
      <4>1. next[l] = 7 /\ next'[l] = 1 /\ found'[l] = found[l]
        BY <1>2, <1>5, <3>3
      <4>2. \A c \in Steady : \E n \in 1..5 : Probes[n] = c
        BY ProbesAre, LoopsAssumption
      <4>3. \A c \in Steady : cancelled \/ c \in found[l] \cup faulted
        BY <3>1, <4>1, <4>2
      <4>4. QED
        BY <1>3, <1>4, <2>2, <3>3, <4>1, <4>3 DEF BeatKnows
    <3>4. CASE at'[l] \notin {"detect", "beat"}
      BY <1>2, <1>5, <2>2, <3>4 DEF BeatKnows
    <3>5. QED
      BY <3>2, <3>3, <3>4
  <2>3. QED
    BY <2>1, <2>2
<1>10. QED
  BY <1>4, <1>6, <1>7, <1>8, <1>9

LEMMA HeartbeatStays == ASSUME LoopsInv, Heartbeat PROVE LoopsInv'
<1> USE DEF LoopsInv
<1>1. OwnTypes /\ HydraTypes /\ FaultTypes
  BY TypeParts
<1> DEFINE r == [status |-> "alive", caps |-> found["heartbeat"]]
<1>2. r \in Report /\ "capabilities" \in Subject
  BY <1>1 DEF Report, Subject, OwnTypes, Loop
<1>3. cancelled \/ Just("capabilities", r)
  <2>1. cancelled \/ Steady \subseteq found["heartbeat"] \cup faulted
    BY DEF BeatKnows, Heartbeat
  <2>2. "capabilities" \notin Item
    BY LoopsAssumption
  <2>3. QED
    BY <2>1, <2>2 DEF Just
<1>4. Post("capabilities", r)
  BY DEF Heartbeat
<1> HIDE DEF r
<1>5. HydraTypes' /\ FaultTypes' /\ ToldJustly' /\ faulted' = faulted
  BY <1>1, <1>2, <1>3, <1>4, PostEffect DEF OwnTypes
<1>6. /\ at' = [at EXCEPT !["heartbeat"] = "idle"]
      /\ found' = [found EXCEPT !["heartbeat"] = {}]
      /\ UNCHANGED <<hung, cancelled, installed, next, todo, cur, failed>>
  BY DEF Heartbeat, Goto, syncVars
<1>7. OwnTypes'
  BY <1>1, <1>6 DEF OwnTypes, At, Loop
<1>8. LoopsTypeOK'
  BY <1>5, <1>7 DEF LoopsTypeOK, OwnTypes, HydraTypes, FaultTypes
<1>9. SyncKnows'
  BY <1>1, <1>5, <1>6 DEF SyncKnows, OwnTypes, Loop
<1>10. BeatKnows'
  <2>1. next["heartbeat"] = 1
    BY DEF BeatKnows, Heartbeat
  <2>2. at'["heartbeat"] = "idle"
    BY <1>1, <1>6 DEF OwnTypes, Loop
  <2>3. QED
    BY <1>6, <2>1, <2>2 DEF BeatKnows
<1>11. QED
  BY <1>5, <1>6, <1>8, <1>9, <1>10

\* What the sync does is nothing to the heartbeat.
LEMMA BeatUntouched ==
    ASSUME LoopsInv, at'["heartbeat"] = at["heartbeat"], UNCHANGED <<detectVars, cancelled>>,
           faulted \subseteq faulted'
    PROVE  BeatKnows'
BY DEF LoopsInv, BeatKnows, detectVars

LEMMA SyncStays == ASSUME LoopsInv, SyncStep PROVE LoopsInv'
<1> USE DEF LoopsInv
<1>1. OwnTypes /\ HydraTypes /\ FaultTypes
  BY TypeParts
<1>2. UNCHANGED <<hung, cancelled, installed, detectVars>>
  BY DEF SyncStep, PullState, PullFails, ReportUnreachable, PolicyDone, ReconcileItem,
         ReportItem, ReportReachable
<1>3. ASSUME NEW step \in At, Goto("sync", step), todo' \subseteq Item,
             cur' \in Item \cup {NoItem}, failed' \in BOOLEAN,
             HydraTypes', FaultTypes', ToldJustly', faulted \subseteq faulted', SyncKnows'
      PROVE  LoopsInv'
  <2>1. at' \in [Loop -> At] /\ at'["heartbeat"] = at["heartbeat"]
    BY <1>1, <1>3 DEF Goto, OwnTypes, Loop
  <2>2. LoopsTypeOK'
    BY <1>1, <1>2, <1>3, <2>1
       DEF LoopsTypeOK, OwnTypes, HydraTypes, FaultTypes, detectVars
  <2>3. BeatKnows'
    BY <1>2, <1>3, <2>1, BeatUntouched
  <2>4. QED
    BY <1>2, <1>3, <2>2, <2>3
<1>4. \A step : Goto("sync", step) => at'["sync"] = step
  BY <1>1 DEF Goto, OwnTypes, Loop
<1>5. todo \subseteq Item /\ cur \in Item \cup {NoItem} /\ failed \in BOOLEAN
  BY <1>1 DEF OwnTypes
<1>6. CASE PullState
  <2>1. Goto("sync", "detect") /\ todo' = Item /\ UNCHANGED <<cur, failed, hydraVars, faultVars>>
    BY <1>6 DEF PullState
  <2>2. SyncKnows'
    BY <1>4, <2>1 DEF SyncKnows
  <2>3. HydraTypes' /\ FaultTypes' /\ ToldJustly'
    BY <1>1, <2>1, StaysJust DEF HydraTypes, FaultTypes, hydraVars, faultVars
  <2>4. QED
    BY <1>3, <1>5, <2>1, <2>2, <2>3 DEF At, faultVars
<1>7. CASE PullFails
  <2>1. Goto("sync", "unreachable") /\ UNCHANGED <<syncVars, hydraVars>>
    BY <1>7 DEF PullFails
  <2>2. FaultTypes' /\ faulted \subseteq faulted' /\ (cancelled \/ "hydra" \in faulted')
    <3>1. CASE Fault("hydra")
      BY <1>1, <3>1, FaultEffect DEF Faultable
    <3>2. CASE cancelled /\ UNCHANGED faultVars
      BY <1>1, <3>2 DEF faultVars, FaultTypes
    <3>3. QED
      BY <1>7, <3>1, <3>2 DEF PullFails
  <2>3. SyncKnows'
    BY <1>2, <1>4, <2>1, <2>2 DEF SyncKnows
  <2>4. HydraTypes' /\ ToldJustly'
    BY <1>1, <2>1, <2>2, StaysJust DEF HydraTypes, hydraVars
  <2>5. QED
    BY <1>3, <1>5, <2>1, <2>2, <2>3, <2>4 DEF At, syncVars
<1>8. CASE ReportUnreachable
  <2>1. Goto("sync", "idle") /\ UNCHANGED syncVars /\ Post("cluster", Says("unreachable"))
    BY <1>8 DEF ReportUnreachable
  <2>2. Says("unreachable") \in Report /\ "cluster" \in Subject
    BY DEF Says, Report, Subject
  <2>3. cancelled \/ Just("cluster", Says("unreachable"))
    BY <1>8, LoopsAssumption DEF SyncKnows, ReportUnreachable, Just, Says
  <2>4. HydraTypes' /\ FaultTypes' /\ ToldJustly' /\ faulted' = faulted
    BY <1>1, <2>1, <2>2, <2>3, PostEffect DEF OwnTypes
  <2>5. SyncKnows'
    BY <1>4, <2>1 DEF SyncKnows
  <2>6. QED
    BY <1>3, <1>5, <2>1, <2>4, <2>5 DEF At, syncVars
<1>9. CASE PolicyDone
  <2>1. Goto("sync", "work") /\ UNCHANGED <<syncVars, hydraVars, faultVars>>
    BY <1>9 DEF PolicyDone
  <2>2. SyncKnows'
    BY <1>4, <2>1 DEF SyncKnows
  <2>3. HydraTypes' /\ FaultTypes' /\ ToldJustly'
    BY <1>1, <2>1, StaysJust DEF HydraTypes, FaultTypes, hydraVars, faultVars
  <2>4. QED
    BY <1>3, <1>5, <2>1, <2>2, <2>3 DEF At, syncVars, faultVars
<1>10. ASSUME NEW i \in Item, ReconcileItem(i)
       PROVE  LoopsInv'
  <2>1. /\ Goto("sync", "report") /\ UNCHANGED hydraVars
        /\ todo' = todo \ {i} /\ cur' = i /\ failed' \in BOOLEAN
    BY <1>10 DEF ReconcileItem
  <2>2. /\ FaultTypes' /\ faulted \subseteq faulted'
        /\ failed' => cancelled \/ i \in faulted'
    <3>1. CASE Fault(i)
      BY <1>1, <3>1, FaultEffect DEF Faultable
    <3>2. CASE UNCHANGED faultVars /\ (failed' => cancelled)
      BY <1>1, <3>2 DEF faultVars, FaultTypes
    <3>3. QED
      BY <1>10, <3>1, <3>2 DEF ReconcileItem
  <2>3. SyncKnows'
    BY <1>2, <1>4, <2>1, <2>2 DEF SyncKnows
  <2>4. HydraTypes' /\ ToldJustly'
    BY <1>1, <2>1, <2>2, StaysJust DEF HydraTypes, hydraVars
  <2>5. QED
    BY <1>3, <1>5, <2>1, <2>2, <2>3, <2>4 DEF At
<1>11. CASE ReportItem
  <2> DEFINE r == Says(IF failed THEN "error" ELSE "ok")
  <2>1. /\ Goto("sync", "work") /\ cur' = NoItem /\ failed' = FALSE /\ UNCHANGED todo
        /\ Post(cur, r) /\ at["sync"] = "report"
    BY <1>11 DEF ReportItem
  <2>2. r \in Report /\ cur \in Subject /\ cur \in Item
    BY <2>1 DEF Says, Report, Subject, SyncKnows
  <2>3. cancelled \/ Just(cur, r)
    BY <2>1, <2>2, LoopsAssumption DEF SyncKnows, Just, Says
  <2> HIDE DEF r
  <2>4. HydraTypes' /\ FaultTypes' /\ ToldJustly' /\ faulted' = faulted
    BY <1>1, <2>1, <2>2, <2>3, PostEffect DEF OwnTypes
  <2>5. SyncKnows'
    BY <1>4, <2>1 DEF SyncKnows
  <2>6. QED
    BY <1>3, <1>5, <2>1, <2>4, <2>5 DEF At
<1>12. CASE ReportReachable
  <2>1. Goto("sync", "idle") /\ UNCHANGED syncVars /\ Post("cluster", Says("reachable"))
    BY <1>12 DEF ReportReachable
  <2>2. Says("reachable") \in Report /\ "cluster" \in Subject
    BY DEF Says, Report, Subject
  <2>3. Just("cluster", Says("reachable"))
    BY LoopsAssumption DEF Just, Says
  <2>4. HydraTypes' /\ FaultTypes' /\ ToldJustly' /\ faulted' = faulted
    BY <1>1, <2>1, <2>2, <2>3, PostEffect DEF OwnTypes
  <2>5. SyncKnows'
    BY <1>4, <2>1 DEF SyncKnows
  <2>6. QED
    BY <1>3, <1>5, <2>1, <2>4, <2>5 DEF At, syncVars
<1>13. QED
  BY <1>6, <1>7, <1>8, <1>9, <1>10, <1>11, <1>12 DEF SyncStep

LEMMA HangStays == ASSUME LoopsInv, NEW l \in Loop, Hang(l) PROVE LoopsInv'
<1> USE DEF LoopsInv
<1>1. OwnTypes /\ HydraTypes /\ FaultTypes
  BY TypeParts
<1>2. /\ spent' \in [Event -> Nat]
      /\ UNCHANGED <<at, cancelled, installed, detectVars, syncVars, hydraVars, faulted>>
      /\ hung' \in [Loop -> BOOLEAN]
  BY <1>1, SpendTypes DEF Hang, OwnTypes, Event
<1>3. LoopsTypeOK'
  BY <1>1, <1>2
     DEF LoopsTypeOK, OwnTypes, HydraTypes, FaultTypes, detectVars, syncVars, hydraVars
<1>4. QED
  BY <1>2, <1>3, StaysJust, BeatUntouched DEF SyncKnows, syncVars

----------------------------------------------------------------------------
(* The process                                                              *)

LEMMA AroundStays == ASSUME LoopsInv, Around PROVE LoopsInv'
<1> USE DEF LoopsInv
<1>1. OwnTypes /\ HydraTypes /\ FaultTypes
  BY TypeParts
<1>2. CASE Terminate
  <2>1. /\ spent' \in [Event -> Nat]
        /\ cancelled' = TRUE /\ hung' \in [Loop -> BOOLEAN]
        /\ UNCHANGED <<at, installed, detectVars, syncVars, hydraVars, faulted>>
    BY <1>1, <1>2, SpendTypes DEF Terminate, Uncancellable, OwnTypes, Event
  <2>2. LoopsTypeOK'
    BY <1>1, <2>1
       DEF LoopsTypeOK, OwnTypes, HydraTypes, FaultTypes, detectVars, syncVars, hydraVars
  <2>3. BeatKnows' /\ SyncKnows'
    BY <2>1 DEF BeatKnows, SyncKnows, detectVars, syncVars
  <2>4. QED
    BY <2>1, <2>2, <2>3, StaysJust
<1>3. CASE Exit
  <2>1. EndProcess
    BY <1>3 DEF Exit
  <2>2. LoopsTypeOK'
    <3>1. 1 \in 1..Len(Probes)
      BY ProbesAre
    <3>2. OwnTypes'
      BY <1>1, <2>1, <3>1 DEF EndProcess, OwnTypes, At
    <3>3. HydraTypes' /\ FaultTypes'
      BY <1>1, <2>1 DEF EndProcess, HydraTypes, FaultTypes, hydraVars, faultVars
    <3>4. QED
      BY <3>2, <3>3 DEF LoopsTypeOK, OwnTypes, HydraTypes, FaultTypes
  <2>3. BeatKnows' /\ SyncKnows'
    BY <2>1 DEF EndProcess, BeatKnows, SyncKnows, Loop
  <2>4. QED
    BY <2>1, <2>2, <2>3, StaysJust DEF EndProcess, faultVars
<1>4. CASE Start
  <2>1. /\ at' = [l \in Loop |-> "idle"] /\ at["heartbeat"] = "down"
        /\ UNCHANGED <<hung, cancelled, installed, detectVars, syncVars, hydraVars, faultVars>>
    BY <1>4 DEF Start, Loop
  <2>2. LoopsTypeOK'
    BY <1>1, <2>1
       DEF LoopsTypeOK, OwnTypes, HydraTypes, FaultTypes, detectVars, syncVars, hydraVars,
           faultVars, At
  <2>3. BeatKnows' /\ SyncKnows'
    BY <2>1 DEF BeatKnows, SyncKnows, Loop, detectVars
  <2>4. QED
    BY <2>1, <2>2, <2>3, StaysJust DEF faultVars
<1>5. ASSUME NEW r \in late, ReceiveLate(r)
      PROVE  LoopsInv'
  <2>1. /\ shown' = [shown EXCEPT ![r.of] = r.says] /\ late' = late \ {r}
        /\ UNCHANGED <<at, hung, cancelled, installed, detectVars, syncVars, faultVars>>
    BY <1>5 DEF ReceiveLate
  <2>2. r.of \in Subject /\ r.says \in Report /\ Just(r.of, r.says)
    BY <1>1 DEF HydraTypes, ToldJustly
  <2>3. HydraTypes' /\ LoopsTypeOK'
    BY <1>1, <2>1, <2>2
       DEF LoopsTypeOK, OwnTypes, HydraTypes, FaultTypes, detectVars, syncVars, faultVars
  <2>4. ToldJustly'
    BY <1>1, <2>1, <2>2 DEF ToldJustly, Just, HydraTypes, faultVars
  <2>5. BeatKnows' /\ SyncKnows'
    BY <2>1, BeatUntouched DEF SyncKnows, syncVars, faultVars
  <2>6. QED
    BY <2>1, <2>3, <2>4, <2>5
<1>6. ASSUME NEW c \in Movable, Change(c)
      PROVE  LoopsInv'
  <2>1. /\ spent' \in [Event -> Nat]
        /\ UNCHANGED <<at, hung, cancelled, detectVars, syncVars, hydraVars, faulted>>
    BY <1>1, <1>6, SpendTypes DEF Change, Event
  <2>2. installed' \subseteq Capability /\ Steady \subseteq installed'
    BY <1>1, <1>6, LoopsAssumption DEF Change, OwnTypes
  <2>3. LoopsTypeOK'
    BY <1>1, <2>1, <2>2
       DEF LoopsTypeOK, OwnTypes, HydraTypes, FaultTypes, detectVars, syncVars, hydraVars
  <2>4. BeatKnows' /\ SyncKnows'
    BY <2>1, BeatUntouched DEF SyncKnows, syncVars
  <2>5. QED
    BY <2>1, <2>2, <2>3, <2>4, StaysJust
<1>7. QED
  BY <1>2, <1>3, <1>4, <1>5, <1>6 DEF Around

LEMMA LoopsInvStays == ASSUME LoopsInv, [LoopsNext]_loopsVars PROVE LoopsInv'
<1>1. ASSUME NEW l \in Loop, LoopStep(l)
      PROVE  LoopsInv'
  BY <1>1, TickStays, ProbesStay, SyncStays, HeartbeatStays DEF LoopStep
<1>2. CASE UNCHANGED loopsVars
  BY <1>2 DEF loopsVars, detectVars, syncVars, hydraVars, faultVars, LoopsInv, LoopsTypeOK,
              ToldJustly, Just, SyncKnows, BeatKnows
<1>3. QED
  BY <1>1, <1>2, AroundStays, HangStays DEF LoopsNext

LEMMA LoopsStart == LoopsInit => LoopsInv
<1> SUFFICES ASSUME LoopsInit
             PROVE  LoopsInv
  OBVIOUS
<1>1. LoopsTypeOK /\ Steady \subseteq installed
  <2>1. Says("none") \in Report
    BY DEF Says, Report
  <2>2. Steady \subseteq installed /\ installed \subseteq Capability
    BY LoopsAssumption DEF LoopsInit
  <2>3. OwnTypes
    <3>1. 1 \in 1..Len(Probes)
      BY ProbesAre
    <3>2. QED
      BY <2>2, <3>1 DEF LoopsInit, OwnTypes, At
  <2>4. HydraTypes /\ FaultTypes
    BY <2>1 DEF LoopsInit, HydraTypes, FaultTypes
  <2>5. QED
    BY <2>2, <2>3, <2>4, TypeParts
<1>2. ToldJustly
  BY DEF LoopsInit, ToldJustly, Just, Says
<1>3. SyncKnows /\ BeatKnows
  BY DEF LoopsInit, SyncKnows, BeatKnows, Loop
<1>4. QED
  BY <1>1, <1>2, <1>3 DEF LoopsInv

----------------------------------------------------------------------------
(* Theorems                                                                 *)

\* Every variable of the manager's loops has its type (manager.go:40-147).
THEOREM LoopsTypeCorrect == LoopsSpec => []LoopsTypeOK
<1>1. LoopsInv => LoopsTypeOK
  BY DEF LoopsInv
<1>2. QED
  BY <1>1, LoopsStart, LoopsInvStays, PTL DEF LoopsSpec

\* A shutdown is never told to Hydra as an item in error, an unreachable
\* cluster or a capability that is missing (main.go:66, manager.go:64-147),
\* whatever fails, hangs, is lost or comes late around it.
THEOREM ShutdownIsNeverAFailure == LoopsSpec => []ShutdownIsNoFailure
<1>1. LoopsInv => ShutdownIsNoFailure
  BY DEF LoopsInv, ToldJustly, Just, ShutdownIsNoFailure, Subject
<1>2. QED
  BY <1>1, LoopsStart, LoopsInvStays, PTL DEF LoopsSpec
----------------------------------------------------------------------------
(* NoFalseAlarm.  The argument: a detection that no probe fails in finds    *)
(* what is installed, up to the probe it is at; and a loop that is about to *)
(* say otherwise met a failure, or its context is cancelled.                *)

\* Nothing of an earlier detection is left.
Blank == at["heartbeat"] \notin {"detect", "beat"} => found["heartbeat"] = {}

\* What a step of a detection does, if no probe fails in it.
LEMMA DetectSteps ==
    ASSUME LoopsInv, NEW l \in Loop, ProbeAnswers(l) \/ ProbeFails(l)
    PROVE  /\ UNCHANGED <<hung, cancelled, installed, syncVars, hydraVars>>
           /\ \A k \in Loop \ {l} : at'[k] = at[k] /\ next'[k] = next[k] /\ found'[k] = found[k]
           /\ at'[l] \in {"detect", "beat", "idle", "policy", "work"}
           /\ l = "heartbeat" /\ at'[l] \notin {"detect", "beat"} => found'[l] = {}
           /\ ProbeAnswers(l) =>
                \/ /\ at'[l] = "detect" /\ next'[l] = next[l] + 1
                   /\ found'[l] = found[l] \cup ({Probes[next[l]]} \cap installed)
                \/ next[l] = 7 /\ at'[l] # "detect" /\ (at'[l] = "beat" => found'[l] = found[l])
<1>1. OwnTypes /\ at[l] = "detect" /\ found[l] \in SUBSET Capability
  BY TypeParts DEF LoopsInv, OwnTypes, ProbeAnswers, ProbeFails, Probing
<1>2. UNCHANGED <<hung, cancelled, installed, syncVars, hydraVars>>
  BY DEF ProbeAnswers, ProbeFails
<1>3. CASE ProbeAnswers(l)
  <2> DEFINE known == found[l] \cup ({Probes[next[l]]} \cap installed)
  <2>1. known \in SUBSET Capability /\ NextProbe(l, known)
    BY <1>1, <1>3 DEF OwnTypes, ProbeAnswers
  <2>2. QED
    BY <1>1, <1>2, <1>3, <2>1, NextProbeTypes DEF Loop
<1>4. CASE ~ProbeAnswers(l) /\ NextProbe(l, found[l])
  BY <1>1, <1>2, <1>4, NextProbeTypes DEF Loop
<1>5. CASE ~ProbeAnswers(l) /\ LeaveDetect(l, AfterError(l))
  <2>1. l = "heartbeat" => found'[l] = {}
    BY <1>1, <1>5 DEF LeaveDetect, AfterError, OwnTypes
  <2>2. QED
    BY <1>1, <1>2, <1>5, <2>1, LeaveDetectTypes
<1>6. QED
  BY <1>3, <1>4, <1>5 DEF ProbeFails

\* The steps of the sync leave the heartbeat alone.
LEMMA SyncAlone ==
    ASSUME LoopsInv, SyncStep
    PROVE  /\ at'["heartbeat"] = at["heartbeat"]
           /\ UNCHANGED <<hung, cancelled, installed, detectVars>>
BY DEF SyncStep, PullState, PullFails, ReportUnreachable, PolicyDone, ReconcileItem, ReportItem,
       ReportReachable, Goto, LoopsInv, LoopsTypeOK, Loop

LEMMA BlankStays == ASSUME LoopsInv, Blank, [LoopsNext]_loopsVars PROVE Blank'
<1> USE DEF Blank
<1>1. at \in [Loop -> At] /\ "heartbeat" \in Loop
  BY DEF LoopsInv, LoopsTypeOK, Loop
<1>2. ASSUME NEW l \in Loop, Tick(l) \/ ReturnFromLoop(l)
      PROVE  Blank'
  BY <1>1, <1>2 DEF Tick, ReturnFromLoop, Goto, FirstStep, detectVars
<1>3. ASSUME NEW l \in Loop, ProbeAnswers(l) \/ ProbeFails(l)
      PROVE  Blank'
  BY <1>1, <1>3, DetectSteps
<1>4. CASE SyncStep
  BY <1>4, SyncAlone DEF detectVars
<1>5. CASE Heartbeat
  BY <1>5 DEF Heartbeat, LoopsInv, LoopsTypeOK, Loop
<1>6. CASE (\E l \in Loop : Hang(l)) \/ Terminate \/ (\E r \in late : ReceiveLate(r))
           \/ (\E c \in Movable : Change(c)) \/ UNCHANGED loopsVars
  BY <1>6 DEF Hang, Terminate, ReceiveLate, Change, loopsVars, detectVars
<1>7. CASE Exit \/ Start
  BY <1>7 DEF Exit, EndProcess, Start, detectVars, Loop
<1>8. QED
  BY <1>2, <1>3, <1>4, <1>5, <1>6, <1>7 DEF LoopsNext, LoopStep, Around

\* Hydra has been told right of s, and will be by what is under way.
ToldRight(s) == Right(s, shown[s]) /\ \A r \in late : r.of = s => Right(s, r.says)

LEMMA ToldKept ==
    ASSUME NEW s, ToldRight(s), UNCHANGED <<hydraVars, installed>>
    PROVE  ToldRight(s)'
BY DEF ToldRight, Right, hydraVars

LEMMA ToldPost ==
    ASSUME HydraTypes, NEW s \in Subject, ToldRight(s), UNCHANGED installed,
           NEW t \in Subject, NEW r, Post(t, r), t = s => cancelled \/ Right(s, r)
    PROVE  ToldRight(s)'
<1>1. CASE UNCHANGED hydraVars
  BY <1>1, ToldKept
<1>2. CASE ~cancelled /\ shown' = [shown EXCEPT ![t] = r] /\ UNCHANGED late
  BY <1>2 DEF ToldRight, Right, HydraTypes
<1>3. CASE ~cancelled /\ UNCHANGED shown /\ late' = late \cup {[of |-> t, says |-> r]}
  <2>1. \A q \in late' : q \in late \/ (q.of = t /\ q.says = r)
    BY <1>3
  <2>2. QED
    BY <1>3, <2>1 DEF ToldRight, Right
<1>4. QED
  BY <1>1, <1>2, <1>3 DEF Post, hydraVars

\* A failure is counted.
LEMMA FaultCounts ==
    ASSUME LoopsTypeOK, NEW x, Fault(x)
    PROVE  spent'["failure"] # spent["failure"]
<1>1. spent["failure"] \in Nat /\ spent'["failure"] = spent["failure"] + 1
  BY DEF Fault, Spend, LoopsTypeOK, Event
<1>2. QED
  BY <1>1

\* A detection that has met no failure finds what is installed.
LEMMA DetectSettled ==
    ASSUME LoopsInv, NEW l \in Loop, ProbeAnswers(l) \/ ProbeFails(l),
           NEW s \in Subject, Settled(s), spent'["failure"] = spent["failure"]
    PROVE  SaysRight(s)'
<1> DEFINE p == Probes[next[l]]
<1>1. /\ LoopsTypeOK /\ UNCHANGED <<cancelled, installed, syncVars>>
      /\ \A k \in Loop \ {l} : at'[k] = at[k] /\ next'[k] = next[k] /\ found'[k] = found[k]
      /\ at'[l] \notin {"report", "unreachable"}
  BY DetectSteps DEF LoopsInv
<1>2. CASE cancelled
  BY <1>1, <1>2 DEF SaysRight
<1>3. CASE ~cancelled
  <2>1. ProbeAnswers(l)
    BY <1>1, <1>3, FaultCounts DEF ProbeFails, Heard
  <2>2. s \in Item \cup {"cluster"} => SaysRight(s)'
    <3>1. "capabilities" \notin Item /\ "cluster" # "capabilities"
      BY LoopsAssumption
    <3>2. QED
      BY <1>1, <1>3, <3>1 DEF SaysRight, Settled, Loop, syncVars
  <2>3. CASE s = "capabilities" /\ l # "heartbeat"
    BY <1>1, <1>3, <2>2, <2>3, LoopsAssumption DEF SaysRight, Settled, Loop, Probed
  <2>4. CASE s = "capabilities" /\ l = "heartbeat"
    <3>1. /\ at[l] = "detect" /\ next[l] \in 1..7
          /\ found[l] = {Probes[n] : n \in 1..(next[l] - 1)} \cap installed
      BY <1>1, <1>3, <2>1, <2>4, ProbesAre
         DEF ProbeAnswers, Probing, Settled, SaysRight, Probed, LoopsTypeOK
    <3>2. CASE at'[l] = "detect"
      <4>1. next'[l] = next[l] + 1 /\ found'[l] = found[l] \cup ({p} \cap installed)
        BY <2>1, <3>1, <3>2, DetectSteps
      <4>2. 1..(next'[l] - 1) = 1..(next[l] - 1) \cup {next[l]}
        BY <3>1, <4>1
      <4>3. {Probes[n] : n \in 1..(next'[l] - 1)} = {Probes[n] : n \in 1..(next[l] - 1)} \cup {p}
        BY <4>2
      <4>4. found'[l] = {Probes[n] : n \in 1..(next'[l] - 1)} \cap installed'
        BY <1>1, <3>1, <4>1, <4>3
      <4>5. QED
        BY <2>4, <3>2, <4>4, LoopsAssumption DEF SaysRight, Probed
    <3>3. CASE at'[l] = "beat"
      <4>1. next[l] = 7 /\ found'[l] = found[l]
        BY <2>1, <3>3, DetectSteps
      <4>2. installed \subseteq Capability /\ \A c \in Capability : \E n \in 1..5 : Probes[n] = c
        BY <1>1, ProbesAre DEF LoopsTypeOK
      <4>3. installed \subseteq {Probes[n] : n \in 1..(next[l] - 1)}
        BY <4>1, <4>2
      <4>4. found'[l] = Capability \cap installed'
        BY <1>1, <3>1, <4>1, <4>2, <4>3
      <4>5. QED
        BY <2>4, <3>3, <4>4, LoopsAssumption DEF SaysRight, Probed
    <3>4. CASE at'[l] \notin {"detect", "beat"}
      BY <2>4, <3>4, LoopsAssumption DEF SaysRight
    <3>5. QED
      BY <3>2, <3>3, <3>4
  <2>5. QED
    BY <2>2, <2>3, <2>4 DEF Subject
<1>4. QED
  BY <1>2, <1>3

\* A sync says otherwise only of what failed, and reports only that.
LEMMA SyncSettled ==
    ASSUME LoopsInv, SyncStep, NEW s \in Subject, Settled(s),
           spent'["failure"] = spent["failure"]
    PROVE  Settled(s)'
<1> USE DEF LoopsInv
<1>1. /\ UNCHANGED <<hung, cancelled, installed, detectVars>> /\ HydraTypes
      /\ at'["heartbeat"] = at["heartbeat"] /\ ToldRight(s) /\ SaysRight(s)
  BY SyncAlone, TypeParts DEF Settled, ToldRight
<1>2. /\ s \in Item => s # "cluster" /\ s # "capabilities"
      /\ s \in Item \cup {"cluster", "capabilities"}
  BY LoopsAssumption DEF Subject
<1>3. ASSUME ToldRight(s)',
             cancelled \/ (s \in Item => ~(at'["sync"] = "report" /\ cur' = s /\ failed')),
             cancelled \/ (s = "cluster" => at'["sync"] # "unreachable")
      PROVE  Settled(s)'
  <2>1. s = "capabilities" /\ ~cancelled =>
          (at'["heartbeat"] \in {"detect", "beat"} => found'["heartbeat"] = Probed' \cap installed')
    BY <1>1 DEF SaysRight, Probed, detectVars
  <2>2. SaysRight(s)'
    BY <1>1, <1>3, <2>1 DEF SaysRight
  <2>3. QED
    BY <1>3, <2>2 DEF Settled, ToldRight
<1>4. \A step : Goto("sync", step) => at'["sync"] = step
  BY DEF Goto, LoopsTypeOK, Loop
<1>5. CASE PullState \/ PullFails \/ PolicyDone
  <2>1. ToldRight(s)'
    BY <1>1, <1>5, ToldKept DEF PullState, PullFails, PolicyDone
  <2>2. at'["sync"] # "report"
    BY <1>4, <1>5 DEF PullState, PullFails, PolicyDone
  <2>3. at'["sync"] = "unreachable" => cancelled
    BY <1>4, <1>5, FaultCounts DEF PullState, PullFails, PolicyDone
  <2>4. QED
    BY <1>3, <2>1, <2>2, <2>3
<1>6. ASSUME NEW i \in Item, ReconcileItem(i)
      PROVE  Settled(s)'
  <2>1. ToldRight(s)' /\ at'["sync"] = "report"
    BY <1>1, <1>4, <1>6, ToldKept DEF ReconcileItem
  <2>2. failed' => cancelled
    BY <1>6, FaultCounts DEF ReconcileItem
  <2>3. QED
    BY <1>3, <2>1, <2>2
<1>7. CASE ReportUnreachable
  <2>1. /\ Post("cluster", Says("unreachable")) /\ at["sync"] = "unreachable"
        /\ at'["sync"] = "idle" /\ "cluster" \in Subject
    BY <1>4, <1>7 DEF ReportUnreachable, Subject
  <2>2. s = "cluster" => cancelled
    BY <1>1, <2>1 DEF SaysRight
  <2>3. ToldRight(s)'
    BY <1>1, <2>1, <2>2, ToldPost
  <2>4. QED
    BY <1>3, <2>1, <2>3
<1>8. CASE ReportItem
  <2> DEFINE r == Says(IF failed THEN "error" ELSE "ok")
  <2>1. /\ Post(cur, r) /\ at["sync"] = "report" /\ at'["sync"] = "work"
        /\ cur \in Item /\ cur \in Subject
    BY <1>4, <1>8 DEF ReportItem, SyncKnows, Subject
  <2>2. cur = s => cancelled \/ Right(s, r)
    BY <1>1, <1>2, <2>1 DEF SaysRight, Right, Says
  <2> HIDE DEF r
  <2>3. ToldRight(s)'
    BY <1>1, <2>1, <2>2, ToldPost
  <2>4. QED
    BY <1>3, <2>1, <2>3
<1>9. CASE ReportReachable
  <2>1. /\ Post("cluster", Says("reachable")) /\ at'["sync"] = "idle" /\ "cluster" \in Subject
    BY <1>4, <1>9 DEF ReportReachable, Subject
  <2>2. s = "cluster" => Right(s, Says("reachable"))
    BY <1>2 DEF Right, Says
  <2>3. ToldRight(s)'
    BY <1>1, <2>1, <2>2, ToldPost
  <2>4. QED
    BY <1>3, <2>1, <2>3
<1>10. QED
  BY <1>5, <1>6, <1>7, <1>8, <1>9 DEF SyncStep

\* So does a heartbeat.
LEMMA HeartbeatSettled ==
    ASSUME LoopsInv, Heartbeat, NEW s \in Subject, Settled(s)
    PROVE  Settled(s)'
<1> USE DEF LoopsInv
<1> DEFINE r == [status |-> "alive", caps |-> found["heartbeat"]]
<1>1. /\ Post("capabilities", r) /\ at["heartbeat"] = "beat" /\ at'["heartbeat"] = "idle"
      /\ at'["sync"] = at["sync"] /\ UNCHANGED <<cancelled, installed, syncVars>>
      /\ "capabilities" \in Subject /\ "capabilities" \notin Item
      /\ installed \subseteq Capability
  BY LoopsAssumption DEF Heartbeat, Goto, LoopsTypeOK, Loop, Subject
<1>2. s = "capabilities" => cancelled \/ Right(s, r)
  BY <1>1 DEF Settled, SaysRight, Right, Probed
<1> HIDE DEF r
<1>3. ToldRight(s)'
  BY <1>1, <1>2, ToldPost, TypeParts DEF Settled, ToldRight
<1>4. SaysRight(s)'
  BY <1>1 DEF Settled, SaysRight, syncVars
<1>5. QED
  BY <1>3, <1>4 DEF Settled, ToldRight

\* So do the loops' ticks, requests that hang, and what happens to the process.
LEMMA AroundSettled ==
    ASSUME LoopsInv, Blank, NEW s \in Subject, Settled(s), UNCHANGED installed,
           \/ \E l \in Loop : Tick(l) \/ ReturnFromLoop(l) \/ Hang(l)
           \/ Around \/ UNCHANGED loopsVars
    PROVE  Settled(s)'
<1> USE DEF LoopsInv
<1>1. ToldRight(s) /\ SaysRight(s) /\ at \in [Loop -> At] /\ HydraTypes
  BY TypeParts DEF Settled, ToldRight, LoopsTypeOK
<1>2. ASSUME UNCHANGED <<at, cancelled, detectVars, syncVars>>
      PROVE  SaysRight(s)'
  BY <1>1, <1>2 DEF SaysRight, Probed, detectVars, syncVars
<1>3. ASSUME UNCHANGED hydraVars, SaysRight(s)'
      PROVE  Settled(s)'
  BY <1>1, <1>3, ToldKept DEF Settled, ToldRight
<1>4. ASSUME NEW l \in Loop, Tick(l) \/ ReturnFromLoop(l)
      PROVE  Settled(s)'
  <2>1. /\ UNCHANGED <<cancelled, detectVars, syncVars, hydraVars>>
        /\ at[l] = "idle" /\ at'[l] \in {"pull", "detect", "returned"}
        /\ \A k \in Loop \ {l} : at'[k] = at[k]
    BY <1>1, <1>4 DEF Tick, ReturnFromLoop, Goto, FirstStep
  <2>2. CASE l = "sync"
    BY <1>1, <1>3, <2>1, <2>2 DEF SaysRight, Probed, detectVars, syncVars, Loop
  <2>3. CASE l = "heartbeat"
    <3>1. next["heartbeat"] = 1 /\ found["heartbeat"] = {}
      BY <2>1, <2>3 DEF Blank, BeatKnows
    <3>2. at'["heartbeat"] # "beat" => Probed' = {}
      BY <2>1, <3>1 DEF Probed, detectVars
    <3>3. SaysRight(s)'
      BY <1>1, <2>1, <2>3, <3>1, <3>2 DEF SaysRight, detectVars, syncVars, Loop
    <3>4. QED
      BY <1>3, <2>1, <3>3
  <2>4. QED
    BY <2>2, <2>3 DEF Loop
<1>5. CASE (\E l \in Loop : Hang(l)) \/ (\E c \in Movable : Change(c)) \/ UNCHANGED loopsVars
  BY <1>2, <1>3, <1>5 DEF Hang, Change, loopsVars
<1>6. CASE Terminate
  BY <1>3, <1>6 DEF Terminate, SaysRight
<1>7. CASE Exit \/ Start
  <2>1. UNCHANGED hydraVars /\ \A l \in Loop : at'[l] \in {"down", "idle"}
    BY <1>7 DEF Exit, EndProcess, Start
  <2>2. SaysRight(s)'
    BY <2>1 DEF SaysRight, Loop
  <2>3. QED
    BY <1>3, <2>1, <2>2
<1>8. ASSUME NEW r \in late, ReceiveLate(r)
      PROVE  Settled(s)'
  <2>1. /\ shown' = [shown EXCEPT ![r.of] = r.says] /\ late' = late \ {r}
        /\ r.of = s => Right(s, r.says)
    BY <1>1, <1>8 DEF ReceiveLate, ToldRight
  <2>2. ToldRight(s)'
    BY <1>1, <2>1 DEF ToldRight, Right, HydraTypes
  <2>3. SaysRight(s)'
    BY <1>2, <1>8 DEF ReceiveLate
  <2>4. QED
    BY <2>2, <2>3 DEF Settled, ToldRight
<1>9. QED
  BY <1>4, <1>5, <1>6, <1>7, <1>8 DEF Around

\* It takes a new failure, or a change of the cluster, to show Hydra a cluster,
\* an item or capabilities otherwise than they are once it is shown them right
\* (ManagerLoops!NoFalseAlarm), whatever is terminated, restarted, hangs or
\* comes late; the safety half of StatusRecovers and CapabilitiesShown.
THEOREM AlarmsAreTrue == LoopsSpec => NoFalseAlarm
<1>1. LoopsInit => Blank
  BY DEF LoopsInit, Blank, Loop
<1>2. LoopsInv /\ Blank /\ [LoopsNext]_loopsVars =>
        [\A s \in Subject :
           Settled(s) /\ UNCHANGED installed /\ spent'["failure"] = spent["failure"]
             => Settled(s)']_loopsVars
  <2> SUFFICES ASSUME LoopsInv, Blank, [LoopsNext]_loopsVars, NEW s \in Subject, Settled(s),
                      UNCHANGED installed, spent'["failure"] = spent["failure"]
               PROVE  Settled(s)'
    OBVIOUS
  <2>1. ASSUME NEW l \in Loop, ProbeAnswers(l) \/ ProbeFails(l)
        PROVE  Settled(s)'
    <3>1. SaysRight(s)' /\ UNCHANGED hydraVars
      BY <2>1, DetectSettled, DetectSteps
    <3>2. QED
      BY <3>1, ToldKept DEF Settled, ToldRight
  <2>2. QED
    BY <2>1, SyncSettled, HeartbeatSettled, AroundSettled DEF LoopsNext, LoopStep
<1>3. QED
  BY <1>1, <1>2, BlankStays, LoopsStart, LoopsInvStays, PTL DEF LoopsSpec, NoFalseAlarm

=============================================================================
