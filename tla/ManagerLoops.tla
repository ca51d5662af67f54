---------------------------- MODULE ManagerLoops ----------------------------
(***************************************************************************)
(* The process around a sync (manager.go:40-147, detector.go:61-107,       *)
(* main.go:66-85, 136-140): the sync loop and the heartbeat loop run       *)
(* side by side under one context, both detect the capabilities of the     *)
(* cluster, SIGTERM cancels the context in the middle of what they do, and *)
(* main() exits without waiting for them.                                  *)
(*                                                                         *)
(* What a reconcile does to the cluster is in ContainerSync, NamespaceSync *)
(* and PolicySync; here it succeeds or fails.  The requests to Hydra have  *)
(* a timeout.  Those to the API server have none and may hang; a cancelled *)
(* context ends them, but for the discovery requests, which do not take it.*)
(***************************************************************************)
EXTENDS Sequences, Naturals

CONSTANTS
    Item,         \* what a sync reconciles and reports on: namespaces, containers
    Steady,       \* capabilities that the cluster always has
    Movable,      \* capabilities that the platform team adds or removes
    Limit,        \* bound: how often each of the events happens
    MaxEvents     \* bound: how many of them happen in all

\* Capabilities added or removed, requests that fail for another reason than
\* SIGTERM, requests that never return, SIGTERMs, and requests to Hydra that
\* are given up on and still under way.
Event == {"change", "failure", "hang", "term", "late"}

Loop == {"sync", "heartbeat"}
Capability == {"openshift", "gateway", "knative", "gatekeeper", "kourier"}

\* Detect's probes in their order; the last two are not of a capability.
Probes == <<"openshift", "gateway", "knative", "gatekeeper", "kourier", "version", "nodes">>

\* The probes through the discovery client, which takes no context.
Discovery == {"openshift", "gateway", "knative", "gatekeeper", "version"}

NoItem == "none"

ASSUME LoopsAssumption ==
    /\ Steady \subseteq Capability /\ Movable \subseteq Capability \ Steady
    /\ Item \cap (Capability \cup {"hydra", "version", "nodes", "cluster", "capabilities", NoItem}) = {}
    /\ Limit \in [Event -> Nat] /\ MaxEvents \in Nat

VARIABLES
    at,          \* where each loop stands
    next,        \* the probe that each loop's Detect is at
    found,       \* the capabilities that it has found
    hung,        \* does the loop wait for an answer that never comes?
    todo,        \* items that the sync has still to visit
    cur,         \* the item just reconciled
    failed,      \* did its reconcile fail?
    cancelled,   \* has SIGTERM cancelled the context?
    shown,       \* Hydra: the last received on each subject
    late,        \* requests to Hydra given up on that may still be received
    installed,   \* the capabilities of the cluster
    spent,       \* how often each event has happened
    faulted      \* history: what has failed for another reason than SIGTERM

detectVars == <<next, found>>
syncVars == <<todo, cur, failed>>
hydraVars == <<shown, late>>
faultVars == <<spent, faulted>>
loopsVars == <<at, hung, cancelled, installed, detectVars, syncVars, hydraVars, faultVars>>

At == {"down", "idle", "returned", "pull", "unreachable", "detect",
       "policy", "work", "report", "summary", "beat"}

Subject == Item \cup {"cluster", "capabilities"}
Report == [status : {"none", "ok", "error", "reachable", "unreachable", "alive"},
           caps : SUBSET Capability]
Says(status) == [status |-> status, caps |-> {}]

Goto(l, step) == at' = [at EXCEPT ![l] = step]

Spend(event) ==
    /\ spent[event] < Limit[event]
    /\ spent["change"] + spent["failure"] + spent["hang"] + spent["term"] + spent["late"]
         < MaxEvents
    /\ spent' = [spent EXCEPT ![event] = @ + 1]

\* The request about x fails.
Fault(x) == Spend("failure") /\ faulted' = faulted \cup {x}

----------------------------------------------------------------------------
(* Requests to Hydra: all of them carry the context of the loop             *)

\* (A bug: the report is sent under a context of its own.)
PostAnyway(subject, says) ==
    /\ shown' = [shown EXCEPT ![subject] = says]
    /\ UNCHANGED <<late, faultVars>>

\* A cancelled context keeps a request from being sent.  One that is sent is
\* received, lost, or given up on while it is still under way.
Post(subject, says) ==
    \/ cancelled /\ UNCHANGED <<hydraVars, faultVars>>
    \/ /\ ~cancelled
       /\ shown' = [shown EXCEPT ![subject] = says]
       /\ UNCHANGED <<late, faultVars>>
    \/ /\ ~cancelled /\ Spend("failure")
       /\ UNCHANGED <<hydraVars, faulted>>
    \/ /\ ~cancelled /\ Spend("late")
       /\ late' = late \cup {[of |-> subject, says |-> says]}
       /\ UNCHANGED <<shown, faulted>>

ReceiveLate(r) ==
    /\ r \in late
    /\ shown' = [shown EXCEPT ![r.of] = r.says]
    /\ late' = late \ {r}
    /\ UNCHANGED <<at, hung, cancelled, installed, detectVars, syncVars, faultVars>>

----------------------------------------------------------------------------
(* runLoop                                                                  *)

FirstStep(l) == IF l = "sync" THEN "pull" ELSE "detect"

\* (A bug: one goroutine serves both tickers.)
TickAlone(l) ==
    /\ \A k \in Loop : at[k] = "idle"
    /\ Goto(l, FirstStep(l))
    /\ UNCHANGED <<hung, cancelled, installed, detectVars, syncVars, hydraVars, faultVars>>

\* The first tick is at once.  When the context is cancelled and the ticker
\* has fired, select takes either.
Tick(l) ==
    /\ at[l] = "idle"
    /\ Goto(l, FirstStep(l))
    /\ UNCHANGED <<hung, cancelled, installed, detectVars, syncVars, hydraVars, faultVars>>

ReturnFromLoop(l) ==
    /\ at[l] = "idle" /\ cancelled
    /\ Goto(l, "returned")
    /\ UNCHANGED <<hung, cancelled, installed, detectVars, syncVars, hydraVars, faultVars>>

----------------------------------------------------------------------------
(* Detect, in either loop                                                   *)

\* Where a loop goes on: after an error the heartbeat is not sent, and the
\* sync goes on without its policy.
AfterDetect(l, known) ==
    IF l = "heartbeat" THEN "beat"
    ELSE IF "gatekeeper" \in known THEN "policy" ELSE "work"

AfterError(l) == IF l = "heartbeat" THEN "idle" ELSE "work"

\* Each detection begins with the first probe and nothing found.
LeaveDetect(l, step) ==
    /\ Goto(l, step)
    /\ next' = [next EXCEPT ![l] = 1]
    /\ found' = [found EXCEPT ![l] = IF step = "beat" THEN @ ELSE {}]

\* (A bug: the last probe is followed by another one.)
NextProbeForEver(l, known) ==
    /\ next' = [next EXCEPT ![l] = @ + 1]
    /\ found' = [found EXCEPT ![l] = known]
    /\ UNCHANGED at

\* On to the next probe, with what is known now.
NextProbe(l, known) ==
    IF next[l] < Len(Probes)
    THEN /\ next' = [next EXCEPT ![l] = @ + 1]
         /\ found' = [found EXCEPT ![l] = known]
         /\ UNCHANGED at
    ELSE LeaveDetect(l, AfterDetect(l, known))

Probing(l) == at[l] = "detect" /\ ~hung[l]

\* Can probe p still be answered?
Heard(p) == p \in Discovery \/ ~cancelled

ProbeAnswers(l) ==
    LET p == Probes[next[l]]
    IN  /\ Probing(l) /\ Heard(p)
        /\ NextProbe(l, found[l] \cup ({p} \cap installed))
        /\ UNCHANGED <<hung, cancelled, installed, syncVars, hydraVars, faultVars>>

\* The error of a capability's probe reads as its absence; one of the version
\* or of the node list is the error of Detect.
ProbeFails(l) ==
    LET p == Probes[next[l]]
    IN  /\ Probing(l)
        /\ Fault(p) \/ (~Heard(p) /\ UNCHANGED faultVars)
        /\ IF p \in Capability THEN NextProbe(l, found[l])
                               ELSE LeaveDetect(l, AfterError(l))
        /\ UNCHANGED <<hung, cancelled, installed, syncVars, hydraVars>>

\* (A bug: what an earlier detection found is kept.)
HeartbeatKeeping ==
    /\ at["heartbeat"] = "beat"
    /\ Post("capabilities", [status |-> "alive", caps |-> found["heartbeat"]])
    /\ Goto("heartbeat", "idle")
    /\ UNCHANGED <<hung, cancelled, installed, detectVars, syncVars>>

\* HeartbeatOnce, after a detection without error.
Heartbeat ==
    /\ at["heartbeat"] = "beat"
    /\ Post("capabilities", [status |-> "alive", caps |-> found["heartbeat"]])
    /\ Goto("heartbeat", "idle")
    /\ found' = [found EXCEPT !["heartbeat"] = {}]
    /\ UNCHANGED <<hung, cancelled, installed, next, syncVars>>

----------------------------------------------------------------------------
(* SyncOnce                                                                 *)

PullState ==
    /\ at["sync"] = "pull" /\ ~cancelled
    /\ Goto("sync", "detect")
    /\ todo' = Item
    /\ UNCHANGED <<hung, cancelled, installed, detectVars, cur, failed, hydraVars, faultVars>>

PullFails ==
    /\ at["sync"] = "pull"
    /\ Fault("hydra") \/ (cancelled /\ UNCHANGED faultVars)
    /\ Goto("sync", "unreachable")
    /\ UNCHANGED <<hung, cancelled, installed, detectVars, syncVars, hydraVars>>

\* (A bug: a failed pull ends the loop, not just the sync.)
ReportUnreachableAndReturn ==
    /\ at["sync"] = "unreachable"
    /\ Post("cluster", Says("unreachable"))
    /\ Goto("sync", "returned")
    /\ UNCHANGED <<hung, cancelled, installed, detectVars, syncVars>>

ReportUnreachable ==
    /\ at["sync"] = "unreachable"
    /\ Post("cluster", Says("unreachable"))
    /\ Goto("sync", "idle")
    /\ UNCHANGED <<hung, cancelled, installed, detectVars, syncVars>>

\* Whatever comes of the policy, it does not keep the sync from going on.
PolicyDone ==
    /\ at["sync"] = "policy" /\ ~hung["sync"]
    /\ Goto("sync", "work")
    /\ UNCHANGED <<hung, cancelled, installed, detectVars, syncVars, hydraVars, faultVars>>

\* Reconcile one item.  Under a cancelled context it fails.
ReconcileItem(i) ==
    /\ at["sync"] = "work" /\ ~hung["sync"] /\ i \in todo
    /\ Goto("sync", "report")
    /\ todo' = todo \ {i}
    /\ cur' = i
    /\ \/ ~cancelled /\ failed' = FALSE /\ UNCHANGED faultVars
       \/ cancelled /\ failed' = TRUE /\ UNCHANGED faultVars
       \/ Fault(i) /\ failed' = TRUE
    /\ UNCHANGED <<hung, cancelled, installed, detectVars, hydraVars>>

ReportItem ==
    /\ at["sync"] = "report"
    /\ Post(cur, Says(IF failed THEN "error" ELSE "ok"))
    /\ Goto("sync", "work")
    /\ cur' = NoItem /\ failed' = FALSE
    /\ UNCHANGED <<hung, cancelled, installed, detectVars, todo>>

ReportReachable ==
    /\ at["sync"] = "work" /\ ~hung["sync"] /\ todo = {}
    /\ Post("cluster", Says("reachable"))
    /\ Goto("sync", "idle")
    /\ UNCHANGED <<hung, cancelled, installed, detectVars, syncVars>>

\* Is the loop at a request that a cancelled context does not end?
Uncancellable(l) == at[l] = "detect" /\ Probes[next[l]] \in Discovery

\* A request to the API server is not answered, and has no deadline.
Hang(l) ==
    /\ ~hung[l] /\ (~cancelled \/ Uncancellable(l))
    /\ at[l] \in {"detect", "policy"} \/ (at[l] = "work" /\ todo # {})
    /\ Spend("hang")
    /\ hung' = [hung EXCEPT ![l] = TRUE]
    /\ UNCHANGED <<at, cancelled, installed, detectVars, syncVars, hydraVars, faulted>>

SyncStep ==
    \/ PullState \/ PullFails \/ ReportUnreachable
    \/ PolicyDone \/ (\E i \in Item : ReconcileItem(i)) \/ ReportItem \/ ReportReachable

LoopStep(l) ==
    \/ Tick(l) \/ ReturnFromLoop(l)
    \/ ProbeAnswers(l) \/ ProbeFails(l)
    \/ l = "sync" /\ SyncStep
    \/ l = "heartbeat" /\ Heartbeat

----------------------------------------------------------------------------
(* The process and its cluster                                              *)

Terminate ==
    /\ ~cancelled /\ \A l \in Loop : at[l] # "down"
    /\ Spend("term")
    /\ cancelled' = TRUE
    /\ hung' = [l \in Loop |-> hung[l] /\ Uncancellable(l)]
    /\ UNCHANGED <<at, installed, detectVars, syncVars, hydraVars, faulted>>

EndProcess ==
    /\ at' = [l \in Loop |-> "down"]
    /\ next' = [l \in Loop |-> 1]
    /\ found' = [l \in Loop |-> {}]
    /\ hung' = [l \in Loop |-> FALSE]
    /\ todo' = {} /\ cur' = NoItem /\ failed' = FALSE
    /\ cancelled' = FALSE
    /\ UNCHANGED <<installed, hydraVars, faultVars>>

\* (A bug: main waits for the loops.)
ExitWhenReturned == cancelled /\ (\A l \in Loop : at[l] = "returned") /\ EndProcess

\* main() returns, whatever the loops are doing.
Exit == cancelled /\ EndProcess

\* The next process of the pod, once startup is over (Startup).
Start ==
    /\ \A l \in Loop : at[l] = "down"
    /\ at' = [l \in Loop |-> "idle"]
    /\ UNCHANGED <<hung, cancelled, installed, detectVars, syncVars, hydraVars, faultVars>>

Change(c) ==
    /\ Spend("change")
    /\ installed' = IF c \in installed THEN installed \ {c} ELSE installed \cup {c}
    /\ UNCHANGED <<at, hung, cancelled, detectVars, syncVars, hydraVars, faulted>>

Around ==
    \/ Terminate \/ Exit \/ Start
    \/ \E r \in late : ReceiveLate(r)
    \/ \E c \in Movable : Change(c)

LoopsInit ==
    /\ at = [l \in Loop |-> "down"]
    /\ next = [l \in Loop |-> 1]
    /\ found = [l \in Loop |-> {}]
    /\ hung = [l \in Loop |-> FALSE]
    /\ todo = {} /\ cur = NoItem /\ failed = FALSE
    /\ cancelled = FALSE
    /\ shown = [s \in Subject |-> Says("none")]
    /\ late = {}
    /\ installed \in {Steady \cup m : m \in SUBSET Movable}
    /\ spent = [e \in Event |-> 0]
    /\ faulted = {}

LoopsNext == Around \/ \E l \in Loop : LoopStep(l) \/ Hang(l)

LoopsSpec == LoopsInit /\ [][LoopsNext]_loopsVars

\* The loops never wait for anything but requests that hang; main() exits,
\* and the kubelet starts it again; what is under way arrives.
FairLoopsSpec ==
    /\ LoopsSpec
    /\ \A l \in Loop : WF_loopsVars(LoopStep(l))
    /\ WF_loopsVars(Exit) /\ WF_loopsVars(Start)
    /\ WF_loopsVars(\E r \in late : ReceiveLate(r))

----------------------------------------------------------------------------
(* Properties                                                               *)

\* Every variable has its type.
LoopsTypeOK ==
    /\ at \in [Loop -> At] /\ hung \in [Loop -> BOOLEAN]
    /\ next \in [Loop -> 1..Len(Probes)] /\ found \in [Loop -> SUBSET Capability]
    /\ todo \subseteq Item /\ cur \in Item \cup {NoItem} /\ failed \in BOOLEAN
    /\ cancelled \in BOOLEAN
    /\ shown \in [Subject -> Report]
    /\ late \subseteq [of : Subject, says : Report]
    /\ installed \subseteq Capability
    /\ spent \in [Event -> Nat]
    /\ faulted \subseteq Item \cup {"hydra"} \cup {Probes[n] : n \in DOMAIN Probes}

\* A SIGTERM in the middle of a sync or a heartbeat makes every request that
\* is left fail, and Hydra is never told of it: it is shown an item in error,
\* an unreachable cluster or a capability missing only if something failed
\* that was not the shutdown (main.go:66, manager.go:64-147: the reports are
\* made under the very context that was cancelled).
ShutdownIsNoFailure ==
    /\ \A i \in Item : shown[i].status = "error" => i \in faulted
    /\ shown["cluster"].status = "unreachable" => "hydra" \in faulted
    /\ shown["capabilities"].status = "alive" =>
         Steady \subseteq shown["capabilities"].caps \cup faulted

\* A report on s that is as it should be.
Right(s, r) ==
    /\ s \in Item => r.status = "ok"
    /\ s = "cluster" => r.status = "reachable"
    /\ s = "capabilities" => r.status = "alive" /\ r.caps = installed

\* The probes that the heartbeat's detection is done with.
Probed ==
    IF at["heartbeat"] = "beat" THEN Capability
    ELSE {Probes[n] : n \in 1..(next["heartbeat"] - 1)}

\* Will the loops say nothing else of s, if they still can?
SaysRight(s) ==
    \/ cancelled
    \/ /\ s \in Item => ~(at["sync"] = "report" /\ cur = s /\ failed)
       /\ s = "cluster" => at["sync"] # "unreachable"
       /\ s = "capabilities" =>
            (at["heartbeat"] \in {"detect", "beat"} => found["heartbeat"] = Probed \cap installed)

\* Hydra is shown s as it is, and nothing else is on its way.
Settled(s) ==
    /\ Right(s, shown[s]) /\ SaysRight(s)
    /\ \A r \in late : r.of = s => Right(s, r.says)

\* Once Hydra is shown a reachable cluster, an item as reconciled or the
\* capabilities as they are, it takes a new failure, or a new capability, to
\* show anything else: neither a SIGTERM in the middle of a detection or a
\* reconcile, nor the next process, nor a request that hangs, nor a report that
\* comes late undoes it (manager.go:64-147, main.go:66-85).
NoFalseAlarm ==
    [][\A s \in Subject :
         Settled(s) /\ UNCHANGED installed /\ spent'["failure"] = spent["failure"]
           => Settled(s)']_loopsVars

\* A loop that hangs holds up neither the other (manager.go:41-43) nor the
\* shutdown (main.go:136-140): as long as a loop's own requests return, it
\* ticks and finishes again and again, also in the processes that follow a
\* SIGTERM which found the other one hanging.
LoopsGoOn ==
    \A l \in Loop :
        <>[]~hung[l] => []<>(at[l] = "idle") /\ []<>(at[l] = FirstStep(l))

\* Once the failures are over Hydra is shown the capabilities that the
\* cluster has, also when they change in the middle of a detection, a probe
\* failed in one, a process was terminated in one, or a late heartbeat arrives
\* after a newer one (manager.go:64-82).
CapabilitiesShown ==
    <>[]~hung["heartbeat"] => <>[](shown["capabilities"].caps = installed)

\* Once the failures are over Hydra is shown a reachable cluster and every
\* item as reconciled, and it stays so: an error, an "unreachable" or a late
\* report of either does not remain (manager.go:88-147).
StatusRecovers ==
    <>[]~hung["sync"] => <>[](/\ shown["cluster"].status = "reachable"
                              /\ \A i \in Item : shown[i].status = "ok")
=============================================================================
