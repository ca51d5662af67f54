------------------------------ MODULE Startup ------------------------------
(***************************************************************************)
(* An operator pod from its start to the sync loop (main.go:41-140): the   *)
(* Knative preflight check, the cluster token in its Secret (tokenstore),  *)
(* and the exchange of a single-use registration token for a cluster token *)
(* if the Secret holds none (hydraclient.Register).  Every error on the    *)
(* way is fatal: the process exits and the kubelet starts it again.        *)
(*                                                                         *)
(* Processes: the pods (a rolling update lets two of them run at once),    *)
(* the platform team that may install Knative and may have Hydra issue     *)
(* another registration token, and whatever kills pods.                    *)
(*                                                                         *)
(* Registration tokens are numbered; Hydra gives cluster token t in        *)
(* exchange for registration token t, once.                                *)
(***************************************************************************)
EXTENDS Naturals

CONSTANTS
    Pod,        \* operator pods
    MaxGrants,  \* bound: registration tokens issued
    MaxKills    \* bound: pods killed

ASSUME StartupAssumption == MaxGrants \in Nat /\ MaxKills \in Nat

VARIABLES
    served,     \* does the API server serve serving.knative.dev/v1?
    grant,      \* the newest registration token, 0 if there is none
    used,       \* Hydra: registration tokens already exchanged
    secret,     \* the token Secret
    pc,         \* where main() stands in each pod
    config,     \* hydra.registration_token of the running process
    token,      \* the cluster token its Hydra client works with
    verdict,    \* why the last process of the pod exited
    kills       \* number of pods killed

clusterVars == <<served, grant, used>>
podVars == <<pc, config, token, verdict>>
vars == <<clusterVars, secret, podVars, kills>>

Token == 1..MaxGrants
NoToken == 0
Absent == MaxGrants + 1  \* there is no Secret; NoToken: it holds no token

PC == {"down", "preflight", "load", "register", "create", "update", "run"}
Verdict == {"none", "knative missing", "error"}

----------------------------------------------------------------------------
(* main(), step by step *)

\* The process starts with the configuration of the moment.
Boot(p) ==
    /\ pc[p] = "down"
    /\ pc' = [pc EXCEPT ![p] = "preflight"]
    /\ config' = [config EXCEPT ![p] = grant]
    /\ verdict' = [verdict EXCEPT ![p] = "none"]
    /\ UNCHANGED <<clusterVars, secret, token, kills>>

\* log.Fatal; the token in memory is lost.
Exit(p, v) ==
    /\ pc' = [pc EXCEPT ![p] = "down"]
    /\ verdict' = [verdict EXCEPT ![p] = v]
    /\ token' = [token EXCEPT ![p] = NoToken]
    /\ config' = [config EXCEPT ![p] = NoToken]

Goto(p, step) ==
    /\ pc' = [pc EXCEPT ![p] = step]
    /\ UNCHANGED <<config, verdict>>

\* checkKnativeAvailable: /readyz answers 200 from here on.
PreflightPasses(p) ==
    /\ pc[p] = "preflight" /\ served
    /\ Goto(p, "load")
    /\ UNCHANGED <<clusterVars, secret, token, kills>>

\* Any error of the discovery probe reads as a missing API group; an error
\* of the version or the node list is reported as what it is.
PreflightFails(p) ==
    /\ pc[p] = "preflight"
    /\ Exit(p, "knative missing") \/ Exit(p, "error")
    /\ UNCHANGED <<clusterVars, secret, kills>>

\* (A bug: the Secret's content is used without looking whether it has one.)
LoadsAnything(p) ==
    /\ pc[p] = "load" /\ secret # NoToken
    /\ token' = [token EXCEPT ![p] = secret]
    /\ Goto(p, "run")
    /\ UNCHANGED <<clusterVars, secret, kills>>

\* (A bug: every start registers, whether a token is persisted or not.)
LoadIgnored(p) ==
    /\ pc[p] = "load" /\ secret \in Token
    /\ Goto(p, "register")
    /\ UNCHANGED <<clusterVars, secret, token, kills>>

LoadsToken(p) ==
    /\ pc[p] = "load" /\ secret \in Token
    /\ token' = [token EXCEPT ![p] = secret]
    /\ Goto(p, "run")
    /\ UNCHANGED <<clusterVars, secret, kills>>

LoadsNothing(p) ==
    /\ pc[p] = "load" /\ secret \notin Token /\ config[p] # NoToken
    /\ Goto(p, "register")
    /\ UNCHANGED <<clusterVars, secret, token, kills>>

\* Hydra exchanges the registration token, and its answer arrives.
Register(p) ==
    /\ pc[p] = "register" /\ config[p] \notin used
    /\ used' = used \cup {config[p]}
    /\ token' = [token EXCEPT ![p] = config[p]]
    /\ Goto(p, "create")
    /\ UNCHANGED <<served, grant, secret, kills>>

\* Hydra exchanges the registration token, and its answer is lost.
RegisterUnheard(p) ==
    /\ pc[p] = "register" /\ config[p] \notin used
    /\ used' = used \cup {config[p]}
    /\ Exit(p, "error")
    /\ UNCHANGED <<served, grant, secret, kills>>

\* Save creates the Secret ...
SaveCreates(p) ==
    /\ pc[p] = "create" /\ secret = Absent
    /\ secret' = token[p]
    /\ Goto(p, "run")
    /\ UNCHANGED <<clusterVars, token, kills>>

\* ... or, if there is one already, replaces it whatever it holds.
SaveFindsSecret(p) ==
    /\ pc[p] = "create" /\ secret # Absent
    /\ Goto(p, "update")
    /\ UNCHANGED <<clusterVars, secret, token, kills>>

SaveUpdates(p) ==
    /\ pc[p] = "update"
    /\ secret' = token[p]
    /\ Goto(p, "run")
    /\ UNCHANGED <<clusterVars, token, kills>>

\* (A bug: failing to persist the token is not fatal.)
FatalUnlessSaving(p) ==
    /\ pc[p] \in {"load", "register", "create", "update"}
    /\ UNCHANGED secret
    /\ IF pc[p] \in {"create", "update"} THEN Goto(p, "run") /\ UNCHANGED token
                                        ELSE Exit(p, "error")
    /\ UNCHANGED <<clusterVars, kills>>

\* Loading, registering (the token is unset, used or expired) or saving
\* fails, without effect or, for a save, with its answer lost.
Fatal(p) ==
    /\ pc[p] \in {"load", "register", "create", "update"}
    /\ \/ UNCHANGED secret
       \/ /\ (pc[p] = "create" /\ secret = Absent) \/ pc[p] = "update"
          /\ secret' = token[p]
    /\ Exit(p, "error")
    /\ UNCHANGED <<clusterVars, kills>>

\* SIGTERM, eviction, node loss.
Kill(p) ==
    /\ pc[p] # "down" /\ kills < MaxKills
    /\ kills' = kills + 1
    /\ Exit(p, "none")
    /\ UNCHANGED <<clusterVars, secret>>

----------------------------------------------------------------------------
(* The platform team *)

InstallKnative ==
    /\ ~served /\ served' = TRUE
    /\ UNCHANGED <<grant, used, secret, podVars, kills>>

\* Hydra issues another registration token, which the next boot will read.
Grant ==
    /\ grant < MaxGrants
    /\ grant' = grant + 1
    /\ UNCHANGED <<served, used, secret, podVars, kills>>

----------------------------------------------------------------------------
Init ==
    /\ served \in BOOLEAN
    /\ grant = 0
    /\ used = {}
    /\ secret \in {Absent, NoToken}
    /\ pc = [p \in Pod |-> "down"]
    /\ config = [p \in Pod |-> NoToken]
    /\ token = [p \in Pod |-> NoToken]
    /\ verdict = [p \in Pod |-> "none"]
    /\ kills = 0

Step(p) ==
    \/ Boot(p)
    \/ PreflightPasses(p) \/ PreflightFails(p)
    \/ LoadsToken(p) \/ LoadsNothing(p)
    \/ Register(p) \/ RegisterUnheard(p)
    \/ SaveCreates(p) \/ SaveFindsSecret(p) \/ SaveUpdates(p)
    \/ Fatal(p)

Next == InstallKnative \/ Grant \/ \E p \in Pod : Step(p) \/ Kill(p)

Spec == Init /\ [][Next]_vars

\* The kubelet restarts what exits, main() never waits for ever, and the
\* API server does not fail the same request for ever.
Fairness ==
    \A p \in Pod :
        /\ WF_vars(Step(p))
        /\ SF_vars(PreflightPasses(p))
        /\ SF_vars(LoadsToken(p))

FairSpec == Spec /\ Fairness

----------------------------------------------------------------------------
(* Properties *)

\* Every variable has its type.
TypeOK ==
    /\ served \in BOOLEAN
    /\ grant \in 0..MaxGrants /\ used \subseteq Token
    /\ secret \in Token \cup {Absent, NoToken}
    /\ pc \in [Pod -> PC] /\ verdict \in [Pod -> Verdict]
    /\ config \in [Pod -> 0..MaxGrants] /\ token \in [Pod -> 0..MaxGrants]
    /\ kills \in 0..MaxKills

\* A pod that reconciles works with a token Hydra gave it, and the Secret
\* holds such a token too: whatever happens to the pod, its successor needs
\* no registration token (main.go:101-120, tokenstore.go:1-3).
RunsPersisted ==
    \A p \in Pod : pc[p] = "run" => token[p] \in used /\ secret \in used

\* Once a token is persisted and Knative is there, every pod gets to the sync
\* loop and stays there, however often pods were killed and requests failed,
\* and although the registration token is spent (main.go:101-120).
PersistedTokenSuffices ==
    <>(served /\ secret \in Token) => <>[](\A p \in Pod : pc[p] = "run")

\* The pods that are about to exchange a registration token.
Registering == {p \in Pod : pc[p] = "register"}

\* Once a token is persisted there is one for ever, and registrations come to
\* an end: no pod begins one, and each exchange takes one of those out that
\* had begun, so that a rolling update, whatever is killed, restarted or saved
\* out of order in it, uses up at most one registration token for each pod
\* that was about to register (main.go:101-120, tokenstore.go:45-67).
RegistrationsEnd ==
    [][(secret \in Token) =>
         /\ secret' \in Token
         /\ Registering' \subseteq Registering
         /\ used' # used => Registering' # Registering]_vars
=============================================================================
