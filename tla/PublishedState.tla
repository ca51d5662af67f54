--------------------------- MODULE PublishedState ---------------------------
(***************************************************************************)
(* What the operator promises Hydra's users for one container's Service    *)
(* (manager.go:85-87): Hydra publishes numbered versions of it, and the    *)
(* cluster follows.  A sync may skip versions, but never goes back and     *)
(* never applies one that was not published; while the container is wanted *)
(* the cluster catches up.                                                 *)
(***************************************************************************)
EXTENDS Naturals

CONSTANTS
    Container,  \* containers Hydra knows
    Served      \* the containers the cluster agrees to run

VARIABLES
    published,  \* the newest version of each container
    wanted,     \* is the container in the desired state?
    applied     \* the version its Service has, 0 if there is none

stateVars == <<published, wanted, applied>>

\* Version 0 of a container is one that was never deployed.
StateInit ==
    /\ published \in [Container -> {0, 1}]
    /\ wanted = [c \in Container |-> published[c] = 1]
    /\ applied = [c \in Container |-> 0]

Publish(c) ==
    /\ published' = [published EXCEPT ![c] = @ + 1]
    /\ wanted' = [wanted EXCEPT ![c] = TRUE]
    /\ UNCHANGED applied

Withdraw(c) ==
    /\ wanted' = [wanted EXCEPT ![c] = FALSE]
    /\ UNCHANGED <<published, applied>>

Advance(c) ==
    /\ \E v \in (applied[c] + 1)..published[c] : applied' = [applied EXCEPT ![c] = v]
    /\ UNCHANGED <<published, wanted>>

StateNext == \E c \in Container : Publish(c) \/ Withdraw(c) \/ Advance(c)

StateSafety == StateInit /\ [][StateNext]_stateVars

\* While a rolling update runs two operator pods, which may have read different
\* states, a Service may be taken back to an older version; but only to one
\* that was published, and it is never removed.
Replace(c) ==
    /\ \E v \in 1..published[c] : applied' = [applied EXCEPT ![c] = v]
    /\ UNCHANGED <<published, wanted>>

OverlapNext == StateNext \/ \E c \in Container : Replace(c)

OverlapSafety == StateInit /\ [][OverlapNext]_stateVars

StateSpec ==
    /\ StateSafety
    /\ \A c \in Served : WF_stateVars(wanted[c] /\ Advance(c))
=============================================================================
