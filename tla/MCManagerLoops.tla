--------------------------- MODULE MCManagerLoops ---------------------------
(* A cluster with Knative and Kourier, on which Gatekeeper comes or goes.   *)
EXTENDS ManagerLoops

CONSTANTS i1

KnativeCluster == {"knative", "kourier"}
Moving == {"gatekeeper"}

\* Both loops may hang; everything else happens once.
HangTwice == [e \in Event |-> IF e = "hang" THEN 2 ELSE 1]
=============================================================================
