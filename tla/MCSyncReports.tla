--------------------------- MODULE MCSyncReports ---------------------------
(* One operator, at most two containers and one custom domain; the runs     *)
(* choose which of them take part.                                          *)
EXTENDS SyncReports

CONSTANTS o1, o2, c1, c2, n1, n2, h1

OneNamespace == [c \in Container |-> n1]
=============================================================================
