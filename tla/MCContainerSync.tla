-------------------------- MODULE MCContainerSync --------------------------
(* At most two operators, two containers and one custom domain; the runs    *)
(* choose which of them take part.                                          *)
EXTENDS ContainerSync

CONSTANTS o1, o2, c1, c2, n1, h1

OneNamespace == [c \in Container |-> n1]
=============================================================================
