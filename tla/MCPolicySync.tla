---------------------------- MODULE MCPolicySync ----------------------------
(* At most two kinds of constraint; the last one takes the list. *)
EXTENDS PolicySync

CONSTANTS o1, o2, limits, repos, other, fixed, l1, l2

TwoKinds == <<limits, repos>>

PolicyKeys == {[of |-> t, kind |-> k] : t \in {"template", "constraint"}, k \in {limits, repos}}
=============================================================================
