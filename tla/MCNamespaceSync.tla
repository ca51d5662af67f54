-------------------------- MODULE MCNamespaceSync --------------------------
(* A managed and an imported namespace, and quotas with two limits. *)
EXTENDS NamespaceSync

CONSTANTS o1, o2, managed, imported, cpu, mem, a1

NamespaceKeys == {[of |-> t, in |-> n] : t \in {"namespace", "quota"}, n \in Namespace}

\* No limits, and two of which both, one or none parse.
NoLimits == [r \in Resource |-> "unset"]
BothParse == [r \in Resource |-> a1]
OneParses == [r \in Resource |-> IF r = cpu THEN a1 ELSE "bad"]
NoneParses == [r \in Resource |-> "bad"]

FourLimits == {NoLimits, BothParse, OneParses, NoneParses}

FirstLimits == [n \in Namespace |-> IF n = managed THEN BothParse ELSE NoLimits]

NamespaceWants == {Active, Terminating} \cup {Hard(q) : q \in Limits}
=============================================================================
