SPECIFICATION DomainSpec
CONSTANTS
    o1 = o1
    o2 = o2
    c1 = c1
    c2 = c2
    h1 = h1
    n1 = n1
    None = None
    Operator = {o1}
    Container = {c1, c2}
    Host = {h1}
    NsOf <- OneNamespace
    Deployed = {c1, c2}
    Inadmissible = {}
    OpenShift = FALSE
    Readiness = {"Unknown"}
    MaxEdits = 2
    MaxLate = 0
    MaxCrashes = 1
INVARIANTS
    NoDanglingObjects
PROPERTIES
    DomainConvergence
