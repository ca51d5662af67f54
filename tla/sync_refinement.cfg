SPECIFICATION RouteSpec
CONSTANTS
    o1 = o1
    o2 = o2
    c1 = c1
    c2 = c2
    h1 = h1
    n1 = n1
    None = None
    Operator = {o1}
    Container = {c1, c2}
    Host = {}
    NsOf <- OneNamespace
    Deployed = {c1, c2}
    Inadmissible = {c2}
    OpenShift = TRUE
    Readiness = {"Unknown"}
    MaxEdits = 2
    MaxLate = 1
    MaxCrashes = 1
INVARIANTS
    TypeOK
    NoDanglingObjects
PROPERTIES
    NeverRollsBack
    RouteConvergence
    SettledStays
    FollowsPublishedState
