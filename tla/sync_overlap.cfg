SPECIFICATION ServiceSpec
CONSTANTS
    o1 = o1
    o2 = o2
    c1 = c1
    c2 = c2
    h1 = h1
    n1 = n1
    None = None
    Operator = {o1, o2}
    Container = {c1}
    Host = {}
    NsOf <- OneNamespace
    Deployed = {c1}
    Inadmissible = {}
    OpenShift = FALSE
    Readiness = {"Unknown", "True"}
    MaxEdits = 2
    MaxLate = 0
    MaxCrashes = 0
INVARIANTS
    NoLostUpdate
PROPERTIES
    Convergence
    AppliesPublished
    SettledStays
