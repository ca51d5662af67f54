SPECIFICATION ReportsSpec
CONSTANTS
    o1 = o1
    o2 = o2
    c1 = c1
    c2 = c2
    h1 = h1
    n1 = n1
    n2 = n2
    None = None
    Operator = {o1}
    Container = {c1}
    Host = {}
    NsOf <- OneNamespace
    Deployed = {c1}
    Inadmissible = {}
    OpenShift = FALSE
    Readiness = {"Unknown", "True"}
    MaxEdits = 1
    MaxLate = 0
    MaxCrashes = 0
    MaxLateReports = 0
    HostWithID = {}
PROPERTIES
    RunningIsObserved
