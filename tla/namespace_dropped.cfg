SPECIFICATION NamespaceSpec
CONSTANTS
    o1 = o1
    o2 = o2
    managed = managed
    imported = imported
    cpu = cpu
    mem = mem
    a1 = a1
    Active = Active
    Terminating = Terminating
    None = None
    Operator = {o1}
    Key <- NamespaceKeys
    Want <- NamespaceWants
    Rejected = {}
    Readiness = {"Unknown"}
    MaxLate = 0
    Namespace = {managed, imported}
    Managed = {managed}
    Resource = {cpu, mem}
    Amount = {a1}
    Chosen <- FourLimits
    InitialLimits <- FirstLimits
    MaxEdits = 1
    MaxOutside = 0
    MaxFailures = 0
INVARIANT SyncedMeansMatching
