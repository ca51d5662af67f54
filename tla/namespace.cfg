SPECIFICATION FairNamespaceSpec
CONSTANTS
    o1 = o1
    o2 = o2
    managed = managed
    imported = imported
    cpu = cpu
    mem = mem
    a1 = a1
    Active = Active
    Terminating = Terminating
    None = None
    Operator = {o1}
    Key <- NamespaceKeys
    Want <- NamespaceWants
    Rejected = {}
    Readiness = {"Unknown"}
    MaxLate = 1
    Namespace = {managed, imported}
    Managed = {managed}
    Resource = {cpu, mem}
    Amount = {a1}
    Chosen <- FourLimits
    InitialLimits <- FirstLimits
    MaxEdits = 1
    MaxOutside = 1
    MaxFailures = 1
INVARIANTS
    NamespaceTypeOK
    SyncedWasTrue
PROPERTIES
    QuotaConvergence
    OutcomesShown
    NamespacesRespected
    SettledStays
