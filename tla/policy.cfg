SPECIFICATION FairPolicySpec
CONSTANTS
    o1 = o1
    o2 = o2
    limits = limits
    repos = repos
    other = other
    fixed = fixed
    l1 = l1
    l2 = l2
    None = None
    Operator = {o1}
    Key <- PolicyKeys
    Want = {fixed, l1, l2}
    Rejected = {}
    Readiness = {"Unknown"}
    Kinds <- TwoKinds
    Other = other
    Fixed = fixed
    MaxLate = 1
    MaxEdits = 2
    MaxFailures = 1
INVARIANTS
    PolicyTypeOK
    TemplatesFirst
PROPERTIES
    PolicyConvergence
    SettledStays
