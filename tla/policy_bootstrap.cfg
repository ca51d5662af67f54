SPECIFICATION FairPolicySpec
CONSTANTS
    o1 = o1
    o2 = o2
    limits = limits
    repos = repos
    other = other
    fixed = fixed
    l1 = l1
    l2 = l2
    None = None
    Operator = {o1}
    Key <- PolicyKeys
    Want = {fixed, l1}
    Rejected = {}
    Readiness = {"Unknown"}
    Kinds <- TwoKinds
    Other = other
    Fixed = fixed
    MaxLate = 0
    MaxEdits = 0
    MaxFailures = 0
PROPERTIES
    PresentMeansEnforced
