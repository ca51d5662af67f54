SPECIFICATION FairLoopsSpec
CONSTANTS
    i1 = i1
    Item = {i1}
    Steady <- KnativeCluster
    Movable <- Moving
    Limit <- HangTwice
    MaxEvents = 2
INVARIANTS
    LoopsTypeOK
    ShutdownIsNoFailure
PROPERTIES
    LoopsGoOn
    CapabilitiesShown
    StatusRecovers
    NoFalseAlarm
CHECK_DEADLOCK FALSE
