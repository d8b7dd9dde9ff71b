SPECIFICATION FairSpec
CONSTANTS
    Operations = {o1}
    Responses = {r1}
    TemplateDrafts = {f1}
    Deliveries = {d1, d2}
    Fills = {"onlyoffice", "native", "picture"}
    Faults = {"crash"}
    MaxCrashes = 1
    NoPlan = NoPlan
    NoKey = NoKey
INVARIANTS
    OneFinalizer
    NoOrphansAtRest
PROPERTIES
    EveryOperationSettles
