SPECIFICATION Spec
CONSTANTS
    Operations = {o1, o2}
    Responses = {r1}
    TemplateDrafts = {}
    Deliveries = {}
    Fills = {"picture"}
    Faults = {"ack", "crash"}
    MaxCrashes = 1
    NoPlan = NoPlan
    NoKey = NoKey
SYMMETRY Symmetry
INVARIANTS
    CanonicalStored
    SubmittingIffPending
    OutcomeMatchesRows
PROPERTIES
    NoLostUpdate
    ImplementsOutcomes
