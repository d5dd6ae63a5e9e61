SPECIFICATION Spec
CONSTANTS
    NumRecords = 2
    c1 = c1
    Callers <- MCCallers
    Builds <- MCBuilds
    MaxText = 2
CHECK_DEADLOCK FALSE
INVARIANTS
    VectorsMatchTheirContract
    ObservedBuildsAreTested
    ActiveGenerationStaysComplete
    SearchSeesOneGeneration
PROPERTIES
    RelabelKeepsComparableVectors
