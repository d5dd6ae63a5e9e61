SPECIFICATION Spec
CONSTANTS
    MaxRun = 7
    Budget = 30
    Envelope = 2
    Heading = 3
    Separator = 2
    Footer = 5
    Opening = 3
    FieldName = 1
    RrfK = 3
    LeastDepth = 2
    MostDepth = 3
    ListDefault = 2
    ListMost = 3
    MaxSubjects = 2
    Dimension = 2
    InFlightMost = 2
    MaxSafe = 8191
    MaxContent = 40
    MaxQuery = 16
    MaxScopeId = 8
    Workspace = {w1, w2}
    PersonalOnly = {w2}
    DefaultVisibility <- Defaults
    Project = {p1, p2}
    ProjectsOf <- Projects
    Principal = {alice, bob}
    w1 = w1
    w2 = w2
    p1 = p1
    p2 = p2
    alice = alice
    bob = bob
    None = None
INVARIANTS
    DocumentsAreReadAsWritten
    AnswersAreFaithful
    SurfacesAgree
    OperatorsChoicesHold
CHECK_DEADLOCK FALSE
