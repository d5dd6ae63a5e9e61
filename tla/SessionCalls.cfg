SPECIFICATION Spec
CONSTANTS
    Id = {1, 2}
    Call = {c1, c2, c3}
    Audience = {"project", "workspace"}
    Sees <- MCSees
    Text = {"t1", "t2"}
    Branch = {"main"}
    Status = {"active", "blocked"}
    Contract = {1, 2}
    Requests <- MCRequests
    Stores <- MCStores
SYMMETRY Symmetric
INVARIANTS
    VectorsFollowText
PROPERTIES
    CapturesAreAtomic
