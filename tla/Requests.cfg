SPECIFICATION Spec
CONSTANTS
    r1 = r1
    r2 = r2
    a1 = a1
    a2 = a2
    t1 = t1
    s1 = s1
    n1 = n1
    m1 = m1
    k1 = k1
    Req = {r1, r2}
    Worker = worker
    Borrower = {r1, r2, a1, a2, worker}
    Main = main
    Audit = audit
    Pool = {main, audit}
    Client = {m1, k1}
    PoolOf <- MCPoolOf
    Attempts <- MCAttempts
    TaskOf <- MCTaskOf
    NoClient = NoClient
    Token = {t1}
    Principal = {n1}
    PrincipalOf <- MCPrincipalOf
    Subject = {s1}
    Nobody = Nobody
    Scenarios <- MCScenarios
    MaxInFlight = 1
    MaxDisturbances = 1
INVARIANTS
    AdmissionsAreEarned
    AuditTellsTheDecision
PROPERTIES
    EveryRequestIsAnswered
CHECK_DEADLOCK FALSE
