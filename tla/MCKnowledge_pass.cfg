\* Evaluations, graph and import of knowledge rows.
SPECIFICATION Spec
CONSTANTS
    None = None
    u1 = u1
    u2 = u2
    k1 = k1
    k2 = k2
    e1 = e1
    e2 = e2
    e3 = e3
    e4 = e4
    b1 = b1
    b2 = b2
    b3 = b3
    f1 = f1
    f2 = f2
    f3 = f3
    root = root
    Users = {u1, u2}
    Ids = {k1, k2}
    Processes = {p1, p2}
    Events = {e1, e2, e3, e4}
    EventOf <- MCEventOf
    Inputs <- MCInputs
    RelationIds = {r1}
    ConflictIds = {c1}
    Evaluations = {v1, v2}
    Configs <- MCConfigs
    MaxNow = 1
    MaxRevision = 4
    Principals = {root}
    ScopeOf <- MCScopeOf
    Owner = u1
    Batches = {b1, b2, b3}
    CandidatesOf <- MCCandidatesOf
    Files = {f1, f2, f3}
    FileOf <- MCFileOf
    BatchOf <- MCBatchOf
CONSTRAINT OneTopic
SYMMETRY Symmetry
INVARIANTS TrustedEvidence ReceiptsAccount ImportedOnce
CHECK_DEADLOCK FALSE
