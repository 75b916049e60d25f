SPECIFICATION RuntimeSpec
CONSTANTS
    Request = {r1, r2}
    Owner = {o1}
    Paper = {p1}
    Workspace = {w1}
    w1 = w1
    WorkspaceOf <- OneWorkspace
    Tab = {t1}
    Session = {s1}
    HeartbeatStale = 0
    WaitingTimeout = 1
    ActiveTimeout = 1
    MaxLease = 1
    ReceiptLimit = 1
    MaxReceipts = 2
    MaxLosses = 0
    Faults = {"server"}
    None = None
SYMMETRY Symmetries
INVARIANTS
    TruthSurvivesRestarts
CHECK_DEADLOCK FALSE
