SPECIFICATION RuntimeSpec
CONSTANTS
    Request = {r1}
    Owner = {o1}
    Paper = {p1}
    Workspace = {w1}
    w1 = w1
    WorkspaceOf <- OneWorkspace
    Tab = {t1}
    Session = {s1}
    HeartbeatStale = 0
    WaitingTimeout = 1
    ActiveTimeout = 1
    MaxLease = 1
    ReceiptLimit = 1
    MaxReceipts = 2
    MaxLosses = 1
    Faults = {"late", "tab", "cleanup", "worker"}
    None = None
INVARIANTS
    ReportsTellTheTruth
    SavesAreGuarded
CHECK_DEADLOCK FALSE
