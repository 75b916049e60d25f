CONSTANTS
    r1 = r1  r2 = r2  o1 = o1  o2 = o2  p1 = p1  p2 = p2  w1 = w1  t1 = t1  s1 = s1
    None = None
    Request = {r1}
    Owner = {o1}
    Paper = {p1}
    Workspace = {w1}
    WorkspaceOf <- SharedWorkspace
    Tab = {t1}
    Session = {s1}
    HeartbeatStale = 0
    WaitingTimeout = 1
    ActiveTimeout = 1
    MaxLease = 1
    ReceiptLimit = 1
    MaxRevision = 1
    Rivals = {"preparation", "enrichment", "covers", "reset"}
SPECIFICATION BatchSpec
CHECK_DEADLOCK FALSE
PROPERTIES ImportEnds ImplementsParentExport ImplementsCoordinator
