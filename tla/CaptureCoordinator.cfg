CONSTANTS
    r1 = r1  r2 = r2  o1 = o1  o2 = o2  p1 = p1  p2 = p2  w1 = w1  t1 = t1  t2 = t2  s1 = s1
    None = None
    Request = {r1, r2}
    Owner = {o1, o2}
    Paper = {p1, p2}
    Workspace = {w1}
    WorkspaceOf <- SharedWorkspace
    Tab = {t1, t2}
    Session = {s1}
    HeartbeatStale = 0
    WaitingTimeout = 1
    ActiveTimeout = 1
    MaxLease = 1
    ReceiptLimit = 1
    MaxRevision = 0
    Rivals = {}
SPECIFICATION CaptureSpec
SYMMETRY Interchangeable
CHECK_DEADLOCK FALSE
INVARIANTS TypeOK GuardFollowsGrants VerdictMatchesDispatch CustodyIsSound ImportIsSound
PROPERTIES OnlyHolderReleases DispatchOnce VerdictIsFinal StopRevokes SerialSaves
