CONSTANTS
    p1 = p1  j1 = j1  j2 = j2  d1 = d1
    Other = Other  None = None  Unset = Unset
    Paper <- MCPaper  Fresh <- MCFresh
    MaxAuthors = 1  MaxTasks = 2  MaxEdits = 1
    Deadline = 1  Patience = 1
    List <- MCList  Digest <- MCDigest  MaxRequests = 2  Lease = 1
SPECIFICATION MCSpec
CHECK_DEADLOCK FALSE
INVARIANTS EnrichmentIsTrue CoversAreTrue
PROPERTIES OnlyGapsAreFilled CoversStand
