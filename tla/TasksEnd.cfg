CONSTANTS
    a = a  i1 = i1  t1 = t1  p1 = p1  n1 = n1  n2 = n2  d1 = d1  d2 = d2
    Other = Other  None = None
    Service = {a}
    Queue <- Queues
    Instance = {i1}
    Tab = {t1}
    MaxTasks = 1
    MaxReports = 1
    StaleAfter = 1
    ServiceWait = 0
    LoginWait = 0
    Grace = 1
    MaxClicks = 1
    Delay = 1
    ISSNs <- MCISSNs  DOIs <- MCDOIs  IssnsOf <- MCIssnsOf  DayOf <- MCDayOf
    LastDay = 2  PageSize = 1  MaxRevision = 2  MaxFailures = 2
SPECIFICATION EndsSpec
CHECK_DEADLOCK FALSE
INVARIANTS ManifestIsTrue
PROPERTIES WorkflowEnds BrowserIsLetGo RetrievalEnds
