CONSTANTS
    t1 = t1  a = a  i1 = i1
    Other = Other  None = None
    Service = {a}
    Queue <- Queues
    Instance = {i1}
    Tab = {t1}
    MaxTasks = 2
    MaxReports = 1
    StaleAfter = 1
    ServiceWait = 0
    LoginWait = 0
    Grace = 1
    MaxClicks = 2
    Delay = 1
SPECIFICATION KeptSpec
CHECK_DEADLOCK FALSE
INVARIANTS PreparationComesFirst
PROPERTIES ImplementsPromise NothingComesBack
