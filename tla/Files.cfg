CONSTANTS

    x1 = x1  x2 = x2  o1 = o1  n1 = n1  n2 = n2  m1 = m1  m2 = m2  own = own  my = my
    i1 = i1  i2 = i2  s1 = s1  s2 = s2  k1 = k1  k2 = k2  k3 = k3
    None = None
    Process = {w1, w2}
    MaxDirs = 2
    MaxEdits = 1
    MaxConfigs = 1
    Absent = Absent  Bad = Bad
    Batch <- MCBatch  OwnName <- MCOwnName  PaperText <- MCPaperText  AuthorText <- MCAuthorText
    MaxRuns = 2  MaxNoteEdits = 1  MaxPapers = 2  MaxAuthors = 2
    ISSNs <- MCISSNs  Sources <- MCSources  Works <- MCWorks  SourceOf <- MCSourceOf
    BelowFloor = {}  PageSize = 2  MaxOdd = 2
SPECIFICATION FilesSpec
SYMMETRY Symmetries
CHECK_DEADLOCK FALSE
INVARIANTS WritesAreTrue NotesAreOnce DiscoveryIsTrue
PROPERTIES DeletionIsGuarded CreateOnly
