CONSTANTS
    d1 = d1  a = a  p = p  p1 = p1  j1 = j1  j2 = j2  j3 = j3  q1 = q1  q2 = q2
    None = None  NoPage = NoPage
    DOI <- MCDOI  Pages <- MCPages  Journals <- MCJournals  PublisherOf <- MCPublisherOf
    Seeded <- MCSeeded  Uploads <- MCUploads
    MaxEdits = 1  MaxStarts = 2  MaxChanges = 1
    MaxRequests = 1
    DOIs <- MCDOIs  Alias = a  Prime = p  MayBeSaved <- OnlyPrime  MayHaveState <- OnlyPrime
    MayBeIssue <- OnlyPrime  Finds <- MCFinds  MaxRevision = 2  MaxReindexed = 1
SPECIFICATION MCSpec
CHECK_DEADLOCK FALSE
INVARIANTS RunIsTrue StateIsCurrent NothingVanishes OutcomeIsTrue
PROPERTIES StateSurvives OnlyWhatWasSeen LossWasShown
