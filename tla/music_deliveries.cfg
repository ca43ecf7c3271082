\* One place for a direct upload and a single-request upload, and two workers that may die.
CONSTANTS
    Sessions = {s1}
    Uploads = {u1}
    Workers = {w1, w2}
    MaxDeliveries = 1
    NoWorker = NoWorker
SPECIFICATION FairSpec
CONSTRAINT OneWorkerBesideUploads
INVARIANTS
    FileLostOnlyIfOvertaken
    CleanedIsGone
    WithinLimit
PROPERTIES
    PublishedStands
    SessionsEnd
CHECK_DEADLOCK FALSE
