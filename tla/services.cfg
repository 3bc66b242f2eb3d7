\* Two requests at a time: jobs with deletions, with budgets, uploads, revisions, reviews;
\* two admins; two threads at the rate limit; two processes that migrate.
CONSTANTS
    ProjectIds = {p1, p2}
    Requests = {r1, r2}
    Keys = {k1}
    Contents = {c1, c2}
    Estimate = 1
    Limit = 1
    Mixes = {{"job", "keyed", "delete"}, {"job", "budget"}, {"upload", "delete"}, {"revise", "delete"}, {"review"}}
    MaxJobs = 3
    MaxUploads = 3
    MaxRevisions = 3
    MaxReviews = 3
    Emails = {e1, e2}
    Admins = {a1, a2}
    MaxKeys = 2
    Callers = {t1, t2}
    PerMinute = 2
    Minute = 2
    MaxTime = 3
    Services = {s1, s2}
    MaxCrashes = 3
    MaxDowngrades = 2
SPECIFICATION MCSpec
SYMMETRY Symmetry
INVARIANTS
    TypeOK
    NoOrphanJobs
    OverrunsWereInFlight
    AssetsKeepTheirFiles
    LaterRevisionIsNewer
    OrgsHaveUsers
    NobodyDeniedEarly
    UpMeansMigrated
PROPERTIES
    ImplementsCreateOnce
    CommentKeepsStatus
    DeadKeysStayDead
CHECK_DEADLOCK FALSE
