\* A project is created and deleted.
CONSTANTS
    ProjectIds = {p1}
    Requests = {r1}
    Keys = {k1}
    Contents = {c1}
    Estimate = 1
    Limit = 1
    Mixes = {{"delete"}}
    MaxJobs = 0
    MaxUploads = 0
    MaxRevisions = 0
    MaxReviews = 0
SPECIFICATION Spec
INVARIANT TrailTellsProjects
CHECK_DEADLOCK FALSE
