------------------------------ MODULE Projects ------------------------------
(***************************************************************************)
(* Projects and what belongs to them: jobs, budgets and costs, uploaded    *)
(* assets, script revisions and the reviews of a deliverable               *)
(* (agency/api/main.py, with check_budget of agency/webhooks.py and        *)
(* create_job of agency/workflow/engine.py).                               *)
(*                                                                         *)
(* Each API request reads, decides, and commits later; other requests and  *)
(* the workers commit in between.  What protects the data is the database: *)
(* jobs.project_id is a foreign key, idempotency_key and                   *)
(* (project_id, sha256) of assets are unique.                              *)
(***************************************************************************)
EXTENDS Integers, Sequences, FiniteSets

CONSTANTS
    ProjectIds, Requests,
    Keys,           \* idempotency keys
    Contents,       \* contents of uploaded files
    Estimate,       \* default_job_cost_estimate_usd, also what a job costs
    Limit,          \* daily_limit_usd of a budget
    Mixes,          \* sets of operations that requests may perform together
    MaxJobs, MaxUploads, MaxRevisions, MaxReviews   \* bounds of the exploration

ASSUME ProjectsAssumption ==
    /\ IsFiniteSet(Requests)
    /\ Estimate \in Nat \ {0} /\ Limit \in Nat
    /\ Mixes \subseteq SUBSET {"job", "keyed", "budget", "delete", "upload", "revise", "review"}
    /\ {MaxJobs, MaxUploads, MaxRevisions, MaxReviews} \subseteq Nat
    /\ "tenant" \notin ProjectIds /\ "none" \notin Keys

VARIABLES
    created,    \* the projects that were created
    project,    \* those that exist
    trail,      \* rows of audit_logs about projects
    jobs,       \* rows of jobs; "late" names the request that inserted it over the limit
    budgets,    \* scopes of the active budgets: "tenant" or a project
    spent,      \* sum of the rows of cost_entries, which are the tenant's
    assets,     \* rows of assets
    files,      \* uploaded files on disk
    revisions,  \* revisions[p]: rows of script_revisions in commit order, with the count each saw
    review,     \* rows of deliverable_reviews
    status,     \* approval_status in the manifest of the deliverable, "unset" at first
    req,        \* what each request is doing
    told,       \* answers to requests with a key
    mix         \* the operations of this behaviour

rows == <<created, project, trail, jobs, budgets, spent, assets, files, revisions, review, status, told>>
vars == <<rows, req, mix>>

JobStates == {"queued", "running", "awaiting_approval", "completed"}
Statuses  == {"draft", "internal_review", "approved", "changes_requested"}
Idle      == [pc |-> "idle"]

Init ==
    /\ created = {} /\ project = {} /\ trail = {} /\ jobs = <<>> /\ budgets = {}
    /\ spent = 0
    /\ assets = {} /\ files = {}
    /\ revisions = [p \in ProjectIds |-> <<>>]
    /\ review = <<>> /\ status = "unset"
    /\ req = [r \in Requests |-> Idle]
    /\ told = {}
    /\ mix \in Mixes

-----------------------------------------------------------------------------
Starts(r, op) == op \in mix /\ req[r].pc = "idle"

\* The request holds what it read; nothing is committed.
Hold(r, held) == req' = [req EXCEPT ![r] = held] /\ UNCHANGED <<rows, mix>>

\* The request ends; what it changes is left to the action.
Ends(r) == req' = [req EXCEPT ![r] = Idle] /\ UNCHANGED mix

\* audit() as the context of a with statement, which may be empty.
Audited(action, p) == trail \cup {[action |-> action, project |-> p]}

\* audit() called as a plain function returns a context that nobody enters.
AuditCall(action, p) == trail

\* The project is committed before its row of the audit log: a crash may fall between.
CreateProject(p) ==
    /\ p \notin created
    /\ created' = created \cup {p} /\ project' = project \cup {p}
    /\ trail' \in {trail, Audited("project.created", p)}
    /\ UNCHANGED <<jobs, budgets, spent, assets, files, revisions, review, status, told, req, mix>>

-----------------------------------------------------------------------------
\* create_production_job

CreateBudget(scope) ==
    /\ "budget" \in mix
    /\ budgets' = budgets \cup {scope}
    /\ UNCHANGED <<created, project, trail, jobs, spent, assets, files, revisions, review, status, told, req, mix>>

\* Fault: the budgets of the tenant are not looked at.
AllowedByProjectOnly(p) == \A scope \in budgets : scope = p => spent + Estimate <= Limit

\* check_budget: every budget of the tenant or of this project is held against the
\* costs of the whole tenant.  A refused request (402) changes nothing.
Allowed(p) == \A scope \in budgets : scope \in {"tenant", p} => spent + Estimate <= Limit

\* A budget that covers project p has no room for another job.
Exceeded(p) == budgets \cap {"tenant", p} # {} /\ spent + Estimate > Limit

CheckBudget(r, p, key) ==
    /\ Starts(r, "job") /\ p \in project /\ Len(jobs) < MaxJobs
    /\ key = "none" \/ "keyed" \in mix
    /\ Allowed(p)
    /\ Hold(r, [pc |-> "checked", project |-> p, key |-> key])

WithKey(key) == {n \in DOMAIN jobs : jobs[n].key = key /\ key # "none"}

\* Fault: the answer to a repeated request is the newest job.
ToldNewest(r, n) == told' = told \cup {<<req[r].key, Len(jobs)>>}

Told(r, n) == told' = IF req[r].key = "none" THEN told ELSE told \cup {<<req[r].key, n>>}

\* create_job finds the key ...
FindJob(r) ==
    /\ req[r].pc = "checked"
    /\ IF WithKey(req[r].key) = {}
       THEN Hold(r, [req[r] EXCEPT !.pc = "inserting"])
       ELSE /\ \E n \in WithKey(req[r].key) : Told(r, n)
            /\ Ends(r)
            /\ UNCHANGED <<created, project, trail, jobs, budgets, spent, assets, files, revisions, review, status>>

\* What the foreign key and the unique key of jobs admit.
Insertable(r) == req[r].project \in project /\ WithKey(req[r].key) = {}

\* ... or inserts the row; the loser of a race for the key answers with the winner's job.
InsertJob(r) ==
    /\ req[r].pc = "inserting"
    /\ IF Insertable(r)
       THEN /\ jobs' = Append(jobs, [project |-> req[r].project, key |-> req[r].key,
                                     state |-> "queued", late |-> {q \in {r} : Exceeded(req[r].project)}])
            /\ Told(r, Len(jobs) + 1)
       ELSE /\ UNCHANGED jobs
            /\ IF WithKey(req[r].key) = {} THEN UNCHANGED told
               ELSE \E n \in WithKey(req[r].key) : Told(r, n)
    /\ Ends(r)
    /\ UNCHANGED <<created, project, trail, budgets, spent, assets, files, revisions, review, status>>

\* A worker takes the job ...
RunJob(n) ==
    /\ jobs[n].state = "queued"
    /\ jobs' = [jobs EXCEPT ![n].state = "running"]
    /\ UNCHANGED <<created, project, trail, budgets, spent, assets, files, revisions, review, status, told, req, mix>>

\* ... its stages record their costs, and it ends or waits for a human.
EndJob(n) ==
    /\ jobs[n].state = "running"
    /\ \E s \in {"completed", "awaiting_approval"} : jobs' = [jobs EXCEPT ![n].state = s]
    /\ spent' = spent + Estimate
    /\ UNCHANGED <<created, project, trail, budgets, assets, files, revisions, review, status, told, req, mix>>

-----------------------------------------------------------------------------
\* delete_project

CheckActive(r, p) ==
    /\ Starts(r, "delete") /\ p \in project
    /\ ~\E n \in DOMAIN jobs : jobs[n].project = p /\ jobs[n].state \in {"queued", "running"}
    /\ Hold(r, [pc |-> "deleting", project |-> p])

\* Fault: the foreign keys are not enforced.
DeleteProjectUnchecked(r) ==
    /\ req[r].pc = "deleting"
    /\ project' = project \ {req[r].project}
    /\ trail' = AuditCall("project.deleted", req[r].project)
    /\ Ends(r)
    /\ UNCHANGED <<created, jobs, budgets, spent, assets, files, revisions, review, status, told>>

\* What the foreign keys of jobs and of script_revisions protect.
Referenced(p) == revisions[p] # <<>> \/ \E n \in DOMAIN jobs : jobs[n].project = p

\* A project with a job of any state or a revision cannot be deleted: the commit fails.
DeleteProject(r) ==
    /\ req[r].pc = "deleting"
    /\ project' = IF Referenced(req[r].project) THEN project ELSE project \ {req[r].project}
    /\ trail' = AuditCall("project.deleted", req[r].project)
    /\ Ends(r)
    /\ UNCHANGED <<created, jobs, budgets, spent, assets, files, revisions, review, status, told>>

-----------------------------------------------------------------------------
\* upload_asset

\* Content that is empty or too large is refused at once; other content is written under
\* a fresh name before it is looked into.
WriteFile(r, p, content) ==
    /\ Starts(r, "upload") /\ p \in project
    /\ \E no \in 1 .. MaxUploads :
        LET file == [project |-> p, no |-> no] IN
        /\ \A f \in files : f.no # no
        /\ files' = files \cup {file}
        /\ req' = [req EXCEPT ![r] = [pc |-> "validating", file |-> file, content |-> content]]
    /\ UNCHANGED <<created, project, trail, jobs, budgets, spent, assets, revisions, review, status, told, mix>>

\* Fault: the cleanup removes every file of the project's directory.
RejectDirectory(r) ==
    /\ req[r].pc = "validating"
    /\ files' = {f \in files : f.project # req[r].file.project}
    /\ Ends(r)
    /\ UNCHANGED <<created, project, trail, jobs, budgets, spent, assets, revisions, review, status, told>>

\* Signature or probe of the file is refused.
RejectFile(r) ==
    /\ req[r].pc = "validating"
    /\ files' = files \ {req[r].file}
    /\ Ends(r)
    /\ UNCHANGED <<created, project, trail, jobs, budgets, spent, assets, revisions, review, status, told>>

\* The unique index refuses content the project has already: the request fails and
\* its file stays.
InsertAsset(r) ==
    /\ req[r].pc = "validating"
    /\ LET asset == [file |-> req[r].file, content |-> req[r].content]
           known == \E a \in assets : a.content = asset.content /\ a.file.project = asset.file.project
       IN  assets' = IF known THEN assets ELSE assets \cup {asset}
    /\ Ends(r)
    /\ UNCHANGED <<created, project, trail, jobs, budgets, spent, files, revisions, review, status, told>>

-----------------------------------------------------------------------------
\* revise_script

\* Fault: the revision takes the place of the second version.
VersionFixed(count) == 2

Version(count) == count + 2

CountRevisions(r, p) ==
    /\ Starts(r, "revise") /\ p \in project /\ Len(revisions[p]) < MaxRevisions
    /\ Hold(r, [pc |-> "revising", project |-> p, count |-> Len(revisions[p])])

InsertRevision(r) ==
    /\ req[r].pc = "revising"
    /\ revisions' = IF req[r].project \in project
                    THEN [revisions EXCEPT ![req[r].project] =
                            Append(@, [version |-> Version(req[r].count), count |-> req[r].count])]
                    ELSE revisions
    /\ Ends(r)
    /\ UNCHANGED <<created, project, trail, jobs, budgets, spent, assets, files, review, status, told>>

-----------------------------------------------------------------------------
\* review_deliverable

Current(loaded) == IF loaded = "unset" THEN "draft" ELSE loaded

NewStatus(action, current) ==
    CASE action = "submit_review"   -> "internal_review"
      [] action = "approve"         -> "approved"
      [] action = "request_changes" -> "changes_requested"
      [] action = "comment"         -> current

LoadManifest(r, action) ==
    /\ Starts(r, "review") /\ Len(review) < MaxReviews
    /\ Hold(r, [pc |-> "reviewing", action |-> action, loaded |-> status])

\* Fault: the manifest is written even when the review leaves it as it was.
WrittenStatusWhole(r) == NewStatus(req[r].action, Current(req[r].loaded))

\* Fault: the manifest gets the action instead of the status.
WrittenStatusAction(r) == req[r].action

\* A commit writes the manifest only if it differs from the loaded one; the first review
\* always differs, for it sets a status.
WrittenStatus(r) ==
    LET new == NewStatus(req[r].action, Current(req[r].loaded)) IN
    IF new = req[r].loaded THEN status ELSE new

CommitReview(r) ==
    /\ req[r].pc = "reviewing"
    /\ review' = Append(review, req[r].action)
    /\ status' = WrittenStatus(r)
    /\ Ends(r)
    /\ UNCHANGED <<created, project, trail, jobs, budgets, spent, assets, files, revisions, told>>

-----------------------------------------------------------------------------
\* An exception or a crash ends a request between its steps.
Abort(r) ==
    /\ req[r].pc # "idle"
    /\ Ends(r) /\ UNCHANGED rows

Request(r) ==
    \/ \E p \in ProjectIds, key \in Keys \cup {"none"} : CheckBudget(r, p, key)
    \/ FindJob(r) \/ InsertJob(r)
    \/ \E p \in ProjectIds : CheckActive(r, p) \/ CountRevisions(r, p)
    \/ DeleteProject(r) \/ InsertRevision(r)
    \/ \E p \in ProjectIds, content \in Contents : WriteFile(r, p, content)
    \/ RejectFile(r) \/ InsertAsset(r)
    \/ \E action \in {"submit_review", "approve", "request_changes", "comment"} : LoadManifest(r, action)
    \/ CommitReview(r) \/ Abort(r)

Next ==
    \/ \E p \in ProjectIds : CreateProject(p)
    \/ \E scope \in ProjectIds \cup {"tenant"} : CreateBudget(scope)
    \/ \E r \in Requests : Request(r)
    \/ \E n \in DOMAIN jobs : RunJob(n) \/ EndJob(n)

Spec == Init /\ [][Next]_vars

-----------------------------------------------------------------------------
(* Properties                                                              *)

TypeOK ==
    /\ project \subseteq created /\ created \subseteq ProjectIds
    /\ jobs \in Seq([project : ProjectIds, key : Keys \cup {"none"}, state : JobStates, late : SUBSET Requests])
    /\ budgets \subseteq ProjectIds \cup {"tenant"}
    /\ spent \in Nat
    /\ files \subseteq [project : ProjectIds, no : 1 .. MaxUploads]
    /\ assets \subseteq [file : [project : ProjectIds, no : 1 .. MaxUploads], content : Contents]
    /\ revisions \in [ProjectIds -> Seq([version : Nat, count : Nat])]
    /\ status \in Statuses \cup {"unset"}
    /\ told \subseteq Keys \X (1 .. MaxJobs + Cardinality(Requests))

\* No job and no revision is without its project, although delete_project looks for
\* active jobs before it deletes, and create_job and revise_script look for the project
\* before they insert.
NoOrphanJobs ==
    /\ \A n \in DOMAIN jobs : jobs[n].project \in project
    /\ \A p \in ProjectIds \ project : revisions[p] = <<>>

\* Requests that repeat a key, one after the other or at once, are told the one job
\* that was created for it (create_job).
JobOf(k) == IF WithKey(k) = {} THEN 0 ELSE CHOOSE n \in WithKey(k) : \A m \in WithKey(k) : n <= m

Once == INSTANCE CreateOnce WITH
            Jobs <- 1 .. MaxJobs + Cardinality(Requests), NoJob <- 0,
            made <- [k \in Keys |-> JobOf(k)]

ImplementsCreateOnce == Once!Spec

\* Once a budget is used up, a request creates at most the one job it was checked for
\* before (check_budget, create_production_job).
OverrunsWereInFlight ==
    \A p \in ProjectIds, r \in Requests :
        Cardinality({n \in DOMAIN jobs : jobs[n].project = p /\ r \in jobs[n].late}) <= 1

\* Every asset keeps a file of its own, whatever becomes of other uploads of the
\* same project (upload_asset).
AssetsKeepTheirFiles ==
    \A a \in assets : a.file \in files /\ \A b \in assets : b.file = a.file => b = a

\* A revision has a higher version than every revision its author could see
\* (revise_script counts them before it inserts).
LaterRevisionIsNewer ==
    \A p \in ProjectIds : \A n \in DOMAIN revisions[p] :
        \A i \in 1 .. revisions[p][n].count : revisions[p][i].version < revisions[p][n].version

\* A comment on a deliverable whose review has begun never takes back a decision that
\* was committed while it was written (review_deliverable writes the manifest it loaded).
\* The first comment may: it writes "draft".
CommentKeepsStatus ==
    [][\A r \in Requests :
        /\ req[r].pc = "reviewing" /\ req[r].action = "comment" /\ req[r].loaded # "unset"
        /\ req'[r].pc = "idle"
        => status' = status]_vars

-----------------------------------------------------------------------------
(* What the documentation says and the code does not do                    *)

\* docs/OBSERVABILITY.md:22: audit_logs records project creation and deletion: the
\* trail tells which projects exist.
TrailTellsProjects ==
    \A p \in created \ project :
        [action |-> "project.created", project |-> p] \in trail =>
            [action |-> "project.deleted", project |-> p] \in trail
=============================================================================
