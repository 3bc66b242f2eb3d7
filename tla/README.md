# A verification project for the Autonomous AI Video Agency

The program turns a brief into a video: an API (`agency/api/main.py`) stores
projects and jobs in a database, workers (`agency/worker.py`) claim jobs and run
them through twenty stages (`agency/agents/stages.py`) with a workflow engine
(`agency/workflow/engine.py`) that retries, repairs, pauses for humans and resumes
after crashes. These modules model the engine, the table of jobs, the stages and
their files, webhooks, and the services of the API whose correctness depends on
order, crashes and concurrency.

Line numbers are those of the repository under `src/`.

## 1. Inventory

| Component | State it keeps | Operations | Correct when | Module |
|---|---|---|---|---|
| workflow engine (`workflow/engine.py`) | rows of `jobs`, `tasks`, `repairs`, `approvals`; an executor's in-memory context | `create_job`, `claim_job`, `claim_next_job`, `heartbeat`, `execute_job` with `_run_single_task`, `_attempt_repair`, `_pause_for_approval`, `_fail_job`, `_complete_job` | stages finish in order and stay finished, retries and repairs are bounded and end, a completed job is complete, a parked job can be decided | `Pipeline`, `JobQueue`, `Projects` |
| worker (`worker.py`) | a claimed job, a heartbeat thread, sessions | claim loop, merge, execution, heartbeats, webhook drain | one executor per job, every queued job is picked up | `JobQueue`, `Webhooks` |
| job control API (`api/main.py` 777-900) | sessions over `jobs`, `approvals` | `create_production_job`, `run_job_inline`, `cancel_job`, `decide_approval` | the documented lifecycle holds | `JobQueue`, `Pipeline`, `Projects` |
| production stages (`agents/stages.py`) | files, `artifacts`, `qa_reports`, `deliverables`, the context | twenty handlers | each stage finds its inputs, files agree with each other, what is delivered was checked | `Production`, `Narration` |
| captions, cuts, speech (`capabilities/captions.py`, `editing.py`, `tts.py`, `media.py`) | none | word times, silence cuts, cues, clip durations | cues follow the speech, pictures are as long as it | `Narration` |
| lifecycle cleanup (`lifecycle.py`) | files, `artifacts` | `run_cleanup` | deletes only what nothing needs | `Production` |
| webhooks (`webhooks.py`) | `webhooks`, `webhook_deliveries` | `dispatch_event`, `process_pending_deliveries`, the API of hooks | bounded tries, nothing marked delivered that was not, no delivery forgotten | `Webhooks` |
| budgets, costs (`webhooks.py` 115-137, `observability.py`) | `budgets`, `cost_entries` | `check_budget`, `record_cost` | overruns are bounded | `Projects` |
| projects, assets, scripts, reviews (`api/main.py`) | their tables, uploaded files | create, delete, upload, revise, review | nothing loses its project, versions grow, decisions last | `Projects` |
| accounts, tenants, keys (`api/main.py`, `auth.py`) | `tenants`, `organizations`, `users` | create, register, issue, revoke, authenticate | a dead key stays dead, an organisation has a user | `Accounts` |
| rate limiter (`security.py`) | a window per client in memory | `allow` | nobody is denied early | `RateLimiter` |
| migrations (`db.py`, `migrations/*.sql`) | schema, `schema_migrations` | `run_migrations`, `downgrade_one` | a process that is up finds the whole schema | `Migrations` |
| metrics, router, registry, storage, configuration, dashboard, drills | see section 7 | | | not modelled |

How they interact. The API and the workers share nothing but the database and the
file system. A worker claims a job in one session and executes it in another, while
its heartbeat thread writes to all running jobs. API threads load and commit the
same rows. Sessions neither lock rows nor keep versions; a commit writes the columns
that changed since the row was loaded (`db.py` 52, 64-77). Executors append events
and webhook deliveries; workers send the deliveries when they find no job. The
cleanup walks the directories while productions write to them.

The hard behaviours are in `PROJECT.json` under `hazards`, each at its line:
double claims, stale sessions that overwrite later commits, heartbeats that race
failures, restarts that keep finished stages, jumps to a later stage, rows and files
left by crashes, the termination of retries, decisions in unexpected order,
deliveries sent twice, budgets checked too early, keys issued and revoked at once,
migrations cut short.

## 2. The engine and its jobs

- `StageProgress`: what the engine promises about stages, in three actions.
- `Pipeline`: one job and one executor. Every step of `execute_job` between two
  commits is an action, and so are a crash at any of them and the API handlers that
  write the same rows.
- `MCPipeline`: instances of `Pipeline`: seven stages with the roles the engine
  tells apart, and the twenty stages with their real inputs.
- `JobQueue`: the table of jobs as several sessions use it. An execution is
  abstracted to its outcome, but loading and committing are separate steps.

They share the boundary `execute_job`: `Pipeline` assumes at most one executor and
shows that an execution ends (`EveryClaimEnds`); `JobQueue` uses that an execution
ends (the fairness of `Outcome`) and asks who executes.

| Variable of `Pipeline` | Code |
|---|---|
| `state`, `attempts`, `repair_count`, `result` | the columns of the job; `result` tells whether its list of deliverables is missing, empty or full |
| `tasks[s]` | the states of the rows of stage `s` in order of `attempt` |
| `approvals`, `lastDecided` | the job's approvals; the one with the latest `decided_at` |
| `pc`, `seq`, `failureClass` | where the executor is in `execute_job` |
| `ctx` | the stages whose `ctx_` outputs are in `context["state"]` |
| `listed`, `final` | `context["state"]["ctx_deliverables_list"]` and `context["deliverables"]` |

Abstractions: outputs are present or absent; a stage reads the outputs `Needs[s]`
that its handler subscripts and dies of a `KeyError` (class `crash`) when one is
missing; a handler may fail with the classes `Raises[s]`. `Production` models what
`Needs` and `Raises` summarise. A done stage's repeated rows are shortened to one in
`Purged`, because a done row keeps its stage from running and its attempt number is
then never read. `FailJob` stands for any exception the engine's own queries and commits
raise, the commit of a handler's outcome among them. The muxing fails with its class
`qa_sync` only; that a failing probe of its file is a `crash` is in `Production`.
`AGENCY_QA_MAX_REPAIRS` (`config.py` 34) never reaches the engine, which is built
with the default budget of 2 in `worker.py` 24 and `api/main.py`.

In `JobQueue`, `job[j]` is a row (state, attempts, and the age of its heartbeat:
NULL, fresh or stale), `thread[t]` the session of a worker or an API request with the
row as loaded and the object as changed, `beat[w]` the job whose row the heartbeat
thread has loaded. `Flushed` is what a commit writes; a session may be lost wherever it
has something to commit (`LoseSession`), in a claim as well as in an execution. A running job grows stale only
while no worker is up, because every worker's heartbeat thread refreshes every
running job.

## 3. Stages, files and times

`Production` writes each of the twenty handlers as a sequence of steps in the order
of its code (`Stages`): keys of the context it needs, files it reads and renders,
rows it inserts, the status it sets, the classes it may fail with, the keys it
returns. An action performs one step (`ReadContext`, `Render`, `RegisterArtifact`,
`FinishStage`, ...), so a crash, a failure, or the cleanup
(`SweepStart` to `SweepEnd`, `lifecycle.py`) may fall between any two.
A file is known by how often it was rendered, whether it is absent, cut off or whole,
and which renderings it was made of; that is enough to ask whether two files belong
together. A rendering that fails may leave a file cut off, since `run_ffmpeg` overwrites
what is there. The decision of `_attempt_repair` is one step here (`Pipeline` has its
commits): by the attempt, the class and the repairs so far the stage is retried
(`RetryStage`), the pipeline restarts where the class says (`RestartPipeline`), or the job
waits for a human (`EscalateHuman`) and may be claimed again. `tries[s]` counts the rows of
a stage that is not done, up to two: from the third attempt on the decision is the same.
One file stands for those of all scenes. `rows` counts what is inserted, so a delivery
that is repeated adds rows of its own, while `deliverables` holds what they say.

`Narration` follows the times instead: words of the brief become a script (composed
from a template, or by a language model), the script becomes scenes with planned
durations, each scene is spoken by the neural voice or the fallback, silences are cut
and the words shifted, clips get their durations, muxing compares lengths, words are
grouped into cues. A word is its number of characters and the mark behind it, which
decides the pause the local voice makes and what a cut text ends with. The code computes in
floating point and rounds to milliseconds; the model computes in integer milliseconds and
leaves out the rounding of intermediate results. Pictures come in whole frames: a clip
has each frame that starts within the duration asked for (`Frames`), and the clips are
copied one behind the other (`PictureLength`). Left out are frame rates that are no whole
number (a brief may ask for one, and `-r` then cuts it down), and the padding the AAC
encoder adds to the audio of the muxed file (20 to 40 ms, once a file). The pace of the
neural voice is not in the code: the instances take 130 to 200 words a minute.

`MCProduction` explores both side by side: a behaviour has `phase = "off"` and is one
of `Production`, or is one of `Narration`. They share no variable.

## 4. Webhooks and the services of the API

`Webhooks`: `table` is `webhook_deliveries`, `thread[t]` a worker or an API request
with the batch its drain has loaded. A drain works on copies: `ReadBatch`,
`SkipNotDue`, `LookUpHook`, `Post`, `CommitOutcome` are the steps of
`process_pending_deliveries`, and `Flush` writes the columns that differ from the
copy. So two drains can post one delivery twice, and the later commit can take a
delivered row back to retrying; what holds is that tries stay bounded. `accepted`
records what the receiver has answered and is no part of the program.

`Projects`: each request holds what it read (`req[r]`) until it commits: job creation
with `check_budget` and an idempotency key, deletion, upload, revision, review. The
foreign keys and unique indexes of the schema are guards of the commits. `spent`
is the sum of the tenant's cost entries as `check_budget` takes it; `late`
records for a job which requests had passed the check of the budget before it was
exceeded. `mix` restricts which operations meet in one behaviour, to keep the state
space small; the mixes are those whose operations touch the same rows. `CreateOnce`
is what an idempotency key promises, in two actions.

`Accounts`: `users` are rows, `admin[a]` is a request with the row it loaded. Keys
are numbers in the order of their generation; a password is not one of them.
`Accepted` is the test of `_authenticate`.

`RateLimiter`: one client's window, read and written by threads without a lock.
`admitted` lists the times of all admitted calls; the program keeps no such list.

`Migrations`: processes that migrate at startup, statement by statement, an operator
who takes versions back, crashes, and SQLite's rule that a statement of the schema is
committed at once unless a transaction is open. The statements that differ in effect
stand for the scripts.

`MCServices` explores these four side by side: `focus` says which one a behaviour is
about. Projects and requests are interchangeable, so the run uses symmetry; its
properties are safety properties only.

## 5. Runs

Every configuration disables the deadlock check: a job that is completed or out of
claims, a table without open deliveries, a service without requests really stops.

| Run | Question | Bounds |
|---|---|---|
| `pipeline_gate` | one live row per stage, and an open request for a parked job, whatever is decided when? | 7 stages, delivery gate on, 4 claims, 1 repair |
| `pipeline_production` | with the real stage table, its forward jump for `qa_sync` and every strategy: do stages finish in order, are repairs and attempts bounded and do they end, is progress kept, does the engine implement `StageProgress`? | 20 stages, 2 claims, repair budget 2 |
| `queue_requests` | do cancellations and decisions with stale sessions lose attempts, reopen parked jobs or exceed the retries? | 1 worker, 2 API threads, 1 job, 4 claims, 2 faults |
| `queue_lifecycle` | does a job follow docs/WORKFLOW.md:5-11? | 1 worker, 1 API thread that decides, 2 jobs, 4 claims, 2 faults |
| `queue_liveness` | is every queued job picked up? | 1 worker, 1 API thread that runs jobs inline, 2 jobs, 2 claims, 1 fault |
| `webhooks` | are tries bounded, is delivered only what was accepted, does every delivery settle? | 1 worker and 1 request that drain at once, 1 hook, 2 deliveries of 2 tries, 1 crash |
| `production` | after failures, repairs, restarts and weeks: are contexts restored, do files agree, was what is delivered checked and is it complete, what does the cleanup keep? And do captions and clips follow the speech? | all 20 handlers, 2 faults and the failures that follow from them; 12 briefs at 24 and 30 frames a second, templates and answers of 0 to 3 beats, empty texts and a single letter among them, 2 paces, both voices |
| `services` | what may concurrent requests, threads and processes do to projects, budgets, uploads, revisions, reviews, keys, the window and the schema? | 2 requests at a time, 2 projects, 3 rows of each kind, 2 admins and 2 keys, 2 threads in a window of 2, 2 processes with 3 crashes and 2 downgrades |

Why the bounds are enough. `MaxClaims` bounds how often a job is claimed: two claims
show a resumed run, four let gates, an escalation and their decisions meet. Seven
stages keep a stage of each role the engine tells apart. Two jobs are enough for
priorities, two sessions for every stale write, since a commit can only be overtaken by
another one. `MaxFaults` bounds crashes, failures and the passing of weeks; two of them
make a failure after a repair, or a cleanup after a failure. In `Production` a failure is
counted once although it recurs: the further attempts of a stage that has failed, while the
bound is not reached, and failures for want of a file or key are free. So two faults reach
every decision of `_attempt_repair`, escalation too. Two tries make a first and
a last one; a batch as long as the table lets one delivery wait behind another that
is not due (with a batch of one, where the limit binds, TLC finds the same properties to
hold). Three crashes and two downgrades let a process start on every mixture of
versions. The briefs are those at the limits of the code: no point at all, points of one
word, a word wider than a caption line, a short form and a longer one.

The passing runs of `JobQueue` have one worker, which docs/WORKFLOW.md:37 names as
the SQLite deployment; with two, the claim race below breaks what they show.
`LifecycleFollowed` also needs decisions one at a time: with two, a second commit can
requeue a running job.

Fairness. `Pipeline`: an executor that lives keeps executing (weak fairness of
`Execute`; claims, crashes and requests are not fair). `JobQueue`: a worker is
restarted and loops, a heartbeat thread beats, an accepted request is served, and
time passes; nothing makes requests arrive and crashes are bounded. In its liveness
run the bound on claims also says that the supply of other work is finite: an endless
stream of more urgent jobs starves a less urgent one by design
(`order_by(Job.priority, ...)`). `Webhooks`: a worker loops and executes the jobs
there are, a request that was accepted is served, a backoff passes; jobs are finite
(`worker.py` 66 drains only when it finds none) and nothing makes hooks appear or
disappear.

Seeded faults. Next to some definitions stands a variant marked `Fault:`: a plausible
mistake in the same code (a dropped guard, a limit off by one, a write that is
missing). No specification uses it. `PROJECT.json` (`mutants`) names, for every
property of every passing run, the fault that must break it when it takes the
definition's place.

### What the documentation says and the code does not do

Each of these is a run that finds the violation; `PROJECT.json` (`findings`) quotes
both sides.

| Run | Documented | Found |
|---|---|---|
| `doc_approved_gate` | an approved gate resumes the job | the delivery gate wants a kind of approval nothing creates |
| `doc_atomic_claim` | a claim is atomic | two workers claim one job |
| `doc_repair_remakes` | `corrupt_media` restarts from `asset_acquisition` | technical QA fails, is retried, fails again, and the restart skips `asset_acquisition`, which is done: QA judges the same file again |
| `doc_audit_trail` | the audit log records deletions | `audit()` is called without `with` and writes nothing |

These are stated as formulas in the modules and do not hold either; TLC refutes each
when it is added to the configuration named:

| Formula | Documented | What happens | Add to |
|---|---|---|---|
| `Pipeline!CompletedListsDeliverables` | all state is in the database | the list of deliverables is not; a restart after delivery loses it | `pipeline_production` |
| `Pipeline!RestartNeverSkips` | `qa_sync` restarts from `av_mux` | it jumps to `burn_captions`, behind the failed stage | `pipeline_production` |
| `JobQueue!CancelledIsFinal` | `cancelled` has no successor | a claim or an execution overwrites it | `queue_requests` |
| `JobQueue!CrashedJobIsReclaimed` | restart workers, jobs are reclaimed | the restarted worker keeps the orphan fresh | `queue_liveness` |
| `JobQueue!RetryingIsClaimable` | workers find retrying jobs | a late heartbeat hides one for ever | `queue_requests` |
| `Production!OverlaysReachMaster` | README.md:52: the master has the title card and lower thirds | their files are rendered and never composed into it | `production` |
| `Production!DeliverablesSurviveCleanup` | docs/OPERATIONS_RUNBOOK.md:28: only intermediates purge | the square variant has no artifact row and is an orphan once it is old | `production` |
| `Narration!ClipsEqualNarration` | docs/ARCHITECTURE.md:63: the video lasts as long as the narration | the floor of one second per clip makes it longer | `production` |
| `Narration!CutKeepsSync` | docs/TOOL_REGISTRY.md:63: timings are authoritative for captions and sync | a cut takes a whole silence from the audio but moves the words by 140 ms less: they trail the speech more with every cut | `production` |

`CaptionsFitMedia` is limited to three beats for the reason `CutKeepsSync` shows. The
last word is late by up to 190 ms of the local voice's lead-in, and by 140 ms for each
silence cut before it. A silence takes two scenes (one without words or with the neural
voice, and the one behind it): hook, three beats and call to action have at most two,
which makes 470 ms of the 500 that `validate_captions` allows; six scenes may have three,
which is too many: with an empty hook and every second of four beats empty, TLC finds a
last word 610 ms behind the end. The prompt asks for two or three beats, but nothing checks the answer.
It also leaves out texts whose last word is one character: the local voice takes less time
for it than its lead-in is long, so its timing may start behind the end of the audio, and
a silence in front of it is cut with all that follows.

`DriftOnlyFromShortClips` bounds by how much the pictures outlast the narration: a second
for each clip lifted to the least duration, a millisecond for the rounding of each other
one, and for each clip a frame. `stage_av_mux` refuses 1.5 seconds, so an ordinary script
passes at 30 frames a second, and one of some fifty scenes may not.

Looser than the documents say, without a formula: docs/WORKFLOW.md:13 gives a task at
most 3 attempts, but rows left by crashes, escalations and earlier claims add up; the
bound that holds is `TaskAttemptsBounded`. The first comment on a deliverable writes
the default status `draft` and may overwrite an approval committed since it loaded
(`api/main.py` 353-364), which is why `CommentKeepsStatus` is about later ones.
`issue_key` replaces the password hash of a registered user (`api/main.py` 532).

## 6. Proofs

TLAPS checks eight modules of theorems; all of them hold for every value of the
constants that satisfies the assumptions of the module they are about.

`PipelineProofs`: `TypeOK`, `RepairBudgetRespected`, `TaskAttemptsBounded`,
`StagesInOrder`, `OneLiveRow`, `CompletedMeansAllDone`, `ParkedHasRequest` as
invariants, `ProgressKept` as an action property, and that `Pipeline` implements
`StageProgress`. `SizesAssumption` and `StageTablesAssumption` give the constants
their types. `JumpAssumption` says that a repair goes back, or jumps forward only over
stages that the target reads: `qa_sync` jumps from `av_mux` to `burn_captions`, which
reads what `av_mux` produces. TLC evaluates all three for the real table. None of the
invariants is inductive alone. `IInv` adds:
- `RegistersFit`: what the executor's place in `execute_job` says of the rows (a
  running handler's stage has no live row; a failure belongs to its stage);
- `HolesAreInputs`: behind the executor every stage is done, except inputs of the
  stage a repair just jumped to, which therefore cannot finish (`ContextIsDone` says
  the context holds outputs of done stages only). This carries `StagesInOrder`;
- `AttemptsLeft`: a stage this claim has not tried has an attempt to give, which
  carries `TaskAttemptsBounded` over claims.

There is one lemma per action (`ClaimInductive`, ...), one step per conjunct below it,
and `RowsUntouched` for the actions that leave the tasks alone. Lemmas about sequences
(`AppendRunning`, `SetLastRow`, `ResumedRows`, `PurgedRows`) say what the row operations
do to live and done rows. `DoneStep` maps each step to `StageProgress`.

`ExecutionsEnd` is the part of `EveryClaimEnds` that is no liveness: every step of an
execution ends it or lowers `Rank` in a well-founded order (repairs left, then what is
left of the stages, then attempts, then the steps of one attempt), and nobody else's
step raises it. What fairness adds is that steps are taken.

`JobQueueProofs`: `TypeOK` for any workers, requests and operations (`QInv` adds that a
busy session has a job, and that a requeued object holds no unwritten time). Then,
assuming `OneWorker` (one worker, and requests that cancel and decide, the setting of
`queue_requests`), `RetryingHasAttemptsLeft`, `ParkedNotExecuted` and `AttemptsKept` for
any number of jobs, requests, claims and faults. Two workers, or a job run inline beside
a worker, really break them, since an overtaken claim writes an old number of attempts.
The invariant `SoleInv` says what the worker's session knows of its job
(`WorkerHolds`: the number of attempts in the row is the one it loaded, and the row does
not wait behind its back) and what a request may hold (`RequestHolds`: it changes the
state only, to none that waits). Most steps are `Harmless` to every session but their
own (`HarmlessKeeps`); `WorkerCommitKeeps` treats the commits of the worker.
Under `OneDecider` (requests only decide, one at a time, the setting of
`queue_lifecycle`) it also proves the action property `LifecycleFollowed`. `OrderInv`
adds to `SoleInv` what makes a stale session harmless: a request that is about to write
a decision finds its row still waiting, since no one else moves a waiting row
(`DeciderHolds`), and from its claim to its last commit the worker knows the state of
its row (`ExecutorHolds`).

`WebhooksProofs`: `TypeOK`, `OpenHasTriesLeft` and `DeliveredWasAccepted`, for any
number of hooks, workers and requests. What makes them inductive is an invariant about the copies
(`ThreadFits`): a copy in a batch was open with a try left when it was loaded, and a
drain about to commit an accepted answer has counted it. Then it does not matter what
became of the row meanwhile: `FlushedColumns` says which columns a commit replaces,
`OutcomeOfCopy` that an outcome always changes the number of tries and closes a row
only by changing its status, and `FlushKeeps` puts them together for any two drains.

`AccountsProofs`: `OrgsHaveUsers` and `DeadKeysStayDead`, for any number of emails and
concurrent requests. The invariant `AInv` says that rows keep their columns
(`ColumnsFit`) and that a key a request has generated is nobody else's until it is
committed (`PendingIsFresh`). Each action keeps it, keeps a row for each user
(`RowsStay`), and gives access to no key that was known (`NoOldKey`), which is
`DeadKeysStayDead`.

`ProductionProofs`: `TypeOK`, `InputsRestored`, `FilesAgree`, `DeliveredWasChecked` and
`DeliveredIsComplete` as invariants and `RetainedKept` as an action property, for any
number of failures, crashes, repairs and cleanups. The table of the twenty handlers is
treated once, by lemmas that say of each of its steps that it fits its place
(`StepFits`): a handler needs keys that earlier stages return (`Before`), a file is
made of files made before it (`PlaceOf`), each file, report and deliverable is made at
one step only, and a failure restarts at its stage or an earlier one, except `qa_sync`
in `av_mux`, which jumps forward to `burn_captions` and fails there for want of
`ctx_av`. From then on a proof does not look at the stages again. `PrInv` is what makes
the properties inductive (the bounds on `tries` and `repairs` are part of `TypeOK`,
and a failing rendering is treated like one a crash cuts off: the stage it belongs to is
not done, so its file has no finished products):
- `OrderKept`, `ContextRestored`: the done stages are a prefix, up to that jump, and the
  context of an executor holds exactly what they returned;
- `MadeOfEarlier`, `MadeAgrees`: a file made behind the executor is whole and made of
  the renderings that are there, unless the cleanup has removed it or them. Rendering a file again makes the files behind it
  disagree, which is harmless because the steps that make those are still ahead;
- `MasterChecked`, `MasterDelivered`: a verdict behind the executor and everything
  delivered are about the master that is on the disk, with all checks done;
- `SweepKnows`: the cleanup is after temporary kinds and files no row names.

TLC checked `PrInv` on the instance of `production` before it was proved. There is one
lemma per conjunct (`OrderKeeps`, `ContextKeeps`, ...), with a step per action below it;
`RenderChanges` and `RemovalKeeps` say what rendering and removing a file do to the
agreement of the others.

`ProjectsProofs`: `TypeOK`, `NoOrphanJobs`, `OverrunsWereInFlight`,
`AssetsKeepTheirFiles` and `LaterRevisionIsNewer` as invariants, `CommentKeepsStatus` as
an action property, and that idempotency keys implement `CreateOnce`, for any projects,
requests, keys, estimate and limits. `Requests` is assumed finite, since the number of
jobs is bounded by the requests that may insert one (`JobsBounded`). `PInv` relates what
a request read to what may have been committed since: `LateOnce` (a job over the limit
belongs to a project whose budget is used up, so the request that inserted it is not
admitted there twice, which bounds overruns by the requests in flight), `FilesApart`
(the file of an unfinished upload is nobody else's), `CountsBehind` (a revision is
numbered by a count that can only have grown), `KeysUnique` and `ToldOfTheJob` (a client
that was answered was told of the one job with its key, which carries the refinement).

`NarrationProofs`: `CuesFollowSpeech`, `DriftOnlyFromShortClips` and `CaptionsFitMedia`,
for any briefs, answers of the language model and paces of the neural voice. What the
recursive functions compute (sums, marked elements, groups of words) is shown by their
smallest counterexample: `HandedUp` says that a set with 0 which hands membership on up
to n holds all of 0 to n, and follows from the library's `WFMin`; `Recursion` gives a
function that solves such a recursion, so the definitions mean what they say. Three
invariants follow the times through the stages:
- `NInv`: the words are in order, and those of a scene begin between its start and the
  start of the next (`ByRateIsTimed`, `SynthIsTimed`, `AlignedIsTimed` for the voices).
  `CutKeepsOrder` says that the cleanup moves no word before the one in front of it, and
  `CuesOf` that the cues of words in order hold them all, in order;
- `DInv`: every scene lasts (`ScenesLast`) and the clips are the shares of the narration;
  `ClipsAddUp` sums up what each clip has more than its share. `FramesBound` says that
  whole frames make a clip at most a frame longer, `PicturesAddUp` that this holds of their
  sum, for any whole frame rate;
- `LInv`: while the scenes are spoken, a function counts the silences in front of each
  word (`Counts`), and twice that is at most the scenes spoken, one less unless the
  speech ends so late that no silence fits in front of the local voice. `KeptTotal` says
  what a cut takes from the audio, `CutLateness` what the last word does not move by. The last word
  starts within the audio only if it has more than one character, which the premise of
  `CaptionsFitMedia` asks for.

TLC checked the invariants on the instance of `production` before they were proved, the
count of silences as the number of those there are.

`ServiceProofs`, for `RateLimiter` and `Migrations`.

`NobodyDeniedEarly` holds for any number of threads, any rate and length
of the window. The code loses updates, so no count is exact; the invariant
`CountsAreCovered` says that a count, in the table or in a thread, never exceeds the calls
admitted since its window began.

`UpMeansMigrated` holds for the three versions of the schema and any
number of processes, crashes and downgrades. `MInv` says what a process in the middle of
a script may rely on (`Progress`: the versions before its own are applied, and the names
its statements behind it made are committed or in its transaction), that the only
transaction left open is that of the first script behind its seed (`WriterIsSeeding`),
and that an applied version has its tables unless an operator is taking it back or
stopped in the middle (`AppliedAreThere`, `OperatorAlone`).

Only model-checked: the liveness properties `EveryClaimEnds` (but for `ExecutionsEnd`),
`QueuedIsPickedUp` and `EveryDeliverySettles`, since fairness is out of the prover's
reach.

## 7. Not modelled, and the plan

- `metrics.py`: counters of one process that nothing in the program reads back. Its
  bucket counts are accumulated although each already counts all values up to its bound
  (`metrics.py` 64-67), which is a
  matter of output.
- `capabilities/router.py`: picks one of two composers of the script by scores and a
  health cache; `Narration` lets either compose it.
- Agent registry, configuration, command line, dashboard, deployment: static tables,
  constants and pages.
- Object storage: wrappers over a file system or S3.
- Pixels, samples, prompts, measurements, file formats, signatures of webhooks, tokens
  of the login; clients, brand kits, campaigns, notifications, which are inserts and
  lists of single rows; the monthly budget, the same test as the daily one over a
  longer time; the backup, a copy of a file whose contents are SQLite's.
- `scripts/`: drills and simulations that exercise the program from outside.

Planned: `SharedPipeline`, two executors on one task table, composing the claims of
`JobQueue` with the stages of `Pipeline`: what a double claim, a stolen inline run and a
cancelled execution do to rows.
