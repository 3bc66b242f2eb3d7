------------------------------ MODULE JobQueue ------------------------------
(***************************************************************************)
(* The table of jobs as several processes use it: workers that claim and   *)
(* execute jobs (agency/worker.py, agency/workflow/engine.py), the         *)
(* heartbeat thread of each worker, and API requests that cancel, decide   *)
(* or run a job (agency/api/main.py).                                      *)
(*                                                                         *)
(* Every one of them loads a row into its own session, changes the loaded  *)
(* object, and commits; other commits may come in between.  A commit       *)
(* writes the columns whose value differs from the loaded one, and no row  *)
(* is locked or versioned (agency/db.py).  What happens inside one         *)
(* execution is the subject of Pipeline; here it ends in one of four ways. *)
(***************************************************************************)
EXTENDS Integers, FiniteSets

CONSTANTS
    Jobs,         \* numbers, in the order of (priority, created_at)
    Workers,      \* worker processes
    Requests,     \* threads of the API process
    Ops,          \* the requests that arrive: a subset of {"cancel", "decide", "run"}
    MaxAttempts,  \* jobs.max_attempts
    MaxClaims,    \* bound of the exploration: claims of one job
    MaxFaults     \* bound of the exploration: crashes and lost sessions

ASSUME JobQueueAssumption ==
    /\ Jobs \subseteq Nat \ {0}
    /\ Workers \cap Requests = {}
    /\ Ops \subseteq {"cancel", "decide", "run"}
    /\ MaxAttempts \in Nat /\ MaxClaims \in Nat /\ MaxFaults \in Nat

Threads == Workers \cup Requests
NoJob   == 0

VARIABLES
    job,     \* table jobs: state, attempts, heartbeat_at
    up,      \* workers whose process runs
    thread,  \* the main thread of a worker, or an API request, with its session
    beat,    \* the running job whose row a worker's heartbeat() has loaded
    faults   \* how many crashes and lost sessions there were

vars == <<job, up, thread, beat, faults>>

JobStates == {"absent", "queued", "running", "retrying", "awaiting_approval",
              "completed", "failed", "cancelled"}

\* heartbeat_at: NULL, at most StaleHeartbeatSeconds old, or older.
Heartbeats == {"null", "fresh", "stale"}
Row        == [state : JobStates, attempts : Nat, hb : Heartbeats]
Absent     == [state |-> "absent", attempts |-> 0, hb |-> "null"]

\* "now" is a timestamp that is about to be written.
Object == [state : JobStates, attempts : Nat, hb : Heartbeats \cup {"now"}]

Idle == [pc |-> "idle", job |-> NoJob, loaded |-> Absent, obj |-> Absent]
Down == [Idle EXCEPT !.pc = "down"]

PCs == {"down", "idle", "claiming", "claimed", "executing", "requeueing", "writing"}

Init ==
    /\ job = [j \in Jobs |-> Absent]
    /\ up = {}
    /\ thread = [t \in Threads |-> IF t \in Workers THEN Down ELSE Idle]
    /\ beat = [w \in Workers |-> NoJob]
    /\ faults = 0

-----------------------------------------------------------------------------
\* The session: commit the object a thread holds.

\* Fault: the row keeps the placeholder instead of the time.
StampedNever(obj) == obj

Stamped(obj) == [obj EXCEPT !.hb = IF @ = "now" THEN "fresh" ELSE @]

\* Fault: the commit writes back every column.
FlushedWhole(row, loaded, obj) == Stamped(obj)

Flushed(row, loaded, obj) ==
    [col \in DOMAIN row |->
        IF obj[col] # loaded[col] THEN Stamped(obj)[col] ELSE row[col]]

\* Thread t commits obj and goes on at pc; the session keeps the object.
Commit(t, obj, pc) ==
    LET j == thread[t].job IN
    /\ job' = [job EXCEPT ![j] = Flushed(job[j], thread[t].loaded, obj)]
    /\ thread' = [thread EXCEPT ![t] =
            IF pc = "idle" THEN Idle
            ELSE [pc |-> pc, job |-> j, loaded |-> Stamped(obj), obj |-> Stamped(obj)]]

-----------------------------------------------------------------------------
\* create_job: the row is inserted.
CreateJob(j) ==
    /\ job[j].state = "absent"
    /\ job' = [job EXCEPT ![j].state = "queued"]
    /\ UNCHANGED <<up, thread, beat, faults>>

-----------------------------------------------------------------------------
\* The worker loop.

StartWorker(w) ==
    /\ w \notin up
    /\ up' = up \cup {w}
    /\ thread' = [thread EXCEPT ![w] = Idle]
    /\ UNCHANGED <<job, beat, faults>>

\* The WHERE clause of claim_next_job.
Claimable(row) ==
    \/ row.state = "queued"
    \/ row.state = "running" /\ row.hb \in {"null", "stale"}
    \/ row.state = "retrying" /\ row.hb = "null"

\* Fault: a claim does not count as an attempt.
ClaimedUncounted(row) == [row EXCEPT !.state = "running", !.hb = "now"]

\* What a claim makes of the loaded object.
Claimed(row) ==
    [state |-> "running", attempts |-> row.attempts + 1, hb |-> "now"]

\* claim_next_job loads the first claimable row ...
ClaimRead(w) ==
    LET rows == {j \in Jobs : Claimable(job[j]) /\ job[j].attempts < MaxClaims} IN
    /\ w \in up /\ thread[w].pc = "idle"
    /\ \E j \in rows :
        /\ \A k \in rows : j <= k
        /\ thread' = [thread EXCEPT ![w] =
                [pc |-> "claiming", job |-> j, loaded |-> job[j], obj |-> Claimed(job[j])]]
    /\ UNCHANGED <<job, up, beat, faults>>

\* ... and commits the claim, whatever the row has become since.
ClaimCommit(t) ==
    /\ thread[t].pc = "claiming"
    /\ Commit(t, thread[t].obj, IF t \in Workers THEN "claimed" ELSE "executing")
    /\ UNCHANGED <<up, beat, faults>>

\* db.merge loads the row anew and copies the claimed object's columns onto it.
Merge(w) ==
    /\ thread[w].pc = "claimed"
    /\ thread' = [thread EXCEPT ![w].pc = "executing", ![w].loaded = job[thread[w].job]]
    /\ UNCHANGED <<job, up, beat, faults>>

-----------------------------------------------------------------------------
\* execute_job, seen from the job's row.

Executing(t, j) == thread[t].pc = "executing" /\ thread[t].job = j

\* Every commit of the executor also flushes the columns that merge changed.
Checkpoint(t) ==
    /\ thread[t].pc = "executing" /\ thread[t].obj # thread[t].loaded
    /\ Commit(t, thread[t].obj, "executing")
    /\ UNCHANGED <<up, beat, faults>>

\* _complete_job
Complete(t) ==
    /\ thread[t].pc = "executing"
    /\ Commit(t, [thread[t].obj EXCEPT !.state = "completed"], "idle")
    /\ UNCHANGED <<up, beat, faults>>

\* Fault: a failed job is always tried again.
FailForever(t) ==
    /\ thread[t].pc = "executing"
    /\ Commit(t, [thread[t].obj EXCEPT !.state = "retrying", !.hb = "null"], "idle")
    /\ UNCHANGED <<up, beat, faults>>

\* _fail_job
Fail(t) ==
    /\ thread[t].pc = "executing"
    /\ Commit(t, [thread[t].obj EXCEPT
                    !.state = IF thread[t].obj.attempts < MaxAttempts
                              THEN "retrying" ELSE "failed",
                    !.hb = "null"], "idle")
    /\ UNCHANGED <<up, beat, faults>>

\* Fault: the job is parked, but the executor goes on.
ParkAndGoOn(t) ==
    /\ thread[t].pc = "executing"
    /\ Commit(t, [thread[t].obj EXCEPT !.state = "awaiting_approval"], "executing")
    /\ UNCHANGED <<up, beat, faults>>

\* _pause_for_approval stamps the heartbeat, _pause_for_approval_reason does not.
Park(t) ==
    /\ thread[t].pc = "executing"
    /\ \E hb \in {thread[t].obj.hb, "now"} :
        Commit(t, [thread[t].obj EXCEPT !.state = "awaiting_approval", !.hb = hb], "idle")
    /\ UNCHANGED <<up, beat, faults>>

-----------------------------------------------------------------------------
\* The heartbeat thread of a worker: heartbeat() for every running job there is.

BeatRead(w) ==
    /\ w \in up /\ beat[w] = NoJob
    /\ \E j \in Jobs :
        /\ job[j].state = "running"
        /\ beat' = [beat EXCEPT ![w] = j]
    /\ UNCHANGED <<job, up, thread, faults>>

BeatWrite(w) ==
    /\ beat[w] # NoJob
    /\ job' = [job EXCEPT ![beat[w]].hb = "fresh"]
    /\ beat' = [beat EXCEPT ![w] = NoJob]
    /\ UNCHANGED <<up, thread, faults>>

\* 300 s without a heartbeat.  Heartbeat threads beat every 5 s, so a running job
\* grows stale only while no worker is up.
Age(j) ==
    /\ up = {}
    /\ job[j].state = "running" /\ job[j].hb = "fresh"
    /\ job' = [job EXCEPT ![j].hb = "stale"]
    /\ UNCHANGED <<up, thread, beat, faults>>

-----------------------------------------------------------------------------
\* API requests.

\* A request loads the row of job j, changes the object to obj and is about to commit.
Load(r, j, obj, pc) ==
    /\ thread' = [thread EXCEPT ![r] =
            [pc |-> pc, job |-> j, loaded |-> job[j], obj |-> obj]]
    /\ UNCHANGED <<job, up, beat, faults>>

CancelRead(r, j) ==
    /\ "cancel" \in Ops /\ thread[r].pc = "idle"
    /\ job[j].state \notin {"absent", "completed", "failed", "cancelled"}
    /\ Load(r, j, [job[j] EXCEPT !.state = "cancelled"], "writing")

\* Fault: the job is requeued in whatever state it is.
DecideReadRequeues(r, j, decision) ==
    /\ "decide" \in Ops /\ thread[r].pc = "idle"
    /\ job[j].state # "absent"
    /\ Load(r, j, [job[j] EXCEPT !.state = "queued", !.hb = "null"], "writing")

DecideRead(r, j, decision) ==
    /\ "decide" \in Ops /\ thread[r].pc = "idle"
    /\ job[j].state = "awaiting_approval"
    /\ Load(r, j, IF decision = "approved"
                  THEN [job[j] EXCEPT !.state = "queued", !.hb = "null"]
                  ELSE [job[j] EXCEPT !.state = "failed"], "writing")

\* cancel_job and decide_approval commit.
WriteCommit(r) ==
    /\ thread[r].pc = "writing"
    /\ Commit(r, thread[r].obj, "idle")
    /\ UNCHANGED <<up, beat, faults>>

\* run_job_inline queues the job again ...
RunRead(r, j) ==
    /\ "run" \in Ops /\ thread[r].pc = "idle"
    /\ job[j].state \notin {"absent", "running"} /\ job[j].attempts < MaxClaims
    /\ Load(r, j, [job[j] EXCEPT !.state = "queued", !.hb = "null"], "requeueing")

\* ... and claims it: claim_job finds the object of the same session, queued.
RunRequeue(r) ==
    /\ thread[r].pc = "requeueing"
    /\ LET t == thread[r] IN
        /\ job' = [job EXCEPT ![t.job] = Flushed(@, t.loaded, t.obj)]
        /\ thread' = [thread EXCEPT ![r] =
                [pc |-> "claiming", job |-> t.job, loaded |-> t.obj, obj |-> Claimed(t.obj)]]
    /\ UNCHANGED <<up, beat, faults>>

-----------------------------------------------------------------------------
\* Faults.

\* The worker's process dies.
Crash(w) ==
    /\ w \in up /\ faults < MaxFaults
    /\ up' = up \ {w}
    /\ thread' = [thread EXCEPT ![w] = Down]
    /\ beat' = [beat EXCEPT ![w] = NoJob]
    /\ faults' = faults + 1
    /\ UNCHANGED job

\* A session fails for good (a commit that fails, that of a claim too, or a flush error
\* nobody rolls back), or the API process dies: nothing is written, the worker loop goes on.
LoseSession(t) ==
    /\ thread[t].pc \notin {"idle", "down"} /\ faults < MaxFaults
    /\ thread' = [thread EXCEPT ![t] = Idle]
    /\ faults' = faults + 1
    /\ UNCHANGED <<job, up, beat>>

-----------------------------------------------------------------------------
Outcome(t) == Complete(t) \/ Fail(t) \/ Park(t)

WorkerStep(w) ==
    ClaimRead(w) \/ ClaimCommit(w) \/ Merge(w) \/ Checkpoint(w) \/ Outcome(w)

RequestStep(r) ==
    \/ WriteCommit(r) \/ RunRequeue(r) \/ ClaimCommit(r) \/ Outcome(r)

Request(r, j) ==
    \/ CancelRead(r, j)
    \/ \E decision \in {"approved", "rejected"} : DecideRead(r, j, decision)
    \/ RunRead(r, j)

Next ==
    \/ \E j \in Jobs : CreateJob(j) \/ Age(j)
    \/ \E w \in Workers : StartWorker(w) \/ WorkerStep(w) \/ BeatRead(w) \/ BeatWrite(w) \/ Crash(w)
    \/ \E r \in Requests : RequestStep(r) \/ \E j \in Jobs : Request(r, j)
    \/ \E t \in Threads : LoseSession(t)

Spec == Init /\ [][Next]_vars

\* Workers are restarted and keep looping, heartbeats keep beating, accepted
\* requests are served and time passes.  That executions end is EveryClaimEnds of
\* Pipeline.
FairSpec ==
    /\ Spec
    /\ \A w \in Workers : /\ WF_vars(StartWorker(w))
                          /\ WF_vars(WorkerStep(w))
                          /\ WF_vars(BeatRead(w) \/ BeatWrite(w))
    /\ \A r \in Requests : WF_vars(RequestStep(r))
    /\ \A j \in Jobs : WF_vars(Age(j))
-----------------------------------------------------------------------------
(* Properties                                                              *)

\* Rows and sessions hold values of their columns, and only a session that is
\* about to commit holds a timestamp that is not written yet.
TypeOK ==
    /\ job \in [Jobs -> Row]
    /\ up \subseteq Workers
    /\ thread \in [Threads -> [pc : PCs, job : Jobs \cup {NoJob}, loaded : Row, obj : Object]]
    /\ beat \in [Workers -> Jobs \cup {NoJob}]
    /\ \A w \in Workers : w \notin up <=> thread[w].pc = "down"
    /\ faults \in 0 .. MaxFaults

\* A job waits for another try only while it has one left, whatever requests and
\* heartbeats were committed between its claim and its failure (_fail_job).
RetryingHasAttemptsLeft ==
    \A j \in Jobs : job[j].state = "retrying" => job[j].attempts < MaxAttempts

\* Nobody executes a job that waits for a human: no late commit of a session
\* reopens it or parks it behind its executor's back (_pause_for_approval).
ParkedNotExecuted ==
    \A j \in Jobs : job[j].state = "awaiting_approval" => \A t \in Threads : ~Executing(t, j)

\* No commit takes an attempt back: a cancellation or a decision that loaded the
\* row before a claim writes its own columns only (db.py's sessions).
AttemptsKept == [][\A j \in Jobs : job'[j].attempts >= job[j].attempts]_vars

\* docs/WORKFLOW.md:5-11, the lifecycle of a job; "absent" is a job not created
\* yet.  A reclaimed job stays "running".
Lifecycle ==
    {<<"absent", "queued">>, <<"queued", "running">>, <<"retrying", "running">>,
     <<"running", "completed">>, <<"running", "retrying">>, <<"running", "failed">>,
     <<"running", "awaiting_approval">>,
     <<"awaiting_approval", "queued">>, <<"awaiting_approval", "failed">>}

\* With one worker and one decision at a time, every commit moves a job along an
\* edge of the lifecycle, across crashes, reclaims and approvals.
LifecycleFollowed ==
    [][\A j \in Jobs :
         job'[j].state # job[j].state => <<job[j].state, job'[j].state>> \in Lifecycle]_vars

\* A queued job is picked up, cancelled or decided: no crash, lost session or
\* other job keeps it waiting for ever (claim_next_job, run_worker).
QueuedIsPickedUp ==
    \A j \in Jobs :
        LET waiting == job[j].state = "queued" /\ job[j].attempts < MaxClaims
        IN  waiting ~> ~waiting

-----------------------------------------------------------------------------
(* What the documentation says and the code does not do                    *)

\* docs/WORKFLOW.md:28: claim_next_job "atomically transitions to `running`": a
\* job is claimed by one executor at a time.
SoleExecutor ==
    \A j \in Jobs : \A t, u \in Threads : Executing(t, j) /\ Executing(u, j) => t = u

\* docs/WORKFLOW.md:5-11: no edge of the lifecycle leaves "cancelled".
CancelledIsFinal ==
    [][\A j \in Jobs : job[j].state = "cancelled" => job'[j].state = "cancelled"]_vars

\* docs/ALERTING_RUNBOOK.md:11: "Restart workers; jobs auto-reclaim": a running
\* job whose executor is gone is claimed again.
CrashedJobIsReclaimed ==
    \A j \in Jobs :
        LET orphaned == job[j].state = "running" /\ \A t \in Threads : thread[t].job # j
        IN  orphaned ~> ~orphaned

\* docs/WORKFLOW.md:20: "workers re-scan queued/retrying jobs on start": the scan
\* of claim_next_job finds every retrying job.
RetryingIsClaimable == \A j \in Jobs : job[j].state = "retrying" => Claimable(job[j])
=============================================================================
