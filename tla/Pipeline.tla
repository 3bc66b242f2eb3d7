------------------------------ MODULE Pipeline ------------------------------
(***************************************************************************)
(* One production job and the engine that executes it                      *)
(* (agency/workflow/engine.py, WorkflowEngine.execute_job), together with  *)
(* the API handlers that write the same rows (agency/api/main.py).         *)
(*                                                                         *)
(* At most one executor holds the job at a time; what happens when two do  *)
(* is the subject of JobQueue.  Everything that is committed to the        *)
(* database is kept across a crash, everything else is lost with it.       *)
(***************************************************************************)
EXTENDS Naturals, Sequences

CONSTANTS
    NStages,            \* len(PRODUCTION_STAGES)
    Needs,              \* Needs[s]: stages whose ctx_ output stage s reads by subscript
    Raises,             \* Raises[s]: failure classes stage s may fail with
    AudioMix,           \* STAGE_SEQ of the stages that repair strategies name,
    EditorialAssembly,
    AssetAcquisition,
    FinalRender,        \* and the default (13) that "final_render" falls back to
    ApprovalRequired,   \* settings.approval_required
    MaxTaskRetries,     \* WorkflowEngine(max_task_retries)
    RepairBudget,       \* WorkflowEngine(repair_budget)
    MaxAttempts,        \* jobs.max_attempts
    MaxClaims           \* bound of the exploration: how often the job is claimed

Seqs == 0 .. (NStages - 1)
Delivery == NStages - 2
Finalize == NStages - 1

FailureClasses ==
    {"transient", "render_crash", "provider_unavailable", "ffmpeg_error",
     "qa_loudness", "qa_duration", "qa_sync", "corrupt_media", "qa_other", "crash"}

RetryableClasses == {"transient", "render_crash", "provider_unavailable", "ffmpeg_error"}

\* The dictionary of strategies; other classes restart from stage 0.
Strategies ==
    [qa_loudness |-> AudioMix, qa_duration |-> EditorialAssembly, qa_sync |-> FinalRender,
     corrupt_media |-> AssetAcquisition, generic |-> 0]

RepairStrategyFor(class) ==
    IF class \in DOMAIN Strategies THEN Strategies[class] ELSE 0

ASSUME SizesAssumption ==
    /\ NStages \in Nat /\ NStages >= 2
    /\ MaxTaskRetries \in Nat \ {0}
    /\ RepairBudget \in Nat
    /\ MaxAttempts \in Nat
    /\ MaxClaims \in Nat
    /\ ApprovalRequired \in BOOLEAN
    /\ {AudioMix, EditorialAssembly, AssetAcquisition, FinalRender} \subseteq Nat

ASSUME StageTablesAssumption ==
    /\ Needs \in [Seqs -> SUBSET Seqs]
    /\ Raises \in [Seqs -> SUBSET FailureClasses]

\* A repair restarts at or before the stage that failed, or jumps over stages
\* whose output the stage it jumps to reads (qa_sync, raised by av_mux, restarts
\* at burn_captions, which reads what av_mux produces).
ASSUME JumpAssumption ==
    \A s \in Seqs : \A class \in Raises[s] :
        LET r == RepairStrategyFor(class) IN
        \/ r <= s
        \/ r \in Seqs /\ s .. (r - 1) \subseteq Needs[r]

VARIABLES
    state, attempts, repair_count, result,   \* the row of table jobs
    tasks,        \* tasks[s][k]: state of the row of attempt k of stage s
    approvals,    \* table approvals: rows [kind, status] in order of creation
    lastDecided,  \* index of the approval with the latest decided_at, 0 if none
    pc, seq, failureClass,      \* the executor: where it is in execute_job
    ctx,          \* stages whose outputs its in-memory context holds
    listed,       \* context["state"] holds ctx_deliverables_list
    final         \* context["deliverables"], set by the finalize stage

jobRow   == <<state, attempts, repair_count, result>>
approvalTable == <<approvals, lastDecided>>
executor == <<pc, seq, failureClass, ctx, listed, final>>
vars     == <<jobRow, tasks, approvalTable, executor>>

JobStates  == {"queued", "running", "retrying", "awaiting_approval",
               "completed", "failed", "cancelled"}
TaskStates == {"running", "done", "failed", "awaiting_approval", "pending"}
PCs        == {"idle", "stage", "handler", "failed", "resetting", "gated"}
Approval   == [kind : {"gate", "failure_escalation"},
               status : {"requested", "approved", "rejected"}]

-----------------------------------------------------------------------------
\* Rows that _run_single_task returns instead of running the stage again.
Live(rows)  == {k \in DOMAIN rows : rows[k] \in {"done", "awaiting_approval"}}
Done(rows)  == \E k \in DOMAIN rows : rows[k] = "done"
LiveRows(s) == Live(tasks[s])
HasDone(s)  == Done(tasks[s])
DoneSeqs    == {s \in Seqs : HasDone(s)}

Init ==
    /\ state = "queued" /\ attempts = 0 /\ repair_count = 0 /\ result = "none"
    /\ tasks = [s \in Seqs |-> <<>>]
    /\ approvals = <<>> /\ lastDecided = 0
    /\ pc = "idle" /\ seq = 0 /\ failureClass = "none" /\ ctx = {}
    /\ listed = FALSE /\ final = "none"

\* The executor returns (or dies): its memory is gone.
Forget ==
    /\ pc' = "idle" /\ seq' = 0 /\ failureClass' = "none" /\ ctx' = {}
    /\ listed' = FALSE /\ final' = "none"

-----------------------------------------------------------------------------
\* claim_job / claim_next_job, then _restore_context_state.  A running job whose
\* executor is gone is claimed when its heartbeat is stale.

\* Fault: an approved row gets the state of a job.
ResumedQueued(rows) ==
    [k \in DOMAIN rows |->
        IF rows[k] # "awaiting_approval" \/ lastDecided = 0 THEN rows[k]
        ELSE IF approvals[lastDecided].status = "approved" THEN "queued" ELSE "failed"]

\* Gated rows follow the latest decided approval of the job.
Resumed(rows) ==
    [k \in DOMAIN rows |->
        IF rows[k] # "awaiting_approval" \/ lastDecided = 0 THEN rows[k]
        ELSE IF approvals[lastDecided].status = "approved" THEN "pending" ELSE "failed"]

Claim ==
    /\ pc = "idle"
    /\ state \in {"queued", "retrying", "running"}
    /\ attempts < MaxClaims
    /\ state' = "running"
    /\ attempts' = attempts + 1
    /\ tasks' = [s \in Seqs |-> Resumed(tasks[s])]
    /\ pc' = "stage" /\ seq' = 0 /\ ctx' = DoneSeqs
    /\ UNCHANGED <<repair_count, result, approvalTable, failureClass, listed, final>>

-----------------------------------------------------------------------------
\* execute_job: the stage loop and _run_single_task.

SkipDone ==
    /\ pc = "stage" /\ seq \in Seqs
    /\ \E k \in LiveRows(seq) : LiveRows(seq) = {k} /\ tasks[seq][k] = "done"
    /\ seq' = seq + 1
    /\ UNCHANGED <<jobRow, tasks, approvalTable, pc, failureClass, ctx, listed, final>>

FindGated ==
    /\ pc = "stage" /\ seq \in Seqs
    /\ \E k \in LiveRows(seq) : LiveRows(seq) = {k} /\ tasks[seq][k] = "awaiting_approval"
    /\ pc' = "gated"
    /\ UNCHANGED <<jobRow, tasks, approvalTable, seq, failureClass, ctx, listed, final>>

\* Fault: only done rows keep a stage from starting.
StartStageOverGate ==
    /\ pc = "stage" /\ seq \in Seqs
    /\ ~HasDone(seq)
    /\ tasks' = [tasks EXCEPT ![seq] = Append(@, "running")]
    /\ pc' = "handler"
    /\ UNCHANGED <<jobRow, approvalTable, seq, failureClass, ctx, listed, final>>

StartStage ==
    /\ pc = "stage" /\ seq \in Seqs
    /\ LiveRows(seq) = {}
    /\ tasks' = [tasks EXCEPT ![seq] = Append(@, "running")]
    /\ pc' = "handler"
    /\ UNCHANGED <<jobRow, approvalTable, seq, failureClass, ctx, listed, final>>

\* The row the handler works on is the last one of its stage.
SetRow(s) == [tasks EXCEPT ![seq][Len(tasks[seq])] = s]

\* stage_delivery asks for a "pre_publish" approval before it does anything.
Gated ==
    /\ seq = Delivery /\ ApprovalRequired
    /\ ~ \E i \in DOMAIN approvals :
            approvals[i].kind = "pre_publish" /\ approvals[i].status = "approved"

\* Fault: a handler that defaults the inputs it misses.
HandlerDoneBlind ==
    /\ pc = "handler" /\ ~Gated
    /\ tasks' = SetRow("done")
    /\ ctx' = ctx \cup {seq}
    /\ listed' = (listed \/ seq = Delivery)
    /\ final' = IF seq = Finalize THEN (IF listed THEN "full" ELSE "empty") ELSE final
    /\ pc' = "stage" /\ seq' = seq + 1
    /\ UNCHANGED <<jobRow, approvalTable, failureClass>>

HandlerDone ==
    /\ pc = "handler" /\ ~Gated
    /\ Needs[seq] \subseteq ctx
    /\ tasks' = SetRow("done")
    /\ ctx' = ctx \cup {seq}
    /\ listed' = (listed \/ seq = Delivery)
    /\ final' = IF seq = Finalize THEN (IF listed THEN "full" ELSE "empty") ELSE final
    /\ pc' = "stage" /\ seq' = seq + 1
    /\ UNCHANGED <<jobRow, approvalTable, failureClass>>

HandlerGated ==
    /\ pc = "handler" /\ Gated
    /\ tasks' = SetRow("awaiting_approval")
    /\ pc' = "gated"
    /\ UNCHANGED <<jobRow, approvalTable, seq, failureClass, ctx, listed, final>>

\* A handler that misses an input dies of the KeyError.
HandlerFailed ==
    /\ pc = "handler" /\ ~Gated
    /\ \E class \in IF Needs[seq] \subseteq ctx THEN Raises[seq] ELSE {"crash"} :
           failureClass' = class
    /\ tasks' = SetRow("failed")
    /\ pc' = "failed"
    /\ UNCHANGED <<jobRow, approvalTable, seq, ctx, listed, final>>

PauseForApproval ==
    /\ pc = "gated"
    /\ approvals' = Append(approvals, [kind |-> "gate", status |-> "requested"])
    /\ state' = "awaiting_approval"
    /\ Forget
    /\ UNCHANGED <<attempts, repair_count, result, tasks, lastDecided>>

Complete ==
    /\ pc = "stage" /\ seq \notin Seqs
    /\ state' = "completed"
    /\ result' = IF final = "full" THEN "full" ELSE "empty"
    /\ Forget
    /\ UNCHANGED <<attempts, repair_count, tasks, approvalTable>>

-----------------------------------------------------------------------------
\* _attempt_repair

\* Fault: the retry limit is off by one.
StageRetryableOnceMore ==
    LET attempt == Len(tasks[seq]) IN
    /\ attempt <= MaxTaskRetries
    /\ failureClass \in RetryableClasses \/ attempt < 2

StageRetryable ==
    LET attempt == Len(tasks[seq]) IN
    /\ attempt < MaxTaskRetries
    /\ failureClass \in RetryableClasses \/ attempt < 2

\* Fault: a repaired stage is passed over instead of repeated.
RetryStageFallsThrough ==
    /\ pc = "failed" /\ StageRetryable
    /\ pc' = "stage" /\ seq' = seq + 1 /\ failureClass' = "none"
    /\ UNCHANGED <<jobRow, tasks, approvalTable, ctx, listed, final>>

RetryStage ==
    /\ pc = "failed" /\ StageRetryable
    /\ pc' = "stage" /\ failureClass' = "none"
    /\ UNCHANGED <<jobRow, tasks, approvalTable, seq, ctx, listed, final>>

\* Fault: the budget test is off by one.
PlanOneRepairMore ==
    /\ pc = "failed" /\ ~StageRetryable
    /\ repair_count <= RepairBudget
    /\ repair_count' = repair_count + 1
    /\ pc' = "resetting"
    /\ UNCHANGED <<state, attempts, result, tasks, approvalTable,
                   seq, failureClass, ctx, listed, final>>

\* Fault: the repair is not counted.
PlanUncountedRepair ==
    /\ pc = "failed" /\ ~StageRetryable
    /\ repair_count < RepairBudget
    /\ pc' = "resetting"
    /\ UNCHANGED <<jobRow, tasks, approvalTable, seq, failureClass, ctx, listed, final>>

PlanPipelineRepair ==
    /\ pc = "failed" /\ ~StageRetryable
    /\ repair_count < RepairBudget
    /\ repair_count' = repair_count + 1
    /\ pc' = "resetting"
    /\ UNCHANGED <<state, attempts, result, tasks, approvalTable,
                   seq, failureClass, ctx, listed, final>>

\* Fault: the restart deletes finished rows too.
PurgedAll(s) == <<>>

\* The restart deletes rows that are not done.  A done row keeps its stage from
\* running again, so its attempt number does not matter any more.
Purged(s) == IF HasDone(s) THEN <<"done">> ELSE <<>>

ApplyPipelineRepair ==
    LET r == RepairStrategyFor(failureClass) IN
    /\ pc = "resetting"
    /\ tasks' = [s \in Seqs |-> IF s >= r THEN Purged(s) ELSE tasks[s]]
    /\ pc' = "stage" /\ seq' = r /\ failureClass' = "none"
    /\ UNCHANGED <<jobRow, approvalTable, ctx, listed, final>>

\* Fault: the job is parked without an approval row.
EscalateSilently ==
    /\ pc = "failed" /\ ~StageRetryable
    /\ ~(repair_count < RepairBudget)
    /\ state' = "awaiting_approval"
    /\ Forget
    /\ UNCHANGED <<attempts, repair_count, result, tasks, approvalTable>>

EscalateHuman ==
    /\ pc = "failed" /\ ~StageRetryable
    /\ ~(repair_count < RepairBudget)
    /\ approvals' = Append(approvals, [kind |-> "failure_escalation", status |-> "requested"])
    /\ state' = "awaiting_approval"
    /\ Forget
    /\ UNCHANGED <<attempts, repair_count, result, tasks, lastDecided>>

\* execute_job's "except Exception": a query or a commit that fails, that of a handler's
\* outcome too, or two live rows of a stage.
FailJob ==
    /\ pc # "idle"
    /\ state' = IF attempts < MaxAttempts THEN "retrying" ELSE "failed"
    /\ Forget
    /\ UNCHANGED <<attempts, repair_count, result, tasks, approvalTable>>

\* The process dies, or its database session does: nothing more is written.
Crash ==
    /\ pc # "idle"
    /\ Forget
    /\ UNCHANGED <<jobRow, tasks, approvalTable>>

-----------------------------------------------------------------------------
\* The API handlers that write a job.

CancelJob ==
    /\ state \notin {"completed", "failed", "cancelled"}
    /\ state' = "cancelled"
    /\ UNCHANGED <<attempts, repair_count, result, tasks, approvalTable, executor>>

\* By approval id any row can be decided, also a second time.
DecideApproval(i, decision) ==
    /\ approvals' = [approvals EXCEPT ![i].status = decision]
    /\ lastDecided' = i
    /\ state' = IF state # "awaiting_approval" THEN state
                ELSE IF decision = "approved" THEN "queued" ELSE "failed"
    /\ UNCHANGED <<attempts, repair_count, result, tasks, executor>>

\* POST /jobs/{id}/run on a job nobody executes: any state but running is queued
\* again, and claimed next.
Requeue ==
    /\ pc = "idle" /\ state \notin {"running", "queued"}
    /\ state' = "queued"
    /\ UNCHANGED <<attempts, repair_count, result, tasks, approvalTable, executor>>

-----------------------------------------------------------------------------
Execute ==
    \/ SkipDone \/ FindGated \/ StartStage
    \/ HandlerDone \/ HandlerGated \/ HandlerFailed
    \/ PauseForApproval \/ Complete
    \/ RetryStage \/ PlanPipelineRepair \/ ApplyPipelineRepair \/ EscalateHuman

Next ==
    \/ Claim
    \/ Execute
    \/ FailJob
    \/ Crash
    \/ CancelJob
    \/ \E i \in DOMAIN approvals, d \in {"approved", "rejected"} : DecideApproval(i, d)
    \/ Requeue

Spec == Init /\ [][Next]_vars

\* A live executor keeps executing.
FairSpec == Spec /\ WF_vars(Execute)
-----------------------------------------------------------------------------
(* Properties                                                              *)

\* The rows have the columns' values, and the executor's registers fit its place
\* in execute_job.
TypeOK ==
    /\ state \in JobStates /\ attempts \in Nat /\ repair_count \in Nat
    /\ result \in {"none", "empty", "full"}
    /\ tasks \in [Seqs -> Seq(TaskStates)]
    /\ approvals \in Seq(Approval) /\ lastDecided \in 0 .. Len(approvals)
    /\ pc \in PCs /\ seq \in Nat
    /\ failureClass \in FailureClasses \cup {"none"}
    /\ ctx \subseteq Seqs /\ listed \in BOOLEAN /\ final \in {"none", "empty", "full"}

\* However claims, crashes, approvals and cancellations interleave, a job is
\* repaired at most RepairBudget times in its life (_attempt_repair).
RepairBudgetRespected == repair_count <= RepairBudget

\* Each claim adds at most one attempt of a stage beyond the retry limit: rows
\* left by crashes and escalations count (_run_single_task, _attempt_repair).
TaskAttemptsBounded ==
    \A s \in Seqs : Len(tasks[s]) < MaxTaskRetries + attempts

\* A stage is done only when every earlier stage is: neither a repair nor a
\* resumed run can leave a hole, although a repair may jump forward (execute_job).
StagesInOrder ==
    \A s \in Seqs : HasDone(s) => \A u \in 0 .. (s - 1) : HasDone(u)

\* Of one stage at most one row is done or gated, so that scalar_one_or_none in
\* _run_single_task cannot raise MultipleResultsFound.
OneLiveRow == \A s \in Seqs : \A j, k \in LiveRows(s) : j = k

\* A completed job has finished every stage (_complete_job).
CompletedMeansAllDone == state = "completed" => DoneSeqs = Seqs

\* A parked job can be decided: some approval of it is still requested, whatever
\* was decided before and however the job got there (decide_approval).
ParkedHasRequest ==
    state = "awaiting_approval" =>
        \E i \in DOMAIN approvals : approvals[i].status = "requested"

\* No step undoes finished work: repairs, crashes, rejections and further claims
\* leave every done stage done.
ProgressKept == [][\A s \in Seqs : HasDone(s) => HasDone(s)']_vars

\* Every claim ends: no chain of retries and repairs goes on for ever.
EveryClaimEnds == (pc # "idle") ~> (pc = "idle")

\* The job implements in-order progress that is never lost.
Progress == INSTANCE StageProgress WITH done <- DoneSeqs, completed <- (state = "completed")
ImplementsProgress == Progress!Spec

-----------------------------------------------------------------------------
(* The inductive invariant behind the safety properties                    *)

\* What the executor's place in execute_job says about the rows.
RegistersFit ==
    /\ pc # "idle" => attempts > 0
    /\ pc \in {"handler", "failed", "resetting", "gated"} => seq \in Seqs
    /\ pc = "handler" =>
        /\ LiveRows(seq) = {}
        /\ tasks[seq] # <<>>
    /\ pc \in {"failed", "resetting"} => failureClass \in Raises[seq] \cup {"crash"}

\* Stages passed over by a forward jump are inputs of the stage jumped to, and
\* only a handler that died of missing inputs failed with such a hole behind it.
HolesAreInputs ==
    /\ pc # "idle" =>
        \A u \in Seqs : u < seq => HasDone(u) \/ (seq \in Seqs /\ u \in Needs[seq])
    /\ pc \in {"failed", "resetting"} =>
        \/ failureClass = "crash"
        \/ \A u \in Seqs : u < seq => HasDone(u)

ContextIsDone == ctx \subseteq DoneSeqs

\* A stage this claim has not tried yet still has its extra attempt to give.
AttemptsLeft ==
    LET Fresh(s) == ~HasDone(s) => Len(tasks[s]) + 1 < MaxTaskRetries + attempts
    IN  /\ pc = "stage" => \A s \in Seqs : s >= seq => Fresh(s)
        /\ pc \in {"handler", "failed", "resetting", "gated"} =>
              \A s \in Seqs : s > seq => Fresh(s)

IInv ==
    /\ TypeOK
    /\ RepairBudgetRespected
    /\ TaskAttemptsBounded
    /\ StagesInOrder
    /\ OneLiveRow
    /\ CompletedMeansAllDone
    /\ ParkedHasRequest
    /\ RegistersFit
    /\ HolesAreInputs
    /\ ContextIsDone
    /\ AttemptsLeft

-----------------------------------------------------------------------------
(* What the documentation says and the code does not do                    *)

\* docs/WORKFLOW.md:20: "all state in DB": the result of a completed job lists
\* the deliverables its delivery stage produced, also after a restart.
CompletedListsDeliverables == state = "completed" => result = "full"

\* docs/QA_AND_REPAIR.md:41: "qa_sync -> restart from av_mux": a restart never
\* continues after the stage that failed.
RestartNeverSkips == [][pc = "resetting" /\ pc' = "stage" => seq' <= seq]_vars

\* docs/QA_AND_REPAIR.md:53: "approved gate resumes job to completion": a job
\* whose gate was approved is not parked at the gate once more.
ApprovedGateOpens ==
    [][pc = "gated" /\ state' = "awaiting_approval" =>
         ~ \E i \in DOMAIN approvals :
              approvals[i].kind = "gate" /\ approvals[i].status = "approved"]_vars
=============================================================================
