--------------------------- MODULE PipelineProofs ---------------------------
(***************************************************************************)
(* Proofs about Pipeline, for every number of stages, every table of       *)
(* inputs and failure classes that satisfies the assumptions, and every    *)
(* retry limit, repair budget and number of claims.                        *)
(***************************************************************************)
EXTENDS Pipeline, SequenceTheorems, WellFoundedInduction, TLAPS

-----------------------------------------------------------------------------
(* The rows of one stage                                                   *)

\* Starting a stage adds a row that is neither done nor gated.
LEMMA AppendRunning ==
    ASSUME NEW rows \in Seq(TaskStates)
    PROVE  LET new == Append(rows, "running") IN
           /\ new \in Seq(TaskStates)
           /\ Len(new) = Len(rows) + 1
           /\ new # <<>>
           /\ Live(new) = Live(rows)
           /\ Done(new) <=> Done(rows)
<1>1. "running" \in TaskStates
  BY DEF TaskStates
<1>2. /\ Append(rows, "running") \in Seq(TaskStates)
      /\ Len(Append(rows, "running")) = Len(rows) + 1
      /\ DOMAIN Append(rows, "running") = 1 .. (Len(rows) + 1)
      /\ DOMAIN rows = 1 .. Len(rows)
      /\ Len(rows) \in Nat
  BY <1>1
<1>3. \A k \in 1 .. (Len(rows) + 1) :
        Append(rows, "running")[k] = IF k <= Len(rows) THEN rows[k] ELSE "running"
  BY <1>1
<1>4. Append(rows, "running") # <<>>
  BY <1>2
<1>5. Live(Append(rows, "running")) = Live(rows)
  BY <1>2, <1>3 DEF Live
<1>6. Done(Append(rows, "running")) <=> Done(rows)
  BY <1>2, <1>3 DEF Done
<1> QED
  BY <1>2, <1>4, <1>5, <1>6

\* Recording the outcome of the last row of a stage without live rows.
LEMMA SetLastRow ==
    ASSUME NEW rows \in Seq(TaskStates), rows # <<>>, Live(rows) = {},
           NEW outcome \in {"done", "awaiting_approval", "failed"}
    PROVE  LET new == [rows EXCEPT ![Len(rows)] = outcome] IN
           /\ new \in Seq(TaskStates)
           /\ Len(new) = Len(rows)
           /\ Live(new) = IF outcome = "failed" THEN {} ELSE {Len(rows)}
           /\ Done(new) <=> outcome = "done"
           /\ ~Done(rows)
<1> DEFINE new == [rows EXCEPT ![Len(rows)] = outcome]
<1>1. Len(rows) \in 1 .. Len(rows) /\ DOMAIN rows = 1 .. Len(rows)
  BY EmptySeq
<1>2. outcome \in TaskStates
  BY DEF TaskStates
<1>3. /\ new \in Seq(TaskStates)
      /\ Len(new) = Len(rows)
      /\ \A j \in 1 .. Len(rows) : new[j] = IF j = Len(rows) THEN outcome ELSE rows[j]
  BY <1>1, <1>2, ExceptSeq
<1>4. \A j \in 1 .. Len(rows) : rows[j] \notin {"done", "awaiting_approval"}
  BY <1>1 DEF Live
<1>5. DOMAIN new = 1 .. Len(rows)
  BY <1>1
<1> HIDE DEF new
<1>6. Live(new) = IF outcome = "failed" THEN {} ELSE {Len(rows)}
  BY <1>1, <1>3, <1>4, <1>5 DEF Live
<1>7. Done(new) <=> outcome = "done"
  BY <1>1, <1>3, <1>4, <1>5 DEF Done
<1>8. ~Done(rows)
  BY <1>1, <1>4 DEF Done
<1> QED
  BY <1>3, <1>6, <1>7, <1>8 DEF new

\* A claim changes gated rows only, and never makes one done.
LEMMA ResumedRows ==
    ASSUME NEW rows \in Seq(TaskStates)
    PROVE  /\ Resumed(rows) \in Seq(TaskStates)
           /\ Len(Resumed(rows)) = Len(rows)
           /\ Live(Resumed(rows)) \subseteq Live(rows)
           /\ Done(Resumed(rows)) <=> Done(rows)
<1>1. DOMAIN rows = 1 .. Len(rows) /\ Len(rows) \in Nat
  OBVIOUS
<1>2. \A k \in 1 .. Len(rows) : rows[k] \in TaskStates
  OBVIOUS
<1>3. Resumed(rows) \in [1 .. Len(rows) -> TaskStates]
  BY <1>1, <1>2 DEF Resumed, TaskStates
<1>4. Resumed(rows) \in Seq(TaskStates) /\ Len(Resumed(rows)) = Len(rows)
  BY <1>1, <1>3, SeqDef
<1>5. \A k \in 1 .. Len(rows) :
        \/ Resumed(rows)[k] = rows[k]
        \/ rows[k] = "awaiting_approval" /\ Resumed(rows)[k] \in {"pending", "failed"}
  BY <1>1 DEF Resumed
<1>6. DOMAIN Resumed(rows) = 1 .. Len(rows)
  BY <1>3
<1>7. Live(Resumed(rows)) \subseteq Live(rows)
  BY <1>1, <1>5, <1>6 DEF Live
<1>8. Done(Resumed(rows)) <=> Done(rows)
  BY <1>1, <1>5, <1>6 DEF Done
<1> QED
  BY <1>4, <1>7, <1>8

\* A restart keeps at most the done row.
LEMMA PurgedRows ==
    ASSUME NEW s
    PROVE  /\ Purged(s) \in Seq(TaskStates)
           /\ Len(Purged(s)) = IF HasDone(s) THEN 1 ELSE 0
           /\ \A j, k \in Live(Purged(s)) : j = k
           /\ Done(Purged(s)) <=> HasDone(s)
<1>1. CASE HasDone(s)
  <2>1. Purged(s) = <<"done">>
    BY <1>1 DEF Purged
  <2>2. <<"done">> \in Seq(TaskStates) /\ Len(<<"done">>) = 1
    BY DEF TaskStates
  <2>3. Done(<<"done">>) /\ Live(<<"done">>) = {1}
    BY DEF Done, Live
  <2> QED
    BY <1>1, <2>1, <2>2, <2>3
<1>2. CASE ~HasDone(s)
  <2>1. Purged(s) = <<>>
    BY <1>2 DEF Purged
  <2>2. ~Done(<<>>) /\ Live(<<>>) = {}
    BY DEF Done, Live
  <2> QED
    BY <1>2, <2>1, <2>2
<1> QED
  BY <1>1, <1>2

-----------------------------------------------------------------------------
(* The inductive invariant                                                 *)

\* Values the definitions of the stage numbers give.
LEMMA SizeFacts ==
    /\ NStages \in Nat /\ NStages >= 2
    /\ MaxTaskRetries \in Nat /\ MaxTaskRetries >= 1
    /\ RepairBudget \in Nat
    /\ Seqs \subseteq Nat
    /\ \A s \in Seqs : \A u \in 0 .. (s - 1) : u \in Seqs /\ u < s
    /\ \A s \in Seqs : \A u \in Seqs : u < s => u \in 0 .. (s - 1)
    /\ \A s \in Nat : s \notin Seqs => \A u \in Seqs : u < s
    /\ \A class \in FailureClasses : RepairStrategyFor(class) \in Nat
    /\ RepairStrategyFor("crash") = 0
<1>1. /\ NStages \in Nat /\ NStages >= 2
      /\ MaxTaskRetries \in Nat /\ MaxTaskRetries >= 1
      /\ RepairBudget \in Nat
  BY SizesAssumption
<1>2. \A class \in FailureClasses : RepairStrategyFor(class) \in Nat
  BY SizesAssumption DEF RepairStrategyFor, Strategies
<1>3. RepairStrategyFor("crash") = 0
  BY DEF RepairStrategyFor, Strategies
<1>4. Seqs \subseteq Nat
  BY <1>1 DEF Seqs
<1>5. \A s \in Seqs : \A u \in 0 .. (s - 1) : u \in Seqs /\ u < s
  BY <1>1 DEF Seqs
<1>6. \A s \in Seqs : \A u \in Seqs : u < s => u \in 0 .. (s - 1)
  BY <1>1 DEF Seqs
<1>7. \A s \in Nat : s \notin Seqs => \A u \in Seqs : u < s
  BY <1>1 DEF Seqs
<1> QED
  BY <1>1, <1>2, <1>3, <1>4, <1>5, <1>6, <1>7

LEMMA InductiveInit == Init => IInv
<1> SUFFICES ASSUME Init PROVE IInv
  OBVIOUS
<1> USE DEF Init
<1>1. \A s \in Seqs : ~HasDone(s) /\ LiveRows(s) = {} /\ Len(tasks[s]) = 0
  BY DEF HasDone, LiveRows, Done, Live
<1>2. TypeOK
  <2>1. tasks \in [Seqs -> Seq(TaskStates)]
    BY EmptySeq
  <2>2. approvals \in Seq(Approval) /\ Len(approvals) = 0
    BY EmptySeq
  <2>3. lastDecided \in 0 .. Len(approvals)
    BY <2>2
  <2>4. state \in JobStates /\ pc \in PCs /\ result \in {"none", "empty", "full"}
        /\ failureClass \in FailureClasses \cup {"none"} /\ final \in {"none", "empty", "full"}
    BY DEF JobStates, PCs
  <2>5. attempts \in Nat /\ repair_count \in Nat /\ seq \in Nat /\ ctx \subseteq Seqs
        /\ listed \in BOOLEAN
    OBVIOUS
  <2> HIDE DEF Init
  <2> QED
    BY <2>1, <2>2, <2>3, <2>4, <2>5 DEF TypeOK
<1>3. RepairBudgetRespected /\ TaskAttemptsBounded
  BY SizeFacts, <1>1 DEF RepairBudgetRespected, TaskAttemptsBounded
<1>4. StagesInOrder /\ OneLiveRow /\ CompletedMeansAllDone /\ ParkedHasRequest
  BY <1>1 DEF StagesInOrder, OneLiveRow, CompletedMeansAllDone, ParkedHasRequest
<1>5. RegistersFit /\ HolesAreInputs /\ ContextIsDone /\ AttemptsLeft
  BY DEF RegistersFit, HolesAreInputs, ContextIsDone, AttemptsLeft
<1> QED
  BY <1>2, <1>3, <1>4, <1>5 DEF IInv

\* A step that leaves the rows and the executor's position alone, or ends the
\* run, disturbs only what is said about the job and its approvals.
LEMMA RowsUntouched ==
    ASSUME IInv,
           UNCHANGED <<tasks, attempts, repair_count>>,
           \/ UNCHANGED executor
           \/ Forget
    PROVE  /\ RepairBudgetRespected' /\ TaskAttemptsBounded'
           /\ StagesInOrder' /\ OneLiveRow'
           /\ RegistersFit' /\ HolesAreInputs' /\ ContextIsDone' /\ AttemptsLeft'
<1>1. RepairBudgetRespected' /\ TaskAttemptsBounded'
  BY DEF IInv, RepairBudgetRespected, TaskAttemptsBounded
<1>2. StagesInOrder' /\ OneLiveRow'
  BY DEF IInv, StagesInOrder, OneLiveRow, HasDone, LiveRows
<1>3. RegistersFit' /\ HolesAreInputs' /\ ContextIsDone' /\ AttemptsLeft'
  <2>1. CASE UNCHANGED executor
    BY <2>1 DEF IInv, executor, RegistersFit, HolesAreInputs, ContextIsDone,
                AttemptsLeft, DoneSeqs, HasDone, LiveRows
  <2>2. CASE Forget
    BY <2>2 DEF Forget, RegistersFit, HolesAreInputs, ContextIsDone, AttemptsLeft
  <2> QED
    BY <2>1, <2>2
<1> QED
  BY <1>1, <1>2, <1>3

LEMMA ClaimInductive ==
    ASSUME IInv, Claim
    PROVE  IInv'
<1> USE DEF Claim
<1>0. tasks \in [Seqs -> Seq(TaskStates)] /\ attempts \in Nat
  BY DEF IInv, TypeOK
<1>1. \A s \in Seqs : /\ tasks'[s] \in Seq(TaskStates)
                      /\ Len(tasks'[s]) = Len(tasks[s])
                      /\ Live(tasks'[s]) \subseteq Live(tasks[s])
                      /\ Done(tasks'[s]) <=> Done(tasks[s])
  BY <1>0, ResumedRows
<1>2. TypeOK'
  BY <1>0, <1>1 DEF IInv, TypeOK, JobStates, PCs, DoneSeqs, approvalTable
<1>3. RepairBudgetRespected' /\ TaskAttemptsBounded'
  BY <1>0, <1>1, SizeFacts DEF IInv, RepairBudgetRespected, TaskAttemptsBounded
<1>4. StagesInOrder' /\ OneLiveRow'
  BY <1>1, SizeFacts DEF IInv, StagesInOrder, OneLiveRow, HasDone, LiveRows
<1>5. CompletedMeansAllDone' /\ ParkedHasRequest'
  BY DEF CompletedMeansAllDone, ParkedHasRequest
<1>6. RegistersFit'
  BY <1>0 DEF RegistersFit
<1>7. HolesAreInputs'
  BY SizeFacts DEF HolesAreInputs
<1>8. ContextIsDone'
  BY <1>1 DEF ContextIsDone, DoneSeqs, HasDone
<1>9. AttemptsLeft'
  BY <1>0, <1>1, SizeFacts DEF IInv, TaskAttemptsBounded, AttemptsLeft, HasDone
<1> QED
  BY <1>2, <1>3, <1>4, <1>5, <1>6, <1>7, <1>8, <1>9 DEF IInv

\* The stage loop moves on or finds a gate: no row changes.
LEMMA SkipDoneInductive ==
    ASSUME IInv, SkipDone
    PROVE  IInv'
<1> USE DEF SkipDone, jobRow, approvalTable
<1>1. HasDone(seq) /\ seq \in Seqs /\ seq \in Nat
  BY SizeFacts DEF HasDone, Done, LiveRows, Live
<1>2. \A u \in Seqs : u < seq' => HasDone(u)
  BY <1>1, SizeFacts DEF IInv, StagesInOrder
<1>3. TypeOK'
  BY <1>1 DEF IInv, TypeOK
<1>4. RepairBudgetRespected' /\ TaskAttemptsBounded'
  BY DEF IInv, RepairBudgetRespected, TaskAttemptsBounded
<1>5. StagesInOrder' /\ OneLiveRow' /\ CompletedMeansAllDone' /\ ParkedHasRequest'
  BY DEF IInv, StagesInOrder, OneLiveRow, CompletedMeansAllDone, ParkedHasRequest,
         DoneSeqs, HasDone, LiveRows
<1>6. RegistersFit'
  BY DEF IInv, RegistersFit
<1>7. HolesAreInputs'
  BY <1>2 DEF HolesAreInputs, HasDone
<1>8. ContextIsDone'
  BY DEF IInv, ContextIsDone, DoneSeqs, HasDone
<1>9. AttemptsLeft'
  BY <1>1, SizeFacts DEF IInv, AttemptsLeft, HasDone
<1> QED
  BY <1>3, <1>4, <1>5, <1>6, <1>7, <1>8, <1>9 DEF IInv

LEMMA FindGatedInductive ==
    ASSUME IInv, FindGated
    PROVE  IInv'
<1> USE DEF FindGated, jobRow, approvalTable
<1>1. TypeOK'
  BY DEF IInv, TypeOK, PCs
<1>2. RepairBudgetRespected' /\ TaskAttemptsBounded'
  BY DEF IInv, RepairBudgetRespected, TaskAttemptsBounded
<1>3. StagesInOrder' /\ OneLiveRow' /\ CompletedMeansAllDone' /\ ParkedHasRequest'
  BY DEF IInv, StagesInOrder, OneLiveRow, CompletedMeansAllDone, ParkedHasRequest,
         DoneSeqs, HasDone, LiveRows
<1>4. RegistersFit'
  BY DEF IInv, RegistersFit
<1>5. HolesAreInputs' /\ ContextIsDone'
  BY DEF IInv, HolesAreInputs, ContextIsDone, DoneSeqs, HasDone
<1>6. AttemptsLeft'
  BY SizeFacts DEF IInv, AttemptsLeft, HasDone
<1> QED
  BY <1>1, <1>2, <1>3, <1>4, <1>5, <1>6 DEF IInv

LEMMA StartStageInductive ==
    ASSUME IInv, StartStage
    PROVE  IInv'
<1> USE DEF StartStage, jobRow, approvalTable
<1>0. /\ tasks \in [Seqs -> Seq(TaskStates)] /\ attempts \in Nat
      /\ seq \in Seqs /\ seq \in Nat
  BY SizeFacts DEF IInv, TypeOK
<1>1. /\ tasks'[seq] \in Seq(TaskStates)
      /\ Len(tasks'[seq]) = Len(tasks[seq]) + 1
      /\ tasks'[seq] # <<>>
      /\ Live(tasks'[seq]) = Live(tasks[seq])
      /\ Done(tasks'[seq]) <=> Done(tasks[seq])
  BY <1>0, AppendRunning
<1>2. \A s \in Seqs : s # seq => tasks'[s] = tasks[s]
  BY <1>0
<1>3. /\ tasks' \in [Seqs -> Seq(TaskStates)]
      /\ \A s \in Seqs : /\ Live(tasks'[s]) = Live(tasks[s])
                         /\ Done(tasks'[s]) <=> Done(tasks[s])
  BY <1>0, <1>1, <1>2
<1>4. ~Done(tasks[seq])
  BY DEF LiveRows, Live, Done
<1>5. TypeOK'
  BY <1>3 DEF IInv, TypeOK, PCs
<1>6. TaskAttemptsBounded' /\ RepairBudgetRespected'
  <2>1. Len(tasks[seq]) + 1 < MaxTaskRetries + attempts
    BY <1>0, <1>4 DEF IInv, AttemptsLeft, HasDone
  <2> QED
    BY <1>0, <1>1, <1>2, <2>1 DEF IInv, TaskAttemptsBounded, RepairBudgetRespected
<1>7. StagesInOrder' /\ OneLiveRow'
  BY <1>3, SizeFacts DEF IInv, StagesInOrder, OneLiveRow, HasDone, LiveRows
<1>8. CompletedMeansAllDone' /\ ParkedHasRequest' /\ ContextIsDone'
  BY <1>3 DEF IInv, CompletedMeansAllDone, ParkedHasRequest, ContextIsDone, DoneSeqs, HasDone
<1>9. RegistersFit'
  BY <1>0, <1>1, <1>3 DEF IInv, RegistersFit, LiveRows
<1>10. HolesAreInputs'
  BY <1>3 DEF IInv, HolesAreInputs, HasDone
<1>11. AttemptsLeft'
  BY <1>0, <1>2, SizeFacts DEF IInv, AttemptsLeft, HasDone
<1> QED
  BY <1>5, <1>6, <1>7, <1>8, <1>9, <1>10, <1>11 DEF IInv

\* What recording an outcome does to the table, for the three ways a handler ends.
LEMMA SetRowFacts ==
    ASSUME IInv, pc = "handler",
           NEW outcome \in {"done", "awaiting_approval", "failed"},
           tasks' = SetRow(outcome)
    PROVE  /\ seq \in Seqs /\ ~HasDone(seq)
           /\ tasks' \in [Seqs -> Seq(TaskStates)]
           /\ \A s \in Seqs : Len(tasks'[s]) = Len(tasks[s])
           /\ \A s \in Seqs : s # seq => tasks'[s] = tasks[s]
           /\ Live(tasks'[seq]) = IF outcome = "failed" THEN {} ELSE {Len(tasks[seq])}
           /\ Done(tasks'[seq]) <=> outcome = "done"
<1>1. /\ tasks \in [Seqs -> Seq(TaskStates)] /\ seq \in Seqs
      /\ tasks[seq] # <<>> /\ Live(tasks[seq]) = {}
  BY DEF IInv, TypeOK, RegistersFit, LiveRows
<1>2. tasks' = [tasks EXCEPT ![seq] = [tasks[seq] EXCEPT ![Len(tasks[seq])] = outcome]]
  BY <1>1 DEF SetRow
<1> DEFINE new == [tasks[seq] EXCEPT ![Len(tasks[seq])] = outcome]
<1>3. /\ new \in Seq(TaskStates)
      /\ Len(new) = Len(tasks[seq])
      /\ Live(new) = IF outcome = "failed" THEN {} ELSE {Len(tasks[seq])}
      /\ Done(new) <=> outcome = "done"
      /\ ~Done(tasks[seq])
  BY <1>1, SetLastRow
<1> HIDE DEF new
<1>4. tasks' = [tasks EXCEPT ![seq] = new]
  BY <1>2 DEF new
<1> QED
  BY <1>1, <1>3, <1>4 DEF HasDone

LEMMA HandlerDoneInductive ==
    ASSUME IInv, HandlerDone
    PROVE  IInv'
<1> USE DEF HandlerDone, jobRow, approvalTable
<1>0. /\ seq \in Seqs /\ seq \in Nat /\ ~HasDone(seq)
      /\ tasks' \in [Seqs -> Seq(TaskStates)]
      /\ \A s \in Seqs : Len(tasks'[s]) = Len(tasks[s])
      /\ \A s \in Seqs : s # seq => tasks'[s] = tasks[s]
      /\ Live(tasks'[seq]) = {Len(tasks[seq])}
      /\ Done(tasks'[seq])
  BY SetRowFacts, SizeFacts
<1>1. \A u \in Seqs : u < seq => HasDone(u)
  BY <1>0 DEF IInv, HolesAreInputs, ContextIsDone, DoneSeqs
<1>2. \A s \in Seqs : Done(tasks'[s]) <=> s = seq \/ HasDone(s)
  BY <1>0 DEF HasDone
<1>3. TypeOK'
  <2>0. seq' = seq + 1 /\ ctx' = ctx \cup {seq}
    BY Zenon
  <2>1. seq' \in Nat /\ ctx' \subseteq Seqs
    <3> HIDE DEF HandlerDone
    <3> QED
      BY <1>0, <2>0 DEF IInv, TypeOK
  <2>2. listed' \in BOOLEAN /\ final' \in {"none", "empty", "full"}
    BY DEF IInv, TypeOK
  <2> QED
    BY <1>0, <2>1, <2>2 DEF IInv, TypeOK, PCs
<1>4. RepairBudgetRespected' /\ TaskAttemptsBounded'
  BY <1>0 DEF IInv, RepairBudgetRespected, TaskAttemptsBounded
<1>5. StagesInOrder'
  BY <1>0, <1>1, <1>2, SizeFacts DEF IInv, StagesInOrder, HasDone
<1>6. OneLiveRow'
  <2>1. ASSUME NEW s \in Seqs, NEW j \in Live(tasks'[s]), NEW k \in Live(tasks'[s])
        PROVE  j = k
    <3>1. CASE s = seq
      BY <1>0, <2>1, <3>1
    <3>2. CASE s # seq
      BY <1>0, <2>1, <3>2 DEF IInv, OneLiveRow, LiveRows
    <3> QED
      BY <3>1, <3>2
  <2> QED
    BY <2>1 DEF OneLiveRow, LiveRows
<1>7. CompletedMeansAllDone' /\ ParkedHasRequest'
  BY <1>0, <1>2 DEF IInv, CompletedMeansAllDone, ParkedHasRequest, DoneSeqs, HasDone
<1>8. RegistersFit'
  BY DEF IInv, RegistersFit
<1>9. HolesAreInputs'
  <2>1. \A u \in Seqs : u < seq + 1 => Done(tasks'[u])
    BY <1>0, <1>1, <1>2, SizeFacts
  <2> QED
    BY <2>1 DEF HolesAreInputs, HasDone
<1>10. ContextIsDone'
  BY <1>0, <1>2 DEF IInv, ContextIsDone, DoneSeqs, HasDone
<1>11. AttemptsLeft'
  <2>0. pc' = "stage" /\ seq' = seq + 1 /\ pc = "handler" /\ attempts' = attempts
    BY Zenon
  <2>1. ASSUME NEW s \in Seqs, s >= seq + 1, ~Done(tasks'[s])
        PROVE  Len(tasks'[s]) + 1 < MaxTaskRetries + attempts
    <3>1. s # seq /\ s > seq /\ ~HasDone(s)
      BY <1>0, <1>2, <2>1, SizeFacts
    <3>2. Len(tasks[s]) + 1 < MaxTaskRetries + attempts
      BY <2>0, <3>1 DEF IInv, AttemptsLeft
    <3>3. tasks'[s] = tasks[s]
      BY <1>0, <3>1
    <3> QED
      BY <3>2, <3>3
  <2> HIDE DEF HandlerDone
  <2> QED
    BY <2>0, <2>1 DEF AttemptsLeft, HasDone
<1> QED
  BY <1>3, <1>4, <1>5, <1>6, <1>7, <1>8, <1>9, <1>10, <1>11 DEF IInv

LEMMA HandlerGatedInductive ==
    ASSUME IInv, HandlerGated
    PROVE  IInv'
<1> USE DEF HandlerGated, jobRow, approvalTable
<1>0. /\ seq \in Seqs /\ seq \in Nat /\ ~HasDone(seq)
      /\ tasks' \in [Seqs -> Seq(TaskStates)]
      /\ \A s \in Seqs : Len(tasks'[s]) = Len(tasks[s])
      /\ \A s \in Seqs : s # seq => tasks'[s] = tasks[s]
      /\ Live(tasks'[seq]) = {Len(tasks[seq])}
      /\ ~Done(tasks'[seq])
  BY SetRowFacts, SizeFacts
<1>1. \A s \in Seqs : Done(tasks'[s]) <=> Done(tasks[s])
  BY <1>0 DEF HasDone
<1>2. TypeOK'
  BY <1>0 DEF IInv, TypeOK, PCs
<1>3. RepairBudgetRespected' /\ TaskAttemptsBounded'
  BY <1>0 DEF IInv, RepairBudgetRespected, TaskAttemptsBounded
<1>4. StagesInOrder' /\ OneLiveRow'
  <2>1. StagesInOrder'
    BY <1>1, SizeFacts DEF IInv, StagesInOrder, HasDone
  <2>2. ASSUME NEW s \in Seqs, NEW j \in Live(tasks'[s]), NEW k \in Live(tasks'[s])
        PROVE  j = k
    <3>1. CASE s = seq
      BY <1>0, <2>2, <3>1
    <3>2. CASE s # seq
      BY <1>0, <2>2, <3>2 DEF IInv, OneLiveRow, LiveRows
    <3> QED
      BY <3>1, <3>2
  <2> QED
    BY <2>1, <2>2 DEF OneLiveRow, LiveRows
<1>5. CompletedMeansAllDone' /\ ParkedHasRequest' /\ ContextIsDone'
  BY <1>1 DEF IInv, CompletedMeansAllDone, ParkedHasRequest, ContextIsDone, DoneSeqs, HasDone
<1>6. RegistersFit' /\ HolesAreInputs'
  BY <1>0, <1>1 DEF IInv, RegistersFit, HolesAreInputs, HasDone
<1>7. AttemptsLeft'
  BY <1>0, <1>1, SizeFacts DEF IInv, AttemptsLeft, HasDone
<1> QED
  BY <1>2, <1>3, <1>4, <1>5, <1>6, <1>7 DEF IInv

LEMMA HandlerFailedInductive ==
    ASSUME IInv, HandlerFailed
    PROVE  IInv'
<1> USE DEF HandlerFailed, jobRow, approvalTable
<1>0. /\ seq \in Seqs /\ seq \in Nat /\ ~HasDone(seq)
      /\ tasks' \in [Seqs -> Seq(TaskStates)]
      /\ \A s \in Seqs : Len(tasks'[s]) = Len(tasks[s])
      /\ \A s \in Seqs : s # seq => tasks'[s] = tasks[s]
      /\ Live(tasks'[seq]) = {}
      /\ ~Done(tasks'[seq])
  BY SetRowFacts, SizeFacts
<1>1. \A s \in Seqs : Done(tasks'[s]) <=> Done(tasks[s])
  BY <1>0 DEF HasDone
<1>2. failureClass' \in Raises[seq] \cup {"crash"}
  OBVIOUS
<1>3. TypeOK'
  <2>1. failureClass' \in FailureClasses
    BY <1>0, <1>2, StageTablesAssumption DEF FailureClasses
  <2> QED
    BY <1>0, <2>1 DEF IInv, TypeOK, PCs
<1>4. RepairBudgetRespected' /\ TaskAttemptsBounded'
  BY <1>0 DEF IInv, RepairBudgetRespected, TaskAttemptsBounded
<1>5. StagesInOrder' /\ OneLiveRow'
  BY <1>0, <1>1, SizeFacts DEF IInv, StagesInOrder, OneLiveRow, HasDone, LiveRows
<1>6. CompletedMeansAllDone' /\ ParkedHasRequest' /\ ContextIsDone'
  BY <1>1 DEF IInv, CompletedMeansAllDone, ParkedHasRequest, ContextIsDone, DoneSeqs, HasDone
<1>7. RegistersFit'
  BY <1>0, <1>2 DEF IInv, RegistersFit
<1>8. HolesAreInputs'
  <2>1. CASE Needs[seq] \subseteq ctx
    <3>1. \A u \in Seqs : u < seq => HasDone(u)
      BY <1>0, <2>1 DEF IInv, HolesAreInputs, ContextIsDone, DoneSeqs
    <3> QED
      BY <1>1, <3>1 DEF HolesAreInputs, HasDone
  <2>2. CASE ~(Needs[seq] \subseteq ctx)
    <3>1. failureClass' = "crash"
      BY <2>2
    <3> QED
      BY <1>0, <1>1, <3>1 DEF IInv, HolesAreInputs, HasDone
  <2> QED
    BY <2>1, <2>2
<1>9. AttemptsLeft'
  BY <1>0, <1>1, SizeFacts DEF IInv, AttemptsLeft, HasDone
<1> QED
  BY <1>3, <1>4, <1>5, <1>6, <1>7, <1>8, <1>9 DEF IInv

\* The run ends at a gate, after an escalation, in a failure or by a crash.
LEMMA EndOfRunInductive ==
    ASSUME IInv, PauseForApproval \/ EscalateHuman \/ FailJob \/ Crash
    PROVE  IInv'
<1>0. UNCHANGED <<tasks, attempts, repair_count, result>> /\ Forget
  BY DEF PauseForApproval, EscalateHuman, FailJob, Crash, jobRow
<1>1. /\ RepairBudgetRespected' /\ TaskAttemptsBounded'
      /\ StagesInOrder' /\ OneLiveRow'
      /\ RegistersFit' /\ HolesAreInputs' /\ ContextIsDone' /\ AttemptsLeft'
  BY <1>0, RowsUntouched
<1>2. /\ approvals' \in Seq(Approval) /\ lastDecided' \in 0 .. Len(approvals')
      /\ state' = "awaiting_approval" =>
            \E i \in DOMAIN approvals' : approvals'[i].status = "requested"
      /\ state' \in JobStates /\ (state' = "completed" => state = "completed")
  <2>0. approvals \in Seq(Approval) /\ lastDecided \in 0 .. Len(approvals) /\ state \in JobStates
    BY DEF IInv, TypeOK
  <2>1. CASE UNCHANGED <<approvals, lastDecided>> /\ (Crash \/ FailJob)
    BY <2>0, <2>1 DEF Crash, FailJob, jobRow, IInv, ParkedHasRequest, JobStates
  <2>2. CASE PauseForApproval \/ EscalateHuman
    <3>1. PICK kind \in {"gate", "failure_escalation"} :
            approvals' = Append(approvals, [kind |-> kind, status |-> "requested"])
      BY <2>2 DEF PauseForApproval, EscalateHuman
    <3>2. [kind |-> kind, status |-> "requested"] \in Approval
      BY DEF Approval
    <3>3. /\ approvals' \in Seq(Approval) /\ Len(approvals') = Len(approvals) + 1
          /\ DOMAIN approvals' = 1 .. (Len(approvals) + 1)
          /\ approvals'[Len(approvals) + 1].status = "requested"
      BY <2>0, <3>1, <3>2
    <3>4. lastDecided' = lastDecided /\ state' = "awaiting_approval"
      BY <2>2 DEF PauseForApproval, EscalateHuman
    <3>5. Len(approvals) \in Nat
      BY <2>0
    <3> QED
      BY <2>0, <3>3, <3>4, <3>5 DEF JobStates
  <2> QED
    BY <2>1, <2>2 DEF Crash, FailJob, approvalTable
<1>3. TypeOK'
  BY <1>0, <1>2 DEF IInv, TypeOK, Forget, PCs
<1>4. CompletedMeansAllDone' /\ ParkedHasRequest'
  BY <1>0, <1>2 DEF IInv, CompletedMeansAllDone, ParkedHasRequest, DoneSeqs, HasDone
<1> QED
  BY <1>1, <1>3, <1>4 DEF IInv

\* Nothing is left to do: every stage is before the end of the plan.
LEMMA CompleteInductive ==
    ASSUME IInv, Complete
    PROVE  IInv'
<1> USE DEF Complete
<1>1. /\ RepairBudgetRespected' /\ TaskAttemptsBounded'
      /\ StagesInOrder' /\ OneLiveRow'
      /\ RegistersFit' /\ HolesAreInputs' /\ ContextIsDone' /\ AttemptsLeft'
  BY RowsUntouched
<1>2. seq \in Nat
  BY DEF IInv, TypeOK
<1>3. \A u \in Seqs : HasDone(u)
  BY <1>2, SizeFacts DEF IInv, HolesAreInputs
<1>4. TypeOK'
  BY DEF IInv, TypeOK, Forget, PCs, JobStates, approvalTable
<1>5. CompletedMeansAllDone' /\ ParkedHasRequest'
  BY <1>3 DEF CompletedMeansAllDone, ParkedHasRequest, DoneSeqs, HasDone
<1> QED
  BY <1>1, <1>4, <1>5 DEF IInv

\* _attempt_repair chooses: the rows stay as they are until the restart.
LEMMA RetryStageInductive ==
    ASSUME IInv, RetryStage
    PROVE  IInv'
<1> USE DEF RetryStage, jobRow, approvalTable
<1>0. /\ tasks \in [Seqs -> Seq(TaskStates)] /\ attempts \in Nat /\ attempts > 0
      /\ seq \in Seqs /\ seq \in Nat
  BY SizeFacts DEF IInv, TypeOK, RegistersFit
<1>1. TypeOK'
  BY DEF IInv, TypeOK, PCs
<1>2. RepairBudgetRespected' /\ TaskAttemptsBounded'
  BY DEF IInv, RepairBudgetRespected, TaskAttemptsBounded
<1>3. StagesInOrder' /\ OneLiveRow' /\ CompletedMeansAllDone' /\ ParkedHasRequest'
  BY DEF IInv, StagesInOrder, OneLiveRow, CompletedMeansAllDone, ParkedHasRequest,
         DoneSeqs, HasDone, LiveRows
<1>4. RegistersFit' /\ HolesAreInputs' /\ ContextIsDone'
  BY DEF IInv, RegistersFit, HolesAreInputs, ContextIsDone, DoneSeqs, HasDone
<1>5. AttemptsLeft'
  <2>1. Len(tasks[seq]) \in Nat /\ Len(tasks[seq]) < MaxTaskRetries
    BY <1>0 DEF StageRetryable
  <2>2. Len(tasks[seq]) + 1 < MaxTaskRetries + attempts
    BY <1>0, <2>1, SizeFacts
  <2> QED
    BY <1>0, <2>2, SizeFacts DEF IInv, AttemptsLeft, HasDone
<1> QED
  BY <1>1, <1>2, <1>3, <1>4, <1>5 DEF IInv

LEMMA PlanPipelineRepairInductive ==
    ASSUME IInv, PlanPipelineRepair
    PROVE  IInv'
<1> USE DEF PlanPipelineRepair, approvalTable
<1>1. TypeOK'
  BY DEF IInv, TypeOK, PCs
<1>2. RepairBudgetRespected' /\ TaskAttemptsBounded'
  BY SizeFacts DEF IInv, TypeOK, RepairBudgetRespected, TaskAttemptsBounded
<1>3. StagesInOrder' /\ OneLiveRow' /\ CompletedMeansAllDone' /\ ParkedHasRequest'
  BY DEF IInv, StagesInOrder, OneLiveRow, CompletedMeansAllDone, ParkedHasRequest,
         DoneSeqs, HasDone, LiveRows
<1>4. RegistersFit' /\ HolesAreInputs' /\ ContextIsDone'
  BY DEF IInv, RegistersFit, HolesAreInputs, ContextIsDone, DoneSeqs, HasDone
<1>5. AttemptsLeft'
  BY DEF IInv, AttemptsLeft, HasDone
<1> QED
  BY <1>1, <1>2, <1>3, <1>4, <1>5 DEF IInv

\* The restart: backwards every earlier stage is done already, and forwards the
\* stages passed over are inputs of the target (JumpAssumption).
LEMMA ApplyPipelineRepairInductive ==
    ASSUME IInv, ApplyPipelineRepair
    PROVE  IInv'
<1> DEFINE r == RepairStrategyFor(failureClass)
<1> USE DEF ApplyPipelineRepair, jobRow, approvalTable
<1>0. /\ tasks \in [Seqs -> Seq(TaskStates)] /\ attempts \in Nat /\ attempts > 0
      /\ seq \in Seqs /\ seq \in Nat
      /\ failureClass \in Raises[seq] \cup {"crash"}
  BY SizeFacts DEF IInv, TypeOK, RegistersFit
<1>1. failureClass \in FailureClasses /\ r \in Nat
  BY <1>0, StageTablesAssumption, SizeFacts DEF FailureClasses
<1>2. \A s \in Seqs : /\ tasks'[s] \in Seq(TaskStates)
                      /\ Done(tasks'[s]) <=> HasDone(s)
                      /\ s < r => tasks'[s] = tasks[s]
                      /\ s >= r => tasks'[s] = Purged(s)
  BY <1>0, <1>1, PurgedRows, SizeFacts DEF HasDone
<1>3. TypeOK'
  BY <1>0, <1>1, <1>2 DEF IInv, TypeOK, PCs
<1>4. TaskAttemptsBounded' /\ RepairBudgetRespected'
  <2>1. ASSUME NEW s \in Seqs
        PROVE  Len(tasks'[s]) < MaxTaskRetries + attempts
    <3>1. CASE s < r
      BY <1>2, <3>1 DEF IInv, TaskAttemptsBounded
    <3>2. CASE s >= r
      <4>1. CASE HasDone(s)
        <5>1. Len(tasks'[s]) = 1
          BY <1>2, <3>2, <4>1, PurgedRows
        <5>2. 1 < MaxTaskRetries + attempts
          BY <1>0, SizeFacts
        <5> QED
          BY <5>1, <5>2
      <4>2. CASE ~HasDone(s)
        <5>1. Len(tasks'[s]) = 0
          BY <1>2, <3>2, <4>2, PurgedRows
        <5> QED
          BY <1>0, <5>1, SizeFacts
      <4> QED
        BY <4>1, <4>2
    <3> QED
      BY <1>1, <3>1, <3>2, SizeFacts
  <2> QED
    BY <2>1 DEF IInv, TaskAttemptsBounded, RepairBudgetRespected
<1>5. StagesInOrder'
  BY <1>2, SizeFacts DEF IInv, StagesInOrder, HasDone
<1>6. OneLiveRow'
  <2>1. ASSUME NEW s \in Seqs, NEW j \in Live(tasks'[s]), NEW k \in Live(tasks'[s])
        PROVE  j = k
    <3>1. CASE s < r
      BY <1>2, <2>1, <3>1 DEF IInv, OneLiveRow, LiveRows
    <3>2. CASE s >= r
      BY <1>2, <2>1, <3>2, PurgedRows
    <3> QED
      BY <1>1, <3>1, <3>2, SizeFacts
  <2> QED
    BY <2>1 DEF OneLiveRow, LiveRows
<1>7. CompletedMeansAllDone' /\ ParkedHasRequest' /\ ContextIsDone'
  BY <1>2 DEF IInv, CompletedMeansAllDone, ParkedHasRequest, ContextIsDone, DoneSeqs, HasDone
<1>8. RegistersFit'
  BY <1>0 DEF RegistersFit
<1>9. HolesAreInputs'
  <2>1. ASSUME NEW u \in Seqs, u < r
        PROVE  HasDone(u) \/ (r \in Seqs /\ u \in Needs[r])
    <3>1. failureClass # "crash"
      BY <2>1, SizeFacts
    <3>2. \A v \in Seqs : v < seq => HasDone(v)
      BY <3>1 DEF IInv, HolesAreInputs
    <3>3. r <= seq \/ (r \in Seqs /\ seq .. (r - 1) \subseteq Needs[r])
      BY <1>0, <3>1, JumpAssumption
    <3>4. CASE u < seq
      BY <2>1, <3>2, <3>4
    <3>5. CASE u >= seq
      <4>1. u \in seq .. (r - 1) /\ ~(r <= seq)
        <5> HIDE DEF ApplyPipelineRepair, r
        <5> QED
          BY <1>0, <1>1, <2>1, <3>5, SizeFacts
      <4> QED
        BY <3>3, <4>1
    <3> QED
      BY <1>0, <3>4, <3>5, SizeFacts
  <2> QED
    BY <1>2, <2>1 DEF HolesAreInputs, HasDone
<1>10. AttemptsLeft'
  <2>1. ASSUME NEW s \in Seqs, s >= r, ~HasDone(s)
        PROVE  Len(tasks'[s]) + 1 < MaxTaskRetries + attempts
    <3>1. Len(tasks'[s]) = 0
      BY <1>2, <2>1, PurgedRows
    <3> QED
      BY <1>0, <3>1, SizeFacts
  <2> QED
    BY <1>2, <2>1 DEF AttemptsLeft, HasDone
<1> QED
  BY <1>3, <1>4, <1>5, <1>6, <1>7, <1>8, <1>9, <1>10 DEF IInv

\* The API handlers write the job row and the approvals only.
LEMMA ApiInductive ==
    ASSUME IInv,
           \/ CancelJob
           \/ \E i \in DOMAIN approvals, d \in {"approved", "rejected"} : DecideApproval(i, d)
           \/ Requeue
    PROVE  IInv'
<1>0. /\ UNCHANGED <<tasks, attempts, repair_count, result>> /\ UNCHANGED executor
      /\ state' \in JobStates /\ state' # "awaiting_approval"
      /\ state' = "completed" => state = "completed"
  <2>0. state \in JobStates
    BY DEF IInv, TypeOK
  <2>1. CASE CancelJob \/ Requeue
    BY <2>0, <2>1 DEF CancelJob, Requeue, JobStates
  <2>2. CASE \E i \in DOMAIN approvals, d \in {"approved", "rejected"} : DecideApproval(i, d)
    BY <2>0, <2>2 DEF DecideApproval, JobStates
  <2> QED
    BY <2>1, <2>2
<1>1. approvals' \in Seq(Approval) /\ lastDecided' \in 0 .. Len(approvals')
  <2>0. approvals \in Seq(Approval) /\ lastDecided \in 0 .. Len(approvals)
    BY DEF IInv, TypeOK
  <2>1. CASE CancelJob \/ Requeue
    BY <2>0, <2>1 DEF CancelJob, Requeue, approvalTable
  <2>2. CASE \E i \in DOMAIN approvals, d \in {"approved", "rejected"} : DecideApproval(i, d)
    <3>1. PICK i \in DOMAIN approvals, d \in {"approved", "rejected"} : DecideApproval(i, d)
      BY <2>2
    <3>2. i \in 1 .. Len(approvals) /\ approvals[i] \in Approval
      BY <2>0, <3>1
    <3>3. [approvals[i] EXCEPT !.status = d] \in Approval
      BY <3>1, <3>2 DEF Approval
    <3>4. approvals' = [approvals EXCEPT ![i] = [approvals[i] EXCEPT !.status = d]]
          /\ lastDecided' = i
      BY <3>1 DEF DecideApproval
    <3> QED
      BY <2>0, <3>2, <3>3, <3>4, ExceptSeq
  <2> QED
    BY <2>1, <2>2
<1>2. /\ RepairBudgetRespected' /\ TaskAttemptsBounded'
      /\ StagesInOrder' /\ OneLiveRow'
      /\ RegistersFit' /\ HolesAreInputs' /\ ContextIsDone' /\ AttemptsLeft'
  BY <1>0, RowsUntouched
<1>3. TypeOK'
  BY <1>0, <1>1 DEF IInv, TypeOK, executor
<1>4. CompletedMeansAllDone' /\ ParkedHasRequest'
  BY <1>0 DEF IInv, CompletedMeansAllDone, ParkedHasRequest, DoneSeqs, HasDone
<1> QED
  BY <1>2, <1>3, <1>4 DEF IInv

LEMMA InductiveStep == IInv /\ [Next]_vars => IInv'
<1> SUFFICES ASSUME IInv, [Next]_vars PROVE IInv'
  OBVIOUS
<1>1. CASE Claim
  BY <1>1, ClaimInductive
<1>2. CASE SkipDone
  BY <1>2, SkipDoneInductive
<1>3. CASE FindGated
  BY <1>3, FindGatedInductive
<1>4. CASE StartStage
  BY <1>4, StartStageInductive
<1>5. CASE HandlerDone
  BY <1>5, HandlerDoneInductive
<1>6. CASE HandlerGated
  BY <1>6, HandlerGatedInductive
<1>7. CASE HandlerFailed
  BY <1>7, HandlerFailedInductive
<1>8. CASE PauseForApproval \/ EscalateHuman \/ FailJob \/ Crash
  BY <1>8, EndOfRunInductive
<1>9. CASE Complete
  BY <1>9, CompleteInductive
<1>10. CASE RetryStage
  BY <1>10, RetryStageInductive
<1>11. CASE PlanPipelineRepair
  BY <1>11, PlanPipelineRepairInductive
<1>12. CASE ApplyPipelineRepair
  BY <1>12, ApplyPipelineRepairInductive
<1>13. CASE \/ CancelJob
            \/ \E i \in DOMAIN approvals, d \in {"approved", "rejected"} : DecideApproval(i, d)
            \/ Requeue
  BY <1>13, ApiInductive
<1>14. CASE UNCHANGED vars
  <2>1. UNCHANGED <<state, attempts, repair_count, result, tasks, approvals, lastDecided>>
        /\ UNCHANGED executor
    BY <1>14 DEF vars, jobRow, approvalTable
  <2>2. /\ RepairBudgetRespected' /\ TaskAttemptsBounded'
        /\ StagesInOrder' /\ OneLiveRow'
        /\ RegistersFit' /\ HolesAreInputs' /\ ContextIsDone' /\ AttemptsLeft'
    BY <2>1, RowsUntouched
  <2>3. TypeOK' /\ CompletedMeansAllDone' /\ ParkedHasRequest'
    BY <2>1 DEF IInv, TypeOK, executor, CompletedMeansAllDone, ParkedHasRequest,
                DoneSeqs, HasDone
  <2> QED
    BY <2>2, <2>3 DEF IInv
<1> QED
  BY <1>1, <1>2, <1>3, <1>4, <1>5, <1>6, <1>7, <1>8, <1>9, <1>10, <1>11, <1>12, <1>13,
     <1>14 DEF Next, Execute

LEMMA Inductive == Spec => []IInv
<1>1. Init => IInv
  BY InductiveInit
<1>2. IInv /\ [Next]_vars => IInv'
  BY InductiveStep
<1> QED
  BY <1>1, <1>2, PTL DEF Spec

-----------------------------------------------------------------------------
(* Safety, for every instance                                              *)

\* The rows and registers keep the types TypeOK gives them.
THEOREM TypeCorrect == Spec => []TypeOK
<1>1. IInv => TypeOK
  BY DEF IInv
<1> QED
  BY <1>1, Inductive, PTL

\* A job is never repaired more often than the budget of _attempt_repair allows.
THEOREM RepairBudgetHolds == Spec => []RepairBudgetRespected
<1>1. IInv => RepairBudgetRespected
  BY DEF IInv
<1> QED
  BY <1>1, Inductive, PTL

\* A stage never has as many rows as the retry limit plus the claims of the job.
THEOREM TaskAttemptsAreBounded == Spec => []TaskAttemptsBounded
<1>1. IInv => TaskAttemptsBounded
  BY DEF IInv
<1> QED
  BY <1>1, Inductive, PTL

\* The done stages are always a prefix of the plan, although the qa_sync repair
\* jumps over av_mux.
THEOREM StagesFinishInOrder == Spec => []StagesInOrder
<1>1. IInv => StagesInOrder
  BY DEF IInv
<1> QED
  BY <1>1, Inductive, PTL

\* With a single executor _run_single_task never finds two live rows of a stage.
THEOREM LiveRowIsUnique == Spec => []OneLiveRow
<1>1. IInv => OneLiveRow
  BY DEF IInv
<1> QED
  BY <1>1, Inductive, PTL

\* A completed job has finished every stage of its plan.
THEOREM CompletionIsComplete == Spec => []CompletedMeansAllDone
<1>1. IInv => CompletedMeansAllDone
  BY DEF IInv
<1> QED
  BY <1>1, Inductive, PTL

\* A job parked for approval always has an approval left to decide.
THEOREM ParkedJobsCanBeDecided == Spec => []ParkedHasRequest
<1>1. IInv => ParkedHasRequest
  BY DEF IInv
<1> QED
  BY <1>1, Inductive, PTL

-----------------------------------------------------------------------------
(* Progress is in order and is never lost                                  *)

\* Only a handler that returns changes which stages are done, and it adds the
\* next one.
LEMMA DoneStep ==
    ASSUME IInv, [Next]_vars
    PROVE  \/ DoneSeqs' = DoneSeqs
           \/ /\ seq \in Seqs /\ seq \notin DoneSeqs
              /\ 0 .. (seq - 1) \subseteq DoneSeqs
              /\ DoneSeqs' = DoneSeqs \cup {seq}
              /\ state' = state
<1>0. tasks \in [Seqs -> Seq(TaskStates)]
  BY DEF IInv, TypeOK
<1>1. CASE Claim
  <2>1. \A s \in Seqs : Done(tasks'[s]) <=> Done(tasks[s])
    BY <1>0, <1>1, ResumedRows DEF Claim
  <2> QED
    BY <2>1 DEF DoneSeqs, HasDone
<1>2. CASE StartStage
  <2>1. \A s \in Seqs : Done(tasks'[s]) <=> Done(tasks[s])
    <3>1. seq \in Seqs /\ tasks' = [tasks EXCEPT ![seq] = Append(tasks[seq], "running")]
      BY <1>2 DEF StartStage
    <3> QED
      BY <1>0, <3>1, AppendRunning
  <2> QED
    BY <2>1 DEF DoneSeqs, HasDone
<1>3. CASE HandlerGated \/ HandlerFailed
  <2>1. PICK outcome \in {"awaiting_approval", "failed"} :
          pc = "handler" /\ tasks' = SetRow(outcome)
    BY <1>3 DEF HandlerGated, HandlerFailed
  <2>2. \A s \in Seqs : Done(tasks'[s]) <=> Done(tasks[s])
    BY <2>1, SetRowFacts DEF HasDone
  <2> QED
    BY <2>2 DEF DoneSeqs, HasDone
<1>4. CASE HandlerDone
  <2>1. pc = "handler" /\ tasks' = SetRow("done") /\ Needs[seq] \subseteq ctx
    BY <1>4 DEF HandlerDone
  <2>2. state' = state
    BY <1>4 DEF HandlerDone, jobRow
  <2>3. /\ seq \in Seqs /\ ~HasDone(seq)
        /\ \A s \in Seqs : Done(tasks'[s]) <=> s = seq \/ HasDone(s)
    BY <2>1, SetRowFacts DEF HasDone
  <2>4. \A u \in Seqs : u < seq => HasDone(u)
    BY <2>1, <2>3 DEF IInv, HolesAreInputs, ContextIsDone, DoneSeqs
  <2>5. 0 .. (seq - 1) \subseteq DoneSeqs
    BY <2>3, <2>4, SizeFacts DEF DoneSeqs
  <2> QED
    BY <2>2, <2>3, <2>5 DEF DoneSeqs, HasDone
<1>5. CASE ApplyPipelineRepair
  <2>1. \A s \in Seqs : Done(tasks'[s]) <=> Done(tasks[s])
    BY <1>0, <1>5, PurgedRows DEF ApplyPipelineRepair, HasDone
  <2> QED
    BY <2>1 DEF DoneSeqs, HasDone
<1>6. CASE UNCHANGED tasks
  BY <1>6 DEF DoneSeqs, HasDone
<1>7. CASE \/ SkipDone \/ FindGated \/ PauseForApproval \/ Complete \/ RetryStage
           \/ PlanPipelineRepair \/ EscalateHuman \/ FailJob \/ Crash \/ CancelJob
           \/ \E i \in DOMAIN approvals, d \in {"approved", "rejected"} : DecideApproval(i, d)
           \/ Requeue \/ UNCHANGED vars
  BY <1>6, <1>7 DEF SkipDone, FindGated, PauseForApproval, Complete, RetryStage,
     PlanPipelineRepair, EscalateHuman, FailJob, Crash, CancelJob, DecideApproval,
     Requeue, vars
<1> QED
  BY <1>1, <1>2, <1>3, <1>4, <1>5, <1>7 DEF Next, Execute

\* No step of the system undoes a finished stage.
THEOREM ProgressIsKept == Spec => ProgressKept
<1>1. IInv /\ [Next]_vars => [\A s \in Seqs : HasDone(s) => HasDone(s)']_vars
  <2> SUFFICES ASSUME IInv, [Next]_vars, NEW s \in Seqs, HasDone(s)
               PROVE  HasDone(s)'
    OBVIOUS
  <2>1. DoneSeqs \subseteq DoneSeqs'
    BY DoneStep
  <2> QED
    BY <2>1 DEF DoneSeqs
<1> QED
  BY <1>1, Inductive, PTL DEF Spec, ProgressKept

\* The engine implements StageProgress: with retries, repairs, approvals, crashes
\* and cancellations it still finishes the stages one by one, in order, for good.
THEOREM PipelineImplementsProgress == Spec => ImplementsProgress
<1> USE DEF Progress!Seqs, Seqs
<1>1. Init => Progress!Init
  <2> SUFFICES ASSUME Init PROVE DoneSeqs = {} /\ state # "completed"
    BY DEF Progress!Init
  <2> QED
    BY DEF Init, DoneSeqs, HasDone, Done
<1>2. IInv /\ IInv' /\ [Next]_vars => [Progress!Next]_<<DoneSeqs, state = "completed">>
  <2> SUFFICES ASSUME IInv, IInv', [Next]_vars
               PROVE  [Progress!Next]_<<DoneSeqs, state = "completed">>
    OBVIOUS
  <2>1. CASE DoneSeqs' = DoneSeqs
    <3>1. CASE (state = "completed") <=> (state' = "completed")
      BY <2>1, <3>1
    <3>2. CASE state = "completed" /\ state' # "completed"
      BY <2>1, <3>2 DEF Progress!Next, Progress!Reopen
    <3>3. CASE state # "completed" /\ state' = "completed"
      <4>1. DoneSeqs = Seqs
        BY <2>1, <3>3 DEF IInv, CompletedMeansAllDone
      <4> QED
        BY <2>1, <3>3, <4>1 DEF Progress!Next, Progress!Complete
    <3> QED
      BY <3>1, <3>2, <3>3
  <2>2. CASE /\ seq \in Seqs /\ seq \notin DoneSeqs
             /\ 0 .. (seq - 1) \subseteq DoneSeqs
             /\ DoneSeqs' = DoneSeqs \cup {seq}
             /\ state' = state
    <3>1. Progress!Finish(seq)
      BY <2>2 DEF Progress!Finish
    <3> QED
      BY <2>2, <3>1 DEF Progress!Next
  <2> QED
    BY <2>1, <2>2, DoneStep
<1> QED
  BY <1>1, <1>2, Inductive, PTL DEF Spec, ImplementsProgress, Progress!Spec

-----------------------------------------------------------------------------
(* An execution ends                                                       *)

Ranks == Nat \X Nat \X Nat \X Nat

Below(p, q) ==
    \/ p[1] < q[1]
    \/ p[1] = q[1] /\ p[2] < q[2]
    \/ p[1] = q[1] /\ p[2] = q[2] /\ p[3] < q[3]
    \/ p[1] = q[1] /\ p[2] = q[2] /\ p[3] = q[3] /\ p[4] < q[4]

\* The repairs, stages, attempts of the stage and steps of the attempt still ahead.
Rank ==
    <<RepairBudget - repair_count,
      IF pc = "resetting" THEN NStages + 1 ELSE IF seq \in Seqs THEN NStages - seq ELSE 0,
      IF seq \in Seqs THEN (MaxTaskRetries + attempts) - Len(tasks[seq]) ELSE 0,
      CASE pc = "handler" -> 3 [] pc = "failed" -> 2 [] pc = "stage" -> 1 [] OTHER -> 0>>

LEMMA LeastNumber ==
    ASSUME NEW T, T \subseteq Nat, T # {}
    PROVE  \E x \in T : \A y \in T : x <= y
<1>1. PICK x \in T : \A y \in T : <<y, x>> \notin OpToRel(<, Nat)
  BY WFMin, NatLessThanWellFounded
<1>2. \A y \in T : ~ (y < x)
  BY <1>1 DEF OpToRel
<1> QED
  BY <1>2

\* No ranks go down for ever.
LEMMA RanksAreWellFounded ==
    IsWellFoundedOn({d \in Ranks \X Ranks : Below(d[1], d[2])}, Ranks)
<1> DEFINE R == {d \in Ranks \X Ranks : Below(d[1], d[2])}
<1>1. ASSUME NEW T \in SUBSET Ranks, T # {}
      PROVE  \E x \in T : \A y \in T : ~ (<<y, x>> \in R)
  <2>1. \A p \in T : p[1] \in Nat /\ p[2] \in Nat /\ p[3] \in Nat /\ p[4] \in Nat
    BY DEF Ranks
  <2>2. PICK a \in T : \A y \in T : a[1] <= y[1]
    <3> DEFINE N == {p[1] : p \in T}
    <3>1. PICK n \in N : \A m \in N : n <= m
      <4>1. N \subseteq Nat /\ N # {}
        BY <1>1, <2>1
      <4> HIDE DEF N
      <4> QED
        BY <4>1, LeastNumber
    <3> QED
      BY <3>1
  <2>3. PICK b \in T : b[1] = a[1] /\ \A y \in T : y[1] = a[1] => b[2] <= y[2]
    <3> DEFINE U == {p \in T : p[1] = a[1]}
               N == {p[2] : p \in U}
    <3>1. PICK n \in N : \A m \in N : n <= m
      <4>1. N \subseteq Nat /\ N # {}
        BY <2>1
      <4> HIDE DEF N
      <4> QED
        BY <4>1, LeastNumber
    <3> QED
      BY <3>1
  <2>4. PICK c \in T : /\ c[1] = a[1] /\ c[2] = b[2]
                       /\ \A y \in T : y[1] = a[1] /\ y[2] = b[2] => c[3] <= y[3]
    <3> DEFINE U == {p \in T : p[1] = a[1] /\ p[2] = b[2]}
               N == {p[3] : p \in U}
    <3>1. PICK n \in N : \A m \in N : n <= m
      <4>1. N \subseteq Nat /\ N # {}
        BY <2>1, <2>3
      <4> HIDE DEF N
      <4> QED
        BY <4>1, LeastNumber
    <3> QED
      BY <3>1
  <2>5. PICK d \in T : /\ d[1] = a[1] /\ d[2] = b[2] /\ d[3] = c[3]
                       /\ \A y \in T : y[1] = a[1] /\ y[2] = b[2] /\ y[3] = c[3] => d[4] <= y[4]
    <3> DEFINE U == {p \in T : p[1] = a[1] /\ p[2] = b[2] /\ p[3] = c[3]}
               N == {p[4] : p \in U}
    <3>1. PICK n \in N : \A m \in N : n <= m
      <4>1. N \subseteq Nat /\ N # {}
        BY <2>1, <2>4
      <4> HIDE DEF N
      <4> QED
        BY <4>1, LeastNumber
    <3> QED
      BY <3>1
  <2>6. ASSUME NEW y \in T PROVE ~ Below(y, d)
    BY <2>1, <2>2, <2>3, <2>4, <2>5 DEF Below
  <2>7. \A y \in T : ~ (<<y, d>> \in R)
    BY <2>6
  <2> QED
    BY <2>7
<1> HIDE DEF R
<1>2. IsWellFoundedOn(R, Ranks)
  BY <1>1, MinWF
<1> QED
  BY <1>2 DEF R

LEMMA RankIsNatural == ASSUME IInv PROVE Rank \in Ranks
<1>1. /\ repair_count \in Nat /\ repair_count <= RepairBudget /\ attempts \in Nat /\ seq \in Nat
      /\ tasks \in [Seqs -> Seq(TaskStates)]
      /\ \A s \in Seqs : Len(tasks[s]) < MaxTaskRetries + attempts
  BY DEF IInv, TypeOK, RepairBudgetRespected, TaskAttemptsBounded
<1>2. RepairBudget - repair_count \in Nat
  BY <1>1, SizeFacts
<1>3. seq \in Seqs => NStages - seq \in Nat
  BY <1>1, SizeFacts DEF Seqs
<1>4. seq \in Seqs => (MaxTaskRetries + attempts) - Len(tasks[seq]) \in Nat
  <2> SUFFICES ASSUME seq \in Seqs PROVE (MaxTaskRetries + attempts) - Len(tasks[seq]) \in Nat
    OBVIOUS
  <2>1. Len(tasks[seq]) \in Nat /\ Len(tasks[seq]) < MaxTaskRetries + attempts
    BY <1>1
  <2> QED
    BY <1>1, <2>1, SizeFacts
<1>5. NStages + 1 \in Nat
  BY SizeFacts
<1> QED
  BY <1>2, <1>3, <1>4, <1>5 DEF Rank, Ranks

\* Whatever the executor does next lowers the rank or ends the execution.
LEMMA ExecutionShrinks ==
    ASSUME IInv, IInv', Execute
    PROVE  pc' = "idle" \/ Below(Rank', Rank)
<1>1. /\ repair_count \in Nat /\ repair_count <= RepairBudget /\ attempts \in Nat /\ seq \in Nat
      /\ tasks \in [Seqs -> Seq(TaskStates)] /\ repair_count' \in Nat /\ seq' \in Nat
      /\ RepairBudget \in Nat /\ NStages \in Nat /\ Seqs = 0 .. NStages - 1
  BY SizeFacts DEF IInv, TypeOK, RepairBudgetRespected, Seqs
<1> DEFINE b == IF pc = "resetting" THEN NStages + 1 ELSE IF seq \in Seqs THEN NStages - seq ELSE 0
           c == IF seq \in Seqs THEN (MaxTaskRetries + attempts) - Len(tasks[seq]) ELSE 0
           d == CASE pc = "handler" -> 3 [] pc = "failed" -> 2 [] pc = "stage" -> 1 [] OTHER -> 0
<1>2. /\ Rank[1] = RepairBudget - repair_count /\ Rank[2] = b /\ Rank[3] = c /\ Rank[4] = d
      /\ Rank'[1] = RepairBudget - repair_count' /\ Rank'[2] = b' /\ Rank'[3] = c' /\ Rank'[4] = d'
  BY DEF Rank
<1>3. CASE SkipDone \/ HandlerDone
  <2>1. seq \in Seqs /\ pc # "resetting"
    BY <1>3 DEF SkipDone, HandlerDone, IInv, RegistersFit
  <2>2. seq' = seq + 1 /\ pc' = "stage" /\ repair_count' = repair_count
    BY <1>3 DEF SkipDone, HandlerDone, jobRow
  <2>3. b' < b
    BY <1>1, <2>1, <2>2
  <2> HIDE DEF b
  <2> QED
    BY <1>2, <2>2, <2>3 DEF Below
<1>4. CASE FindGated \/ HandlerGated \/ HandlerFailed \/ RetryStage
  <2>1. /\ seq \in Seqs /\ seq' = seq /\ repair_count' = repair_count /\ attempts' = attempts
        /\ pc # "resetting" /\ pc' # "resetting"
    BY <1>4 DEF FindGated, HandlerGated, HandlerFailed, RetryStage, IInv, RegistersFit, jobRow
  <2>2. Len(tasks'[seq]) = Len(tasks[seq])
    <3>1. \/ tasks' = tasks
          \/ /\ pc = "handler"
             /\ \E s : tasks' = SetRow(s)
      BY <1>4 DEF FindGated, HandlerGated, HandlerFailed, RetryStage
    <3>2. ASSUME NEW s, tasks' = SetRow(s) PROVE Len(tasks'[seq]) = Len(tasks[seq])
      <4>1. tasks'[seq] = [tasks[seq] EXCEPT ![Len(tasks[seq])] = s]
        BY <1>1, <2>1, <3>2 DEF SetRow
      <4>2. PICK rows \in Seq(TaskStates) : rows = tasks[seq]
        BY <1>1, <2>1
      <4>3. Len([rows EXCEPT ![Len(rows)] = s]) = Len(rows)
        OBVIOUS
      <4> QED
        BY <4>1, <4>2, <4>3
    <3> QED
      BY <3>1, <3>2
  <2>3. b' = b /\ c' = c
    BY <2>1, <2>2
  <2>4. d' < d
    BY <1>4 DEF FindGated, HandlerGated, HandlerFailed, RetryStage
  <2> HIDE DEF b, c, d
  <2> QED
    BY <1>2, <2>1, <2>3, <2>4 DEF Below
<1>5. CASE StartStage
  <2>1. /\ seq \in Seqs /\ seq' = seq /\ repair_count' = repair_count /\ attempts' = attempts
        /\ pc = "stage" /\ pc' = "handler"
        /\ tasks' = [tasks EXCEPT ![seq] = Append(@, "running")]
    BY <1>5 DEF StartStage, jobRow
  <2>2. Len(tasks[seq]) \in Nat /\ Len(tasks'[seq]) = Len(tasks[seq]) + 1
    <3>1. PICK rows \in Seq(TaskStates) : rows = tasks[seq]
      BY <1>1, <2>1
    <3>2. tasks'[seq] = Append(rows, "running")
      BY <1>1, <2>1, <3>1
    <3> QED
      BY <3>1, <3>2, AppendRunning
  <2>3. b' = b /\ c' < c
    BY <1>1, <2>1, <2>2, SizeFacts
  <2> HIDE DEF b, c, d
  <2> QED
    BY <1>2, <2>1, <2>3 DEF Below
<1>6. CASE PlanPipelineRepair
  <2>1. repair_count' = repair_count + 1 /\ repair_count < RepairBudget
    BY <1>6 DEF PlanPipelineRepair
  <2>2. RepairBudget - repair_count' < RepairBudget - repair_count
    BY <1>1, <2>1
  <2> HIDE DEF b, c, d
  <2> QED
    BY <1>2, <2>2 DEF Below
<1>7. CASE ApplyPipelineRepair
  <2>1. pc = "resetting" /\ pc' = "stage" /\ repair_count' = repair_count
    BY <1>7 DEF ApplyPipelineRepair, jobRow
  <2>2. b = NStages + 1 /\ b' = (IF seq' \in Seqs THEN NStages - seq' ELSE 0)
    BY <2>1
  <2>3. \A n \in Nat : (IF n \in Seqs THEN NStages - n ELSE 0) < NStages + 1
    BY <1>1
  <2>4. (IF seq' \in Seqs THEN NStages - seq' ELSE 0) < NStages + 1
    BY ONLY <1>1, <2>3
  <2> HIDE DEF b, c, d
  <2> QED
    BY <1>2, <2>1, <2>2, <2>4 DEF Below
<1>8. CASE PauseForApproval \/ Complete \/ EscalateHuman
  BY <1>8 DEF PauseForApproval, Complete, EscalateHuman, Forget
<1> QED
  BY <1>3, <1>4, <1>5, <1>6, <1>7, <1>8 DEF Execute

\* A step of somebody else leaves the execution where it is or ends it.
LEMMA ExecutionUndisturbed ==
    ASSUME IInv, IInv', [Next]_vars, pc # "idle", ~Execute
    PROVE  pc' = "idle" \/ Rank' = Rank
<1>1. CASE FailJob \/ Crash
  BY <1>1 DEF FailJob, Crash, Forget
<1>2. CASE CancelJob \/ \E i \in DOMAIN approvals, d \in {"approved", "rejected"} : DecideApproval(i, d)
  BY <1>2 DEF CancelJob, DecideApproval, executor, Rank
<1>3. CASE UNCHANGED vars
  BY <1>3 DEF vars, jobRow, executor, Rank
<1>4. ~Claim /\ ~Requeue
  BY DEF Claim, Requeue
<1> QED
  BY <1>1, <1>2, <1>3, <1>4 DEF Next

\* The safe part of EveryClaimEnds: every step of execute_job and _attempt_repair ends
\* the execution or lowers its rank, which nothing else raises and which cannot go down
\* for ever, so no chain of retries, repairs and forward jumps goes on endlessly.
THEOREM ExecutionsEnd ==
    /\ IsWellFoundedOn({d \in Ranks \X Ranks : Below(d[1], d[2])}, Ranks)
    /\ Spec => [](Rank \in Ranks)
    /\ Spec => [][/\ Execute => pc' = "idle" \/ Below(Rank', Rank)
                  /\ pc # "idle" => \/ pc' = "idle" \/ Rank' = Rank
                                    \/ Below(Rank', Rank)]_vars
<1>1. IInv => Rank \in Ranks
  BY RankIsNatural
<1>2. IInv /\ IInv' /\ [Next]_vars =>
        [/\ Execute => pc' = "idle" \/ Below(Rank', Rank)
         /\ pc # "idle" => \/ pc' = "idle" \/ Rank' = Rank
                           \/ Below(Rank', Rank)]_vars
  BY ExecutionShrinks, ExecutionUndisturbed
<1>3. Spec => [](Rank \in Ranks)
  BY <1>1, Inductive, PTL
<1>4. Spec => [][/\ Execute => pc' = "idle" \/ Below(Rank', Rank)
                 /\ pc # "idle" => \/ pc' = "idle" \/ Rank' = Rank
                                   \/ Below(Rank', Rank)]_vars
  BY <1>2, Inductive, PTL DEF Spec
<1> QED
  BY <1>3, <1>4, RanksAreWellFounded
=============================================================================
