--------------------------- MODULE JobQueueProofs ---------------------------
(***************************************************************************)
(* Proofs about JobQueue.  That rows and sessions are well formed holds    *)
(* for any jobs, workers, requests and operations; that attempts are kept, *)
(* retries bounded and parked jobs left alone holds with one worker        *)
(* (docs/WORKFLOW.md:37) beside any number of requests that cancel and     *)
(* decide, for any number of jobs, attempts, claims and faults; that every *)
(* move of a job follows the lifecycle holds with one decision at a time.  *)
(***************************************************************************)
EXTENDS JobQueue, TLAPS

-----------------------------------------------------------------------------
(* Rows and sessions                                                       *)

Session == [pc : PCs, job : Jobs \cup {NoJob}, loaded : Row, obj : Object]

\* A session that is doing something has loaded a row, and a requeued object holds
\* no time that is not written yet.
SessionFits(s) ==
    /\ s.pc \notin {"idle", "down"} => s.job \in Jobs
    /\ s.pc = "requeueing" => s.obj \in Row

QInv == TypeOK /\ \A t \in Threads : SessionFits(thread[t])

\* A row is an object without a time that is about to be written.
LEMMA RowIsObject ==
    ASSUME NEW row \in Row
    PROVE  row \in Object
  BY DEF Row, Object, Heartbeats

\* Changing columns of an object.
LEMMA ObjectWith ==
    ASSUME NEW obj \in Object, NEW st \in JobStates, NEW hb \in Heartbeats \cup {"now"}
    PROVE  /\ [obj EXCEPT !.state = st] \in Object
           /\ [obj EXCEPT !.state = st].state = st
           /\ [obj EXCEPT !.state = st].attempts = obj.attempts
           /\ [obj EXCEPT !.state = st, !.hb = hb] \in Object
           /\ [obj EXCEPT !.state = st, !.hb = hb].state = st
           /\ [obj EXCEPT !.state = st, !.hb = hb].attempts = obj.attempts
  BY DEF Object

\* Changing columns of a row.
LEMMA RowWith ==
    ASSUME NEW row \in Row, NEW st \in JobStates, NEW hb \in Heartbeats
    PROVE  /\ [row EXCEPT !.state = st] \in Row
           /\ [row EXCEPT !.state = st].state = st
           /\ [row EXCEPT !.state = st].attempts = row.attempts
           /\ [row EXCEPT !.state = st, !.hb = hb] \in Row
           /\ [row EXCEPT !.state = st, !.hb = hb].state = st
           /\ [row EXCEPT !.state = st, !.hb = hb].attempts = row.attempts
  BY DEF Row

\* A heartbeat leaves the other columns alone.
LEMMA RowBeats ==
    ASSUME NEW row \in Row, NEW hb \in Heartbeats
    PROVE  /\ [row EXCEPT !.hb = hb] \in Row
           /\ [row EXCEPT !.hb = hb].state = row.state
           /\ [row EXCEPT !.hb = hb].attempts = row.attempts
  BY DEF Row

\* A commit writes the time.
LEMMA StampedObject ==
    ASSUME NEW obj \in Object
    PROVE  /\ Stamped(obj) \in Row
           /\ Stamped(obj).state = obj.state
           /\ Stamped(obj).attempts = obj.attempts
  BY DEF Stamped, Object, Row, Heartbeats

\* A claim counts.
LEMMA ClaimedObject ==
    ASSUME NEW row \in Object
    PROVE  /\ Claimed(row) \in Object
           /\ Claimed(row).state = "running"
           /\ Claimed(row).attempts = row.attempts + 1
  BY DEF Claimed, Object, JobStates, Heartbeats

\* A commit writes the columns that differ from the loaded ones.
LEMMA FlushedColumns ==
    ASSUME NEW row \in Row, NEW loaded \in Row, NEW obj \in Object
    PROVE  LET new == Flushed(row, loaded, obj) IN
           /\ new \in Row
           /\ new.state = IF obj.state # loaded.state THEN obj.state ELSE row.state
           /\ new.attempts = IF obj.attempts # loaded.attempts THEN obj.attempts ELSE row.attempts
<1> DEFINE stamp == Stamped(obj)
           new == [col \in DOMAIN row |-> IF obj[col] # loaded[col] THEN stamp[col] ELSE row[col]]
<1>1. stamp \in Row /\ stamp.state = obj.state /\ stamp.attempts = obj.attempts
  BY StampedObject
<1> HIDE DEF stamp
<1>2. DOMAIN row = {"state", "attempts", "hb"}
  BY DEF Row
<1>3. /\ new.state = IF obj.state # loaded.state THEN stamp.state ELSE row.state
      /\ new.attempts = IF obj.attempts # loaded.attempts THEN stamp.attempts ELSE row.attempts
      /\ new.hb = IF obj.hb # loaded.hb THEN stamp.hb ELSE row.hb
  BY <1>2
<1>4. new = [state |-> new.state, attempts |-> new.attempts, hb |-> new.hb]
  BY <1>2
<1>5. new.state \in JobStates /\ new.attempts \in Nat /\ new.hb \in Heartbeats
  BY <1>1, <1>3 DEF Row
<1> HIDE DEF new
<1>6. new \in Row
  BY <1>4, <1>5 DEF Row
<1>7. new = Flushed(row, loaded, obj)
  BY DEF Flushed, new, stamp
<1> QED
  BY <1>1, <1>3, <1>6, <1>7

LEMMA IdleSessions ==
    /\ Idle \in Session /\ Idle.pc = "idle" /\ SessionFits(Idle)
    /\ Down \in Session /\ Down.pc = "down" /\ SessionFits(Down)
  BY DEF Idle, Down, Session, SessionFits, PCs, Absent, Row, Object, JobStates, Heartbeats, NoJob

-----------------------------------------------------------------------------
(* Well-formed rows and sessions                                           *)

\* A step of one session.
LEMMA OneSessionChanges ==
    ASSUME QInv, NEW t \in Threads, NEW held \in Session, SessionFits(held),
           held.pc = "down" <=> thread[t].pc = "down",
           thread' = [thread EXCEPT ![t] = held], job' \in [Jobs -> Row],
           UNCHANGED <<up, beat>>, faults' \in 0 .. MaxFaults
    PROVE  QInv'
<1>1. thread \in [Threads -> Session] /\ Workers \subseteq Threads
  BY DEF QInv, TypeOK, Session, Threads
<1>2. thread' \in [Threads -> Session]
  BY <1>1
<1>3. \A u \in Threads : SessionFits(thread'[u]) /\ (thread'[u].pc = "down" <=> thread[u].pc = "down")
  BY <1>1 DEF QInv
<1>4. \A w \in Workers : w \notin up' <=> thread'[w].pc = "down"
  BY <1>1, <1>3 DEF QInv, TypeOK
<1> QED
  BY <1>2, <1>3, <1>4 DEF QInv, TypeOK, Session

\* A step of a heartbeat or of the table.
LEMMA OneRowChanges ==
    ASSUME QInv, job' \in [Jobs -> Row], beat' \in [Workers -> Jobs \cup {NoJob}],
           UNCHANGED <<up, thread, faults>>
    PROVE  QInv'
  BY DEF QInv, TypeOK

\* A session that is at work.
LEMMA BusySession ==
    ASSUME QInv, NEW t \in Threads, thread[t].pc \notin {"idle", "down"}
    PROVE  /\ thread[t] \in Session /\ thread[t].job \in Jobs
           /\ thread[t].loaded \in Row /\ thread[t].obj \in Object
           /\ job[thread[t].job] \in Row
           /\ job \in [Jobs -> Row] /\ faults \in 0 .. MaxFaults
  BY DEF QInv, TypeOK, Session, SessionFits

LEMMA CommitFits ==
    ASSUME QInv, NEW t \in Threads, thread[t].pc \notin {"idle", "down"}, NEW obj \in Object,
           NEW pc \in {"idle", "claimed", "executing"}, Commit(t, obj, pc),
           UNCHANGED <<up, beat, faults>>
    PROVE  QInv'
<1> DEFINE j == thread[t].job
           held == IF pc = "idle" THEN Idle
                   ELSE [pc |-> pc, job |-> j, loaded |-> Stamped(obj), obj |-> Stamped(obj)]
           new == Flushed(job[j], thread[t].loaded, obj)
<1>1. new \in Row
  BY BusySession, FlushedColumns
<1>2. job' = [job EXCEPT ![j] = new] /\ thread' = [thread EXCEPT ![t] = held]
  BY DEF Commit
<1>3. Stamped(obj) \in Row /\ Stamped(obj) \in Object
  BY StampedObject, RowIsObject
<1>4. held \in Session /\ SessionFits(held) /\ held.pc # "down"
  BY <1>3, IdleSessions, BusySession DEF Session, SessionFits, PCs
<1> HIDE DEF held, new
<1>5. job' \in [Jobs -> Row]
  BY <1>1, <1>2, BusySession
<1> QED
  BY <1>2, <1>4, <1>5, BusySession, OneSessionChanges

LEMMA LoadFits ==
    ASSUME QInv, NEW r \in Threads, NEW j \in Jobs, thread[r].pc = "idle",
           NEW obj \in Object, NEW pc \in {"claiming", "writing", "requeueing"},
           pc = "requeueing" => obj \in Row,
           thread' = [thread EXCEPT ![r] = [pc |-> pc, job |-> j, loaded |-> job[j], obj |-> obj]],
           UNCHANGED <<job, up, beat, faults>>
    PROVE  QInv'
<1> DEFINE held == [pc |-> pc, job |-> j, loaded |-> job[j], obj |-> obj]
<1>1. job \in [Jobs -> Row] /\ faults \in 0 .. MaxFaults
  BY DEF QInv, TypeOK
<1>2. held \in Session /\ SessionFits(held) /\ held.pc # "down"
  BY <1>1 DEF Session, SessionFits, PCs
<1> HIDE DEF held
<1> QED
  BY <1>1, <1>2, OneSessionChanges DEF held

LEMMA OutcomeFits ==
    ASSUME QInv, NEW t \in Threads, Outcome(t)
    PROVE  QInv'
<1> DEFINE obj == thread[t].obj
<1>1. thread[t].pc = "executing" /\ UNCHANGED <<up, beat, faults>>
  BY DEF Outcome, Complete, Fail, Park
<1>2. obj \in Object
  BY <1>1, BusySession
<1>3. CASE Complete(t)
  <2>1. [obj EXCEPT !.state = "completed"] \in Object
    BY <1>2 DEF Object, JobStates
  <2> QED
    BY <1>1, <1>3, <2>1, CommitFits DEF Complete
<1>4. CASE Fail(t)
  <2> DEFINE st == IF obj.attempts < MaxAttempts THEN "retrying" ELSE "failed"
  <2>1. st \in JobStates /\ Commit(t, [obj EXCEPT !.state = st, !.hb = "null"], "idle")
    BY <1>4 DEF Fail, JobStates
  <2> HIDE DEF st
  <2>2. [obj EXCEPT !.state = st, !.hb = "null"] \in Object
    BY <1>2, <2>1, ObjectWith DEF Heartbeats
  <2> QED
    BY <1>1, <2>1, <2>2, CommitFits
<1>5. CASE Park(t)
  <2> PICK hb \in {obj.hb, "now"} :
          Commit(t, [obj EXCEPT !.state = "awaiting_approval", !.hb = hb], "idle")
    BY <1>5 DEF Park
  <2>1. hb \in Heartbeats \cup {"now"}
    BY <1>2 DEF Object
  <2>2. [obj EXCEPT !.state = "awaiting_approval", !.hb = hb] \in Object
    BY <1>2, <2>1, ObjectWith DEF JobStates
  <2> QED
    BY <1>1, <2>2, CommitFits
<1> QED
  BY <1>3, <1>4, <1>5 DEF Outcome

LEMMA ClaimCommitFits ==
    ASSUME QInv, NEW t \in Threads, ClaimCommit(t)
    PROVE  QInv'
<1> DEFINE pc == IF t \in Workers THEN "claimed" ELSE "executing"
<1>1. thread[t].pc = "claiming" /\ Commit(t, thread[t].obj, pc) /\ UNCHANGED <<up, beat, faults>>
  BY DEF ClaimCommit
<1>2. pc \in {"idle", "claimed", "executing"} /\ thread[t].obj \in Object
  BY <1>1, BusySession
<1> HIDE DEF pc
<1> QED
  BY <1>1, <1>2, CommitFits

LEMMA WorkerStepFits ==
    ASSUME QInv, NEW w \in Workers, WorkerStep(w)
    PROVE  QInv'
<1> USE DEF Threads
<1>1. CASE ClaimRead(w)
  <2> PICK j \in Jobs : thread' = [thread EXCEPT ![w] =
                [pc |-> "claiming", job |-> j, loaded |-> job[j], obj |-> Claimed(job[j])]]
    BY <1>1 DEF ClaimRead
  <2>1. Claimed(job[j]) \in Object
    BY ClaimedObject, RowIsObject DEF QInv, TypeOK
  <2> QED
    BY <1>1, <2>1, LoadFits DEF ClaimRead
<1>2. CASE Merge(w)
  <2> DEFINE held == [thread[w] EXCEPT !.pc = "executing", !.loaded = job[thread[w].job]]
  <2>1. thread[w] \in Session /\ job[thread[w].job] \in Row /\ thread[w].job \in Jobs
        /\ job \in [Jobs -> Row] /\ faults \in 0 .. MaxFaults /\ thread[w].pc = "claimed"
    BY <1>2, BusySession DEF Merge
  <2>2. held \in Session /\ held.pc = "executing" /\ held.job = thread[w].job
    BY <2>1 DEF Session, PCs
  <2>3. thread' = [thread EXCEPT ![w] = held]
    BY <1>2 DEF Merge
  <2> HIDE DEF held
  <2> QED
    BY <1>2, <2>1, <2>2, <2>3, OneSessionChanges DEF Merge, SessionFits
<1>3. CASE Checkpoint(w)
  BY <1>3, BusySession, CommitFits DEF Checkpoint
<1> QED
  BY <1>1, <1>2, <1>3, ClaimCommitFits, OutcomeFits DEF WorkerStep

LEMMA RunRequeueFits ==
    ASSUME QInv, NEW r \in Threads, RunRequeue(r)
    PROVE  QInv'
<1> DEFINE s == thread[r]
           held == [pc |-> "claiming", job |-> s.job, loaded |-> s.obj, obj |-> Claimed(s.obj)]
           new == Flushed(job[s.job], s.loaded, s.obj)
<1>1. s.pc = "requeueing" /\ s.job \in Jobs /\ s.loaded \in Row /\ s.obj \in Row
      /\ job[s.job] \in Row /\ job \in [Jobs -> Row] /\ faults \in 0 .. MaxFaults
  BY BusySession DEF RunRequeue, QInv, SessionFits
<1>2. Claimed(s.obj) \in Object /\ new \in Row
  BY <1>1, RowIsObject, ClaimedObject, FlushedColumns
<1>3. held \in Session /\ SessionFits(held) /\ held.pc # "down"
  BY <1>1, <1>2 DEF Session, SessionFits, PCs
<1>4. thread' = [thread EXCEPT ![r] = held] /\ job' = [job EXCEPT ![s.job] = new]
      /\ UNCHANGED <<up, beat, faults>>
  BY DEF RunRequeue
<1> HIDE DEF held, new
<1>5. job' \in [Jobs -> Row]
  BY <1>1, <1>2, <1>4
<1> QED
  BY <1>1, <1>3, <1>4, <1>5, OneSessionChanges

LEMMA RequestFits ==
    ASSUME QInv, NEW r \in Threads, NEW j \in Jobs, Request(r, j)
    PROVE  QInv'
<1>1. job[j] \in Row
  BY DEF QInv, TypeOK
<1>2. CASE CancelRead(r, j)
  <2>1. [job[j] EXCEPT !.state = "cancelled"] \in Object
    BY <1>1, RowWith, RowIsObject DEF JobStates, Heartbeats
  <2> QED
    BY <1>2, <2>1, LoadFits DEF CancelRead, Load
<1>3. [job[j] EXCEPT !.state = "queued", !.hb = "null"] \in Row
      /\ [job[j] EXCEPT !.state = "failed"] \in Row
  BY <1>1, RowWith DEF JobStates, Heartbeats
<1>4. ASSUME NEW decision, DecideRead(r, j, decision)
      PROVE  QInv'
  <2> DEFINE obj == IF decision = "approved"
                    THEN [job[j] EXCEPT !.state = "queued", !.hb = "null"]
                    ELSE [job[j] EXCEPT !.state = "failed"]
  <2>1. obj \in Object
    BY <1>3, RowIsObject
  <2>2. thread[r].pc = "idle" /\ Load(r, j, obj, "writing")
    BY <1>4 DEF DecideRead
  <2> HIDE DEF obj
  <2> QED
    BY <2>1, <2>2, LoadFits DEF Load
<1>5. CASE RunRead(r, j)
  BY <1>3, <1>5, RowIsObject, LoadFits DEF RunRead, Load
<1> QED
  BY <1>2, <1>4, <1>5 DEF Request

LEMMA ProcessFits ==
    ASSUME QInv, NEW w \in Workers, StartWorker(w) \/ Crash(w)
    PROVE  QInv'
<1>1. thread \in [Threads -> Session] /\ Workers \subseteq Threads /\ NoJob \notin Jobs
  BY JobQueueAssumption DEF QInv, TypeOK, Session, Threads, NoJob
<1>2. CASE StartWorker(w)
  <2>1. thread' \in [Threads -> Session] /\ \A t \in Threads : SessionFits(thread'[t])
    BY <1>1, <1>2, IdleSessions DEF StartWorker, QInv
  <2>2. \A v \in Workers : v \notin up' <=> thread'[v].pc = "down"
    BY <1>1, <1>2, IdleSessions DEF StartWorker, QInv, TypeOK
  <2> QED
    BY <1>2, <2>1, <2>2 DEF StartWorker, QInv, TypeOK, Session
<1>3. CASE Crash(w)
  <2>1. thread' \in [Threads -> Session] /\ \A t \in Threads : SessionFits(thread'[t])
    BY <1>1, <1>3, IdleSessions DEF Crash, QInv
  <2>2. \A v \in Workers : v \notin up' <=> thread'[v].pc = "down"
    BY <1>1, <1>3, IdleSessions DEF Crash, QInv, TypeOK
  <2>3. faults' \in 0 .. MaxFaults /\ beat' \in [Workers -> Jobs \cup {NoJob}]
    BY <1>3, JobQueueAssumption DEF Crash, QInv, TypeOK
  <2> QED
    BY <1>3, <2>1, <2>2, <2>3 DEF Crash, QInv, TypeOK, Session
<1> QED
  BY <1>2, <1>3

LEMMA LoseSessionFits ==
    ASSUME QInv, NEW t \in Threads, LoseSession(t)
    PROVE  QInv'
<1>1. faults' \in 0 .. MaxFaults /\ job' \in [Jobs -> Row]
  BY JobQueueAssumption DEF LoseSession, QInv, TypeOK
<1> QED
  BY <1>1, IdleSessions, OneSessionChanges DEF LoseSession

LEMMA TableFits ==
    ASSUME QInv, NEW j \in Jobs, CreateJob(j) \/ Age(j)
    PROVE  QInv'
<1>1. job[j] \in Row /\ job \in [Jobs -> Row]
  BY DEF QInv, TypeOK
<1>2. [job[j] EXCEPT !.state = "queued"] \in Row /\ [job[j] EXCEPT !.hb = "stale"] \in Row
  BY <1>1, RowWith, RowBeats DEF JobStates, Heartbeats
<1>3. job' \in [Jobs -> Row]
  BY <1>1, <1>2 DEF CreateJob, Age
<1> QED
  BY <1>3, OneRowChanges DEF CreateJob, Age, QInv, TypeOK

LEMMA BeatFits ==
    ASSUME QInv, NEW w \in Workers, BeatRead(w) \/ BeatWrite(w)
    PROVE  QInv'
<1>1. job \in [Jobs -> Row] /\ beat \in [Workers -> Jobs \cup {NoJob}]
  BY DEF QInv, TypeOK
<1>2. CASE BeatRead(w)
  BY <1>1, <1>2, OneRowChanges DEF BeatRead
<1>3. CASE BeatWrite(w)
  <2>1. beat[w] \in Jobs
    BY <1>1, <1>3 DEF BeatWrite
  <2>2. [job[beat[w]] EXCEPT !.hb = "fresh"] \in Row
    BY <1>1, <2>1, RowBeats DEF Heartbeats
  <2> QED
    BY <1>1, <1>3, <2>1, <2>2, OneRowChanges DEF BeatWrite
<1> QED
  BY <1>2, <1>3

LEMMA StepFits == QInv /\ [Next]_vars => QInv'
<1> SUFFICES ASSUME QInv, [Next]_vars PROVE QInv'
  OBVIOUS
<1>1. ASSUME NEW w \in Workers,
             StartWorker(w) \/ WorkerStep(w) \/ BeatRead(w) \/ BeatWrite(w) \/ Crash(w)
      PROVE  QInv'
  BY <1>1, ProcessFits, WorkerStepFits, BeatFits
<1>2. ASSUME NEW r \in Requests, RequestStep(r) \/ \E j \in Jobs : Request(r, j)
      PROVE  QInv'
  <2>1. r \in Threads
    BY DEF Threads
  <2>2. CASE WriteCommit(r)
    BY <2>1, <2>2, BusySession, CommitFits DEF WriteCommit
  <2> QED
    BY <1>2, <2>1, <2>2, RunRequeueFits, ClaimCommitFits, OutcomeFits, RequestFits DEF RequestStep
<1>3. CASE UNCHANGED vars
  BY <1>3 DEF vars, QInv, TypeOK
<1> QED
  BY <1>1, <1>2, <1>3, TableFits, LoseSessionFits DEF Next

LEMMA InitFits == Init => QInv
<1> SUFFICES ASSUME Init PROVE QInv
  OBVIOUS
<1>1. Absent \in Row /\ Workers \subseteq Threads
  BY DEF Absent, Row, JobStates, Heartbeats, Threads
<1>2. thread \in [Threads -> Session] /\ \A t \in Threads : SessionFits(thread[t])
  BY IdleSessions DEF Init
<1>3. \A w \in Workers : thread[w].pc = "down"
  BY <1>1, IdleSessions DEF Init
<1> QED
  BY <1>1, <1>2, <1>3, JobQueueAssumption DEF Init, QInv, TypeOK, Session

\* Rows and sessions are well formed, whoever claims, decides, runs and crashes at once.
THEOREM QueueInvariant == Spec => []QInv
  BY InitFits, StepFits, PTL DEF Spec

\* For any workers, requests and operations (worker.py, engine.py, api/main.py).
THEOREM QueueTyped == Spec => []TypeOK
<1>1. QInv => TypeOK
  BY DEF QInv
<1> QED
  BY <1>1, QueueInvariant, PTL

-----------------------------------------------------------------------------
(* One worker, and requests that cancel and decide                         *)

OneWorker == (\E w : Workers = {w}) /\ Ops \subseteq {"cancel", "decide"}

\* A request changes the state of its object, to none that waits.
RequestHolds(s) ==
    /\ s.pc \in {"idle", "writing"}
    /\ s.pc = "writing" =>
        /\ s.obj.attempts = s.loaded.attempts
        /\ s.obj.state \notin {"retrying", "awaiting_approval"}

\* The worker knows the number of attempts in its job's row, and the row does not
\* wait behind its back, unless it has read a retry and not claimed it yet.
WorkerHolds(s, row) ==
    /\ s.pc \in {"claiming", "claimed", "executing"} =>
        /\ s.obj.state = "running"
        /\ s.loaded.attempts = row.attempts
        /\ row.state # "awaiting_approval"
    /\ s.pc = "claiming" =>
        /\ s.obj.attempts = row.attempts + 1
        /\ row.state = "retrying" => s.loaded.state = "retrying"
    /\ s.pc \in {"claimed", "executing"} =>
        /\ s.obj.attempts = row.attempts
        /\ row.state # "retrying"
    /\ s.pc # "requeueing" /\ s.pc # "writing"

SoleInv ==
    /\ QInv
    /\ RetryingHasAttemptsLeft
    /\ \A r \in Requests : RequestHolds(thread[r])
    /\ \A w \in Workers : WorkerHolds(thread[w], job[thread[w].job])

Kept == \A j \in Jobs : job'[j].attempts >= job[j].attempts

\* Steps that keep the attempts of every row and make none wait.
Harmless ==
    \A j \in Jobs :
        /\ job'[j].attempts = job[j].attempts
        /\ job'[j].state = job[j].state \/ job'[j].state \notin {"retrying", "awaiting_approval"}

\* The numbers of attempts can be compared.
LEMMA AttemptsAreNumbers ==
    ASSUME QInv, NEW j \in Jobs
    PROVE  job[j] \in Row /\ job[j].attempts \in Nat
  BY DEF QInv, TypeOK, Row

\* Such a step disturbs nobody but the session that makes it.
LEMMA HarmlessKeeps ==
    ASSUME SoleInv, QInv', Harmless, NEW t \in Threads,
           \A u \in Threads : u # t => thread'[u] = thread[u],
           t \in Requests => RequestHolds(thread'[t]),
           t \in Workers => thread'[t] = thread[t] \/ WorkerHolds(thread'[t], job'[thread'[t].job])
    PROVE  SoleInv' /\ Kept
<1>1. Kept
  BY AttemptsAreNumbers DEF SoleInv, Harmless, Kept
<1>2. RetryingHasAttemptsLeft'
  BY DEF SoleInv, Harmless, RetryingHasAttemptsLeft
<1>3. \A r \in Requests : RequestHolds(thread'[r])
  BY DEF SoleInv, Threads
<1>4. ASSUME NEW w \in Workers, thread'[w] = thread[w]
      PROVE  WorkerHolds(thread'[w], job'[thread'[w].job])
  <2>1. WorkerHolds(thread[w], job[thread[w].job]) /\ w \in Threads
    BY DEF SoleInv, Threads
  <2>2. CASE thread[w].pc \in {"claiming", "claimed", "executing"}
    <3>1. thread[w].job \in Jobs
      BY <2>1, <2>2, BusySession DEF SoleInv
    <3> QED
      BY <1>4, <2>1, <2>2, <3>1 DEF Harmless, WorkerHolds
  <2>3. CASE thread[w].pc \notin {"claiming", "claimed", "executing"}
    BY <1>4, <2>1, <2>3 DEF WorkerHolds
  <2> QED
    BY <2>2, <2>3
<1>5. \A w \in Workers : WorkerHolds(thread'[w], job'[thread'[w].job])
  BY <1>4 DEF Threads
<1> QED
  BY <1>1, <1>2, <1>3, <1>5 DEF SoleInv

\* The worker commits: the row gets its number of attempts.
LEMMA WorkerCommitKeeps ==
    ASSUME OneWorker, SoleInv, QInv', NEW w \in Workers, thread[w].pc \in {"claiming", "executing"},
           NEW obj \in Object, NEW pc \in {"idle", "claimed", "executing"}, Commit(w, obj, pc),
           obj.attempts = thread[w].obj.attempts,
           obj.state = "retrying" => obj.attempts < MaxAttempts,
           pc # "idle" => obj.state = "running",
           pc = "idle" => thread[w].pc = "executing"
    PROVE  SoleInv' /\ Kept
<1> DEFINE s == thread[w]
           j == s.job
           new == Flushed(job[j], s.loaded, obj)
           held == IF pc = "idle" THEN Idle
                   ELSE [pc |-> pc, job |-> j, loaded |-> Stamped(obj), obj |-> Stamped(obj)]
<1>1. w \in Threads /\ w \notin Requests /\ \A v \in Workers : v = w
  BY JobQueueAssumption DEF OneWorker, Threads
<1>2. j \in Jobs /\ s.loaded \in Row /\ job[j] \in Row /\ job \in [Jobs -> Row]
      /\ thread \in [Threads -> Session]
  BY <1>1, BusySession DEF SoleInv, QInv, TypeOK, Session
<1>3. WorkerHolds(s, job[j])
  BY DEF SoleInv
<1>4. /\ new.state = IF obj.state # s.loaded.state THEN obj.state ELSE job[j].state
      /\ new.attempts = IF obj.attempts # s.loaded.attempts THEN obj.attempts ELSE job[j].attempts
  BY <1>2, FlushedColumns
<1>5. Stamped(obj).state = obj.state /\ Stamped(obj).attempts = obj.attempts
  BY StampedObject
<1>6. job' = [job EXCEPT ![j] = new] /\ thread' = [thread EXCEPT ![w] = held]
  BY DEF Commit
<1> HIDE DEF new
<1>7. new.attempts = obj.attempts /\ new.attempts \in {job[j].attempts, job[j].attempts + 1}
  BY <1>3, <1>4 DEF WorkerHolds
<1>8. new.state = "retrying" => new.attempts < MaxAttempts
  BY <1>3, <1>4, <1>7 DEF WorkerHolds
<1>9. pc # "idle" => new.state \notin {"retrying", "awaiting_approval"}
  BY <1>3, <1>4 DEF WorkerHolds
<1>10. WorkerHolds(held, new)
  BY <1>5, <1>7, <1>9, IdleSessions DEF WorkerHolds
<1> HIDE DEF held
<1>11. Kept
  BY <1>2, <1>6, <1>7, AttemptsAreNumbers DEF Kept, SoleInv
<1>12. RetryingHasAttemptsLeft'
  BY <1>2, <1>6, <1>8 DEF RetryingHasAttemptsLeft, SoleInv
<1>13. \A r \in Requests : RequestHolds(thread'[r])
  BY <1>1, <1>2, <1>6 DEF SoleInv, Threads
<1>14. thread'[w] = held /\ (held.pc = "idle" \/ (held.job = j /\ job'[j] = new))
  BY <1>1, <1>2, <1>6, IdleSessions DEF held
<1>15. \A v \in Workers : WorkerHolds(thread'[v], job'[thread'[v].job])
  <2>1. CASE held.pc = "idle"
    BY <1>1, <1>14, <2>1 DEF WorkerHolds
  <2>2. CASE held.job = j /\ job'[j] = new
    BY <1>1, <1>10, <1>14, <2>2
  <2> QED
    BY <1>14, <2>1, <2>2
<1> QED
  BY <1>11, <1>12, <1>13, <1>15 DEF SoleInv

LEMMA WorkerOutcomeKeeps ==
    ASSUME OneWorker, SoleInv, QInv', NEW w \in Workers, Outcome(w)
    PROVE  SoleInv' /\ Kept
<1> DEFINE obj == thread[w].obj
<1>1. w \in Threads /\ thread[w].pc = "executing"
  BY DEF Outcome, Complete, Fail, Park, Threads
<1>2. obj \in Object
  BY <1>1, BusySession DEF SoleInv
<1>3. CASE Complete(w)
  <2>1. [obj EXCEPT !.state = "completed"] \in Object /\ [obj EXCEPT !.state = "completed"].state = "completed"
        /\ [obj EXCEPT !.state = "completed"].attempts = obj.attempts
    BY <1>2 DEF Object, JobStates
  <2> QED
    BY <1>1, <1>3, <2>1, WorkerCommitKeeps DEF Complete
<1>4. CASE Fail(w)
  <2> DEFINE st == IF obj.attempts < MaxAttempts THEN "retrying" ELSE "failed"
             new == [obj EXCEPT !.state = st, !.hb = "null"]
  <2>1. st \in JobStates /\ (st = "retrying" => obj.attempts < MaxAttempts) /\ Commit(w, new, "idle")
    BY <1>4 DEF Fail, JobStates
  <2> HIDE DEF st
  <2>2. new \in Object /\ new.state = st /\ new.attempts = obj.attempts
    BY <1>2, <2>1 DEF Object, Heartbeats
  <2> HIDE DEF new
  <2> QED
    BY <1>1, <2>1, <2>2, WorkerCommitKeeps
<1>5. CASE Park(w)
  <2> PICK hb \in {obj.hb, "now"} :
          Commit(w, [obj EXCEPT !.state = "awaiting_approval", !.hb = hb], "idle")
    BY <1>5 DEF Park
  <2> DEFINE new == [obj EXCEPT !.state = "awaiting_approval", !.hb = hb]
  <2>1. hb \in Heartbeats \cup {"now"} /\ "awaiting_approval" \in JobStates
    BY <1>2 DEF Object, JobStates
  <2>2. new \in Object /\ new.state = "awaiting_approval" /\ new.attempts = obj.attempts
    BY <1>2, <2>1 DEF Object
  <2> HIDE DEF new
  <2>3. Commit(w, new, "idle")
    BY DEF new
  <2> QED
    BY <1>1, <2>2, <2>3, WorkerCommitKeeps
<1> QED
  BY <1>3, <1>4, <1>5 DEF Outcome

LEMMA WorkerStepKeeps ==
    ASSUME OneWorker, SoleInv, QInv', NEW w \in Workers, WorkerStep(w)
    PROVE  SoleInv' /\ Kept
<1>1. w \in Threads /\ w \notin Requests /\ thread \in [Threads -> Session] /\ job \in [Jobs -> Row]
  BY JobQueueAssumption DEF Threads, SoleInv, QInv, TypeOK, Session
<1>2. WorkerHolds(thread[w], job[thread[w].job])
  BY DEF SoleInv
<1>3. CASE ClaimRead(w)
  <2> PICK j \in Jobs :
        /\ Claimable(job[j])
        /\ thread' = [thread EXCEPT ![w] =
                [pc |-> "claiming", job |-> j, loaded |-> job[j], obj |-> Claimed(job[j])]]
    BY <1>3 DEF ClaimRead
  <2>1. Claimed(job[j]).state = "running" /\ Claimed(job[j]).attempts = job[j].attempts + 1
    BY <1>1, RowIsObject, ClaimedObject
  <2>2. job[j].state # "awaiting_approval" /\ UNCHANGED job
    BY <1>3 DEF Claimable, ClaimRead
  <2>3. WorkerHolds(thread'[w], job'[thread'[w].job])
    BY <1>1, <2>1, <2>2 DEF WorkerHolds
  <2>4. Harmless /\ \A u \in Threads : u # w => thread'[u] = thread[u]
    BY <1>1, <2>2 DEF Harmless
  <2> QED
    BY <1>1, <2>3, <2>4, HarmlessKeeps
<1>4. CASE ClaimCommit(w)
  <2>1. thread[w].obj \in Object /\ thread[w].pc = "claiming" /\ Commit(w, thread[w].obj, "claimed")
    BY <1>1, <1>4, BusySession DEF ClaimCommit, SoleInv
  <2> QED
    BY <1>2, <2>1, WorkerCommitKeeps DEF WorkerHolds
<1>5. CASE Merge(w)
  <2> DEFINE held == [thread[w] EXCEPT !.pc = "executing", !.loaded = job[thread[w].job]]
  <2>1. /\ held.pc = "executing" /\ held.job = thread[w].job /\ held.obj = thread[w].obj
        /\ held.loaded = job[thread[w].job]
    BY <1>1 DEF Session
  <2>2. thread' = [thread EXCEPT ![w] = held] /\ UNCHANGED job /\ thread[w].pc = "claimed"
    BY <1>5 DEF Merge
  <2> HIDE DEF held
  <2>3. WorkerHolds(thread'[w], job'[thread'[w].job])
    BY <1>1, <1>2, <2>1, <2>2 DEF WorkerHolds
  <2>4. Harmless /\ \A u \in Threads : u # w => thread'[u] = thread[u]
    BY <1>1, <2>2 DEF Harmless
  <2> QED
    BY <1>1, <2>3, <2>4, HarmlessKeeps
<1>6. CASE Checkpoint(w)
  <2>1. thread[w].obj \in Object /\ thread[w].pc = "executing" /\ Commit(w, thread[w].obj, "executing")
    BY <1>1, <1>6, BusySession DEF Checkpoint, SoleInv
  <2> QED
    BY <1>2, <2>1, WorkerCommitKeeps DEF WorkerHolds
<1> QED
  BY <1>3, <1>4, <1>5, <1>6, WorkerOutcomeKeeps DEF WorkerStep

LEMMA RequestStepKeeps ==
    ASSUME OneWorker, SoleInv, QInv', NEW r \in Requests, RequestStep(r)
    PROVE  SoleInv' /\ Kept
<1> DEFINE s == thread[r]
           new == Flushed(job[s.job], s.loaded, s.obj)
<1>1. r \in Threads /\ r \notin Workers /\ RequestHolds(s) /\ thread \in [Threads -> Session]
  BY JobQueueAssumption DEF Threads, SoleInv, QInv, TypeOK, Session
<1>2. WriteCommit(r)
  BY <1>1 DEF RequestStep, RequestHolds, RunRequeue, ClaimCommit, Outcome, Complete, Fail, Park
<1>3. s.pc = "writing" /\ job' = [job EXCEPT ![s.job] = new] /\ thread' = [thread EXCEPT ![r] = Idle]
  BY <1>2 DEF WriteCommit, Commit
<1>4. s.job \in Jobs /\ s.loaded \in Row /\ s.obj \in Object /\ job[s.job] \in Row /\ job \in [Jobs -> Row]
  BY <1>1, <1>3, BusySession DEF SoleInv
<1>5. /\ new.state = IF s.obj.state # s.loaded.state THEN s.obj.state ELSE job[s.job].state
      /\ new.attempts = IF s.obj.attempts # s.loaded.attempts THEN s.obj.attempts
                        ELSE job[s.job].attempts
  BY <1>4, FlushedColumns
<1> HIDE DEF new
<1>6. Harmless
  BY <1>1, <1>3, <1>4, <1>5 DEF Harmless, RequestHolds
<1>7. RequestHolds(thread'[r]) /\ \A u \in Threads : u # r => thread'[u] = thread[u]
  BY <1>1, <1>3, IdleSessions DEF RequestHolds
<1> QED
  BY <1>1, <1>6, <1>7, HarmlessKeeps

LEMMA RequestKeeps ==
    ASSUME OneWorker, SoleInv, QInv', NEW r \in Requests, NEW j \in Jobs, Request(r, j)
    PROVE  SoleInv' /\ Kept
<1>1. r \in Threads /\ r \notin Workers /\ thread \in [Threads -> Session] /\ job[j] \in Row
  BY JobQueueAssumption DEF Threads, SoleInv, QInv, TypeOK, Session
<1>2. ASSUME NEW obj, Load(r, j, obj, "writing"), obj.attempts = job[j].attempts,
             obj.state \notin {"retrying", "awaiting_approval"}
      PROVE  SoleInv' /\ Kept
  <2>1. thread' = [thread EXCEPT ![r] = [pc |-> "writing", job |-> j, loaded |-> job[j], obj |-> obj]]
        /\ UNCHANGED job
    BY <1>2 DEF Load
  <2>2. RequestHolds(thread'[r]) /\ \A u \in Threads : u # r => thread'[u] = thread[u]
    BY <1>1, <1>2, <2>1 DEF RequestHolds
  <2>3. Harmless
    BY <2>1 DEF Harmless
  <2> QED
    BY <1>1, <2>2, <2>3, HarmlessKeeps
<1>3. CASE CancelRead(r, j)
  <2> DEFINE obj == [job[j] EXCEPT !.state = "cancelled"]
  <2>1. obj.attempts = job[j].attempts /\ obj.state = "cancelled" /\ Load(r, j, obj, "writing")
    BY <1>1, <1>3 DEF Row, CancelRead
  <2> HIDE DEF obj
  <2> QED
    BY <1>2, <2>1
<1>4. ASSUME NEW decision, DecideRead(r, j, decision)
      PROVE  SoleInv' /\ Kept
  <2> DEFINE approved == [job[j] EXCEPT !.state = "queued", !.hb = "null"]
             rejected == [job[j] EXCEPT !.state = "failed"]
  <2>1. /\ approved.attempts = job[j].attempts /\ approved.state = "queued"
        /\ rejected.attempts = job[j].attempts /\ rejected.state = "failed"
    BY <1>1 DEF Row
  <2>2. Load(r, j, IF decision = "approved" THEN approved ELSE rejected, "writing")
    BY <1>4 DEF DecideRead
  <2> HIDE DEF approved, rejected
  <2>3. Load(r, j, approved, "writing") \/ Load(r, j, rejected, "writing")
    BY <2>2
  <2> QED
    BY <1>2, <2>1, <2>3
<1>5. ~ RunRead(r, j)
  BY DEF RunRead, OneWorker
<1> QED
  BY <1>3, <1>4, <1>5 DEF Request

\* A job is created, ages, or gets a heartbeat.
LEMMA TableKeeps ==
    ASSUME OneWorker, SoleInv, QInv', UNCHANGED thread,
           \/ \E j \in Jobs : CreateJob(j) \/ Age(j)
           \/ \E w \in Workers : BeatRead(w) \/ BeatWrite(w)
    PROVE  SoleInv' /\ Kept
<1>1. job \in [Jobs -> Row] /\ beat \in [Workers -> Jobs \cup {NoJob}]
  BY DEF SoleInv, QInv, TypeOK
<1>2. Harmless
  <2>1. ASSUME NEW j \in Jobs, CreateJob(j)
        PROVE  Harmless
    BY <1>1, <2>1 DEF CreateJob, Row, Harmless
  <2>2. ASSUME NEW j \in Jobs, NEW hb, job' = [job EXCEPT ![j].hb = hb]
        PROVE  Harmless
    BY <1>1, <2>2 DEF Row, Harmless
  <2>3. ASSUME NEW w \in Workers, BeatWrite(w)
        PROVE  Harmless
    BY <1>1, <2>2, <2>3 DEF BeatWrite
  <2>4. UNCHANGED job => Harmless
    BY DEF Harmless
  <2> QED
    BY <2>1, <2>2, <2>3, <2>4 DEF Age, BeatRead
<1> PICK w : Workers = {w}
  BY DEF OneWorker
<1>3. w \in Threads /\ w \in Workers /\ w \notin Requests
  BY JobQueueAssumption DEF Threads
<1> QED
  BY <1>2, <1>3, HarmlessKeeps

\* A process or a session of the worker starts or ends.
LEMMA ProcessKeeps ==
    ASSUME OneWorker, SoleInv, QInv', NEW t \in Threads, t \in Workers \/ LoseSession(t),
           StartWorker(t) \/ Crash(t) \/ LoseSession(t)
    PROVE  SoleInv' /\ Kept
<1>1. thread \in [Threads -> Session]
  BY DEF SoleInv, QInv, TypeOK, Session
<1> PICK held \in {Idle, Down} : thread' = [thread EXCEPT ![t] = held]
  BY DEF StartWorker, Crash, LoseSession
<1>2. held.pc \in {"idle", "down"} /\ UNCHANGED job
  BY IdleSessions DEF StartWorker, Crash, LoseSession
<1>3. t \in Requests => RequestHolds(held)
  <2> SUFFICES ASSUME t \in Requests PROVE held.pc = "idle"
    BY DEF RequestHolds
  <2>1. t \notin Workers
    BY JobQueueAssumption
  <2>2. thread' = [thread EXCEPT ![t] = Idle]
    BY <2>1 DEF LoseSession, StartWorker, Crash
  <2> QED
    BY <1>1, <2>2, IdleSessions
<1>4. WorkerHolds(held, job'[held.job])
  BY <1>2 DEF WorkerHolds
<1>5. thread'[t] = held /\ \A u \in Threads : u # t => thread'[u] = thread[u]
  BY <1>1
<1> QED
  BY <1>2, <1>3, <1>4, <1>5, HarmlessKeeps DEF Harmless

LEMMA SoleStep == OneWorker /\ SoleInv /\ [Next]_vars => SoleInv' /\ Kept
<1> SUFFICES ASSUME OneWorker, SoleInv, [Next]_vars PROVE SoleInv' /\ Kept
  OBVIOUS
<1>1. QInv'
  BY StepFits DEF SoleInv
<1>2. ASSUME NEW w \in Workers,
             StartWorker(w) \/ WorkerStep(w) \/ BeatRead(w) \/ BeatWrite(w) \/ Crash(w)
      PROVE  SoleInv' /\ Kept
  BY <1>1, <1>2, WorkerStepKeeps, TableKeeps, ProcessKeeps DEF Threads, BeatRead, BeatWrite
<1>3. ASSUME NEW r \in Requests, RequestStep(r) \/ \E j \in Jobs : Request(r, j)
      PROVE  SoleInv' /\ Kept
  BY <1>1, <1>3, RequestStepKeeps, RequestKeeps
<1>4. ASSUME NEW j \in Jobs, CreateJob(j) \/ Age(j)
      PROVE  SoleInv' /\ Kept
  BY <1>1, <1>4, TableKeeps DEF CreateJob, Age
<1>5. ASSUME NEW t \in Threads, LoseSession(t)
      PROVE  SoleInv' /\ Kept
  BY <1>1, <1>5, ProcessKeeps
<1>6. CASE UNCHANGED vars
  <2>1. Kept
    BY <1>6, AttemptsAreNumbers DEF vars, Kept, SoleInv
  <2>2. RetryingHasAttemptsLeft'
    BY <1>6 DEF vars, SoleInv, RetryingHasAttemptsLeft
  <2> QED
    BY <1>1, <1>6, <2>1, <2>2 DEF vars, SoleInv
<1> QED
  BY <1>2, <1>3, <1>4, <1>5, <1>6 DEF Next

LEMMA SoleStart == Init => SoleInv
<1> SUFFICES ASSUME Init PROVE SoleInv
  OBVIOUS
<1>1. RetryingHasAttemptsLeft
  BY DEF Init, RetryingHasAttemptsLeft, Absent
<1>2. \A r \in Requests : RequestHolds(thread[r])
  BY IdleSessions, JobQueueAssumption DEF Init, Threads, RequestHolds
<1>3. \A w \in Workers : WorkerHolds(thread[w], job[thread[w].job])
  BY IdleSessions DEF Init, Threads, WorkerHolds
<1> QED
  BY <1>1, <1>2, <1>3, InitFits DEF SoleInv

\* What sessions hold of their jobs, with one worker (worker.py, engine.py 105-150,
\* api/main.py 855-900).
THEOREM SoleWorkerInvariant == ASSUME OneWorker PROVE Spec => []SoleInv
<1>1. SoleInv /\ [Next]_vars => SoleInv'
  BY SoleStep
<1> QED
  BY SoleStart, <1>1, PTL DEF Spec

\* With one worker, a job that waits for another try has one left, whatever requests
\* commit from stale sessions (_fail_job).
THEOREM RetriesAreBounded == ASSUME OneWorker PROVE Spec => []RetryingHasAttemptsLeft
<1>1. SoleInv => RetryingHasAttemptsLeft
  BY DEF SoleInv
<1> QED
  BY <1>1, SoleWorkerInvariant, PTL

\* With one worker, nobody executes a job that waits for a human (_pause_for_approval).
THEOREM ParkedJobsRest == ASSUME OneWorker PROVE Spec => []ParkedNotExecuted
<1>1. SoleInv => ParkedNotExecuted
  BY DEF SoleInv, ParkedNotExecuted, Executing, Threads, RequestHolds, WorkerHolds
<1> QED
  BY <1>1, SoleWorkerInvariant, PTL

\* With one worker, no commit of a stale session takes an attempt back (db.py).
THEOREM AttemptsAreKept == ASSUME OneWorker PROVE Spec => AttemptsKept
<1>1. SoleInv /\ [Next]_vars => [Kept]_vars
  BY SoleStep
<1> QED
  BY <1>1, SoleWorkerInvariant, PTL DEF Spec, AttemptsKept, Kept
-----------------------------------------------------------------------------
(* One worker, and one decision at a time                                  *)

OneDecider == OneWorker /\ Ops \subseteq {"decide"} /\ \A r, q \in Requests : r = q

\* A request decides about a row that waits; nobody else touches it.
DeciderHolds(s, row) ==
    s.pc = "writing" =>
        /\ s.loaded.state = "awaiting_approval" /\ row.state = "awaiting_approval"
        /\ s.obj.state \in {"queued", "failed"}

\* The worker knows the state of its job's row.
ExecutorHolds(s, row) ==
    /\ s.pc = "claiming" =>
        s.loaded.state = row.state /\ row.state \in {"queued", "running", "retrying"}
    /\ s.pc \in {"claimed", "executing"} => row.state = "running"
    /\ s.pc = "executing" => s.loaded.state = "running"

Holds(t, s, row) ==
    (t \in Requests => DeciderHolds(s, row)) /\ (t \in Workers => ExecutorHolds(s, row))

OrderInv == SoleInv /\ \A t \in Threads : Holds(t, thread[t], job[thread[t].job])

Moves ==
    \A j \in Jobs :
        job'[j].state # job[j].state => <<job[j].state, job'[j].state>> \in Lifecycle

Working == {"writing", "claiming", "claimed", "executing"}

LEMMA OrderTypes ==
    ASSUME SoleInv
    PROVE  /\ job \in [Jobs -> Row] /\ thread \in [Threads -> Session]
           /\ \A t \in Threads : thread[t].pc \in Working => thread[t].job \in Jobs
           /\ Workers \subseteq Threads /\ Requests \subseteq Threads
           /\ \A t \in Workers : t \notin Requests
  BY BusySession, JobQueueAssumption DEF SoleInv, QInv, TypeOK, Session, Threads, Working, SessionFits

\* A session that does nothing holds nothing.
LEMMA RestingHolds ==
    ASSUME NEW t, NEW s, s.pc \notin Working, NEW row
    PROVE  Holds(t, s, row)
  BY DEF Holds, DeciderHolds, ExecutorHolds, Working

\* A step of one session that moves at most one job, which no other session works on.
LEMMA OneMoves ==
    ASSUME OrderInv, SoleInv', NEW t \in Threads, NEW j \in Jobs,
           \A k \in Jobs \ {j} : job'[k].state = job[k].state,
           \A u \in Threads \ {t} : thread'[u] = thread[u],
           Holds(t, thread'[t], job'[thread'[t].job]),
           \/ job'[j].state = job[j].state
           \/ /\ <<job[j].state, job'[j].state>> \in Lifecycle
              /\ \A u \in Threads \ {t} : thread[u].pc \in Working => thread[u].job # j
    PROVE  OrderInv' /\ Moves
<1>1. Moves
  BY DEF Moves
<1>2. ASSUME NEW u \in Threads \ {t}
      PROVE  Holds(u, thread'[u], job'[thread'[u].job])
  <2>1. Holds(u, thread[u], job[thread[u].job]) /\ thread'[u] = thread[u]
    BY DEF OrderInv
  <2>2. CASE thread[u].pc \notin Working
    BY <2>1, <2>2, RestingHolds
  <2>3. CASE thread[u].pc \in Working
    <3>1. thread[u].job \in Jobs
      BY <2>3, OrderTypes DEF OrderInv
    <3>2. job'[thread[u].job].state = job[thread[u].job].state
      BY <2>3, <3>1
    <3> QED
      BY <2>1, <3>2 DEF Holds, DeciderHolds, ExecutorHolds
  <2> QED
    BY <2>2, <2>3
<1>3. \A u \in Threads : Holds(u, thread'[u], job'[thread'[u].job])
  BY <1>2
<1> QED
  BY <1>1, <1>3 DEF OrderInv

\* The sessions of a step that moves no job.
LEMMA NobodyMoves ==
    ASSUME OrderInv, SoleInv', NEW t \in Threads,
           \A k \in Jobs : job'[k].state = job[k].state,
           \A u \in Threads \ {t} : thread'[u] = thread[u],
           thread'[t] = thread[t] \/ Holds(t, thread'[t], job'[thread'[t].job])
    PROVE  OrderInv' /\ Moves
<1>1. Moves
  BY DEF Moves
<1>2. ASSUME NEW u \in Threads, thread'[u] = thread[u]
      PROVE  Holds(u, thread'[u], job'[thread'[u].job])
  <2>1. Holds(u, thread[u], job[thread[u].job])
    BY DEF OrderInv
  <2>2. CASE thread[u].pc \notin Working
    BY <1>2, <2>2, RestingHolds
  <2>3. CASE thread[u].pc \in Working
    <3>1. thread[u].job \in Jobs
      BY <2>3, OrderTypes DEF OrderInv
    <3> QED
      BY <1>2, <2>1, <3>1 DEF Holds, DeciderHolds, ExecutorHolds
  <2> QED
    BY <2>2, <2>3
<1>3. \A u \in Threads : Holds(u, thread'[u], job'[thread'[u].job])
  BY <1>2
<1> QED
  BY <1>1, <1>3 DEF OrderInv

\* The worker commits: the row takes the state of its object.
LEMMA WorkerMoves ==
    ASSUME OneDecider, OrderInv, SoleInv', NEW w \in Workers, thread[w].pc \in {"claiming", "executing"},
           NEW obj \in Object, NEW pc \in {"idle", "claimed", "executing"}, Commit(w, obj, pc),
           pc # "idle" => obj.state = "running",
           thread[w].pc = "claiming" => pc # "idle",
           obj.state \in {"running", "completed", "retrying", "failed", "awaiting_approval"}
    PROVE  OrderInv' /\ Moves
<1> DEFINE s == thread[w]
           new == Flushed(job[s.job], s.loaded, obj)
           held == IF pc = "idle" THEN Idle
                   ELSE [pc |-> pc, job |-> s.job, loaded |-> Stamped(obj), obj |-> Stamped(obj)]
<1>1. w \in Threads /\ w \notin Requests /\ (\A v \in Workers : v = w) /\ s.job \in Jobs
      /\ job \in [Jobs -> Row] /\ thread \in [Threads -> Session]
  BY OrderTypes DEF OneDecider, OneWorker, OrderInv, Working
<1>2. s.loaded \in Row /\ job[s.job] \in Row
  BY <1>1 DEF Session
<1>3. new.state = IF obj.state # s.loaded.state THEN obj.state ELSE job[s.job].state
  BY <1>2, FlushedColumns
<1>4. job' = [job EXCEPT ![s.job] = new] /\ thread' = [thread EXCEPT ![w] = held]
  BY DEF Commit
<1> HIDE DEF new
<1>5. ExecutorHolds(s, job[s.job])
  BY <1>1 DEF OrderInv, Holds
<1>6. new.state = obj.state /\ job[s.job].state \in {"queued", "running", "retrying"}
      /\ (s.pc = "executing" => job[s.job].state = "running")
  BY <1>3, <1>5 DEF ExecutorHolds
<1>7. PICK j \in Jobs : j = s.job
  BY <1>1
<1>8. <<job[j].state, obj.state>> \in Lifecycle \/ job[j].state = obj.state
  BY <1>6, <1>7 DEF Lifecycle
<1>9. job'[j].state = obj.state /\ \A k \in Jobs \ {j} : job'[k].state = job[k].state
  BY <1>1, <1>4, <1>6, <1>7
<1>10. thread'[w] = held /\ \A u \in Threads \ {w} : thread'[u] = thread[u]
  BY <1>1, <1>4
<1>11. ASSUME NEW u \in Threads \ {w}, thread[u].pc \in Working
       PROVE  thread[u].job # j
  <2>1. u \in Requests /\ Holds(u, thread[u], job[thread[u].job]) /\ thread[u].pc = "writing"
    BY <1>1, <1>11 DEF Threads, OrderInv, SoleInv, RequestHolds, Working
  <2> QED
    BY <1>6, <1>7, <2>1 DEF Holds, DeciderHolds
<1>12. Holds(w, thread'[w], job'[thread'[w].job])
  <2>1. CASE pc = "idle"
    BY <1>10, <2>1, IdleSessions, RestingHolds DEF Working
  <2>2. CASE pc # "idle"
    <3>1. thread'[w].pc = pc /\ thread'[w].job = j /\ thread'[w].loaded.state = obj.state
      BY <1>7, <1>10, <2>2, StampedObject
    <3> QED
      BY <1>1, <1>9, <2>2, <3>1 DEF Holds, ExecutorHolds
  <2> QED
    BY <2>1, <2>2
<1> QED
  BY <1>1, <1>8, <1>9, <1>10, <1>11, <1>12, OneMoves

LEMMA WorkerStepMoves ==
    ASSUME OneDecider, OrderInv, SoleInv', NEW w \in Workers, WorkerStep(w)
    PROVE  OrderInv' /\ Moves
<1> DEFINE s == thread[w]
           obj == s.obj
<1>1. /\ w \in Threads /\ w \notin Requests
      /\ job \in [Jobs -> Row] /\ thread \in [Threads -> Session]
  BY OrderTypes DEF OrderInv
<1>2. obj \in Object /\ (s.pc \in {"claiming", "claimed", "executing"} => obj.state = "running" /\ s.job \in Jobs)
      /\ ExecutorHolds(s, job[s.job])
  BY <1>1, OrderTypes DEF Session, OrderInv, SoleInv, WorkerHolds, Holds, Working
<1>3. CASE ClaimRead(w)
  <2>1. PICK j \in Jobs :
        /\ Claimable(job[j])
        /\ thread' = [thread EXCEPT ![w] =
                [pc |-> "claiming", job |-> j, loaded |-> job[j], obj |-> Claimed(job[j])]]
    BY <1>3 DEF ClaimRead
  <2>2. UNCHANGED job /\ job[j].state \in {"queued", "running", "retrying"}
    BY <1>3, <2>1 DEF ClaimRead, Claimable
  <2>3. Holds(w, thread'[w], job'[thread'[w].job])
    BY <1>1, <2>1, <2>2 DEF Holds, ExecutorHolds
  <2>4. \A u \in Threads \ {w} : thread'[u] = thread[u]
    BY <1>1, <2>1
  <2> QED
    BY <1>1, <2>2, <2>3, <2>4, NobodyMoves
<1>4. CASE ClaimCommit(w)
  <2>1. s.pc = "claiming" /\ Commit(w, obj, "claimed")
    BY <1>4 DEF ClaimCommit
  <2> QED
    BY <1>2, <2>1, WorkerMoves
<1>5. CASE Merge(w)
  <2>1. s.pc = "claimed" /\ UNCHANGED job
        /\ thread' = [thread EXCEPT ![w] = [s EXCEPT !.pc = "executing", !.loaded = job[s.job]]]
    BY <1>1, <1>5 DEF Merge
  <2>2. thread'[w].pc = "executing" /\ thread'[w].job = s.job /\ thread'[w].loaded = job[s.job]
        /\ \A u \in Threads \ {w} : thread'[u] = thread[u]
    BY <1>1, <2>1 DEF Session
  <2>3. Holds(w, thread'[w], job'[thread'[w].job])
    BY <1>1, <1>2, <2>1, <2>2 DEF Holds, ExecutorHolds
  <2> QED
    BY <1>1, <2>1, <2>2, <2>3, NobodyMoves
<1>6. CASE Checkpoint(w)
  <2>1. s.pc = "executing" /\ Commit(w, obj, "executing")
    BY <1>6 DEF Checkpoint
  <2> QED
    BY <1>2, <2>1, WorkerMoves
<1>7. ASSUME NEW st \in {"completed", "retrying", "failed", "awaiting_approval"}, NEW new \in Object,
             new.state = st, s.pc = "executing", Commit(w, new, "idle")
      PROVE  OrderInv' /\ Moves
  BY <1>7, WorkerMoves
<1>8. CASE Complete(w)
  <2> DEFINE new == [obj EXCEPT !.state = "completed"]
  <2>1. new \in Object /\ new.state = "completed"
    BY <1>2 DEF Object, JobStates
  <2>2. s.pc = "executing" /\ Commit(w, new, "idle")
    BY <1>8 DEF Complete
  <2> HIDE DEF new
  <2> QED
    BY <1>7, <2>1, <2>2
<1>9. CASE Fail(w)
  <2> DEFINE st == IF obj.attempts < MaxAttempts THEN "retrying" ELSE "failed"
             new == [obj EXCEPT !.state = st, !.hb = "null"]
  <2>1. st \in {"retrying", "failed"} /\ s.pc = "executing" /\ Commit(w, new, "idle")
    BY <1>9 DEF Fail
  <2> HIDE DEF st
  <2>2. new \in Object /\ new.state = st
    BY <1>2, <2>1 DEF Object, JobStates, Heartbeats
  <2> HIDE DEF new
  <2> QED
    BY <1>7, <2>1, <2>2
<1>10. CASE Park(w)
  <2> PICK hb \in {obj.hb, "now"} :
          Commit(w, [obj EXCEPT !.state = "awaiting_approval", !.hb = hb], "idle")
    BY <1>10 DEF Park
  <2> DEFINE new == [obj EXCEPT !.state = "awaiting_approval", !.hb = hb]
  <2>1. hb \in Heartbeats \cup {"now"} /\ "awaiting_approval" \in JobStates
    BY <1>2 DEF Object, JobStates
  <2>2. new \in Object /\ new.state = "awaiting_approval"
    BY <1>2, <2>1 DEF Object
  <2>3. s.pc = "executing" /\ Commit(w, new, "idle")
    BY <1>10 DEF Park
  <2> HIDE DEF new
  <2> QED
    BY <1>7, <2>2, <2>3
<1> QED
  BY <1>3, <1>4, <1>5, <1>6, <1>8, <1>9, <1>10 DEF WorkerStep, Outcome

\* A decision is read, and committed while the job still waits for it.
LEMMA RequestMoves ==
    ASSUME OneDecider, OrderInv, SoleInv', NEW r \in Requests,
           RequestStep(r) \/ \E j \in Jobs : Request(r, j)
    PROVE  OrderInv' /\ Moves
<1>1. /\ r \in Threads /\ r \notin Workers /\ (\A q \in Requests : q = r)
      /\ job \in [Jobs -> Row] /\ thread \in [Threads -> Session]
      /\ RequestHolds(thread[r]) /\ DeciderHolds(thread[r], job[thread[r].job])
  BY OrderTypes DEF OneDecider, OrderInv, SoleInv, Holds
<1>2. CASE RequestStep(r)
  <2> DEFINE s == thread[r]
             new == Flushed(job[s.job], s.loaded, s.obj)
  <2>1. WriteCommit(r)
    BY <1>1, <1>2 DEF RequestStep, RequestHolds, RunRequeue, ClaimCommit, Outcome, Complete, Fail, Park
  <2>2. /\ s.pc = "writing" /\ job' = [job EXCEPT ![s.job] = new]
        /\ thread' = [thread EXCEPT ![r] = Idle]
    BY <2>1 DEF WriteCommit, Commit
  <2>3. s.job \in Jobs /\ s.loaded \in Row /\ s.obj \in Object /\ job[s.job] \in Row
    BY <1>1, <2>2, OrderTypes DEF Session, OrderInv, Working
  <2>4. new.state = s.obj.state
    BY <1>1, <2>2, <2>3, FlushedColumns DEF DeciderHolds
  <2> HIDE DEF new
  <2>5. PICK j \in Jobs : j = s.job
    BY <2>3
  <2>6. /\ job[j].state = "awaiting_approval" /\ job'[j].state \in {"queued", "failed"}
        /\ \A k \in Jobs \ {j} : job'[k].state = job[k].state
    BY <1>1, <2>2, <2>4, <2>5 DEF DeciderHolds
  <2>7. \A u \in Threads \ {r} : thread'[u] = thread[u]
    BY <1>1, <2>2
  <2>8. Holds(r, thread'[r], job'[thread'[r].job])
    BY <1>1, <2>2, IdleSessions, RestingHolds DEF Working
  <2>9. ASSUME NEW u \in Threads \ {r}, thread[u].pc \in Working
        PROVE  thread[u].job # j
    <3>1. u \in Workers /\ WorkerHolds(thread[u], job[thread[u].job])
      BY <1>1 DEF Threads, OrderInv, SoleInv
    <3> QED
      BY <2>6, <2>9, <3>1 DEF WorkerHolds, Working
  <2>10. <<job[j].state, job'[j].state>> \in Lifecycle
    BY <2>6 DEF Lifecycle
  <2> QED
    BY <1>1, <2>6, <2>7, <2>8, <2>9, <2>10, OneMoves
<1>3. ASSUME NEW j \in Jobs, Request(r, j)
      PROVE  OrderInv' /\ Moves
  <2>1. PICK decision : DecideRead(r, j, decision)
    BY <1>3 DEF Request, CancelRead, RunRead, OneDecider
  <2>2. PICK obj : /\ obj = IF decision = "approved"
                            THEN [job[j] EXCEPT !.state = "queued", !.hb = "null"]
                            ELSE [job[j] EXCEPT !.state = "failed"]
                   /\ Load(r, j, obj, "writing") /\ job[j].state = "awaiting_approval"
    BY <2>1 DEF DecideRead
  <2>3. obj.state \in {"queued", "failed"}
    BY <1>1, <2>2 DEF Row
  <2>4. /\ thread' = [thread EXCEPT ![r] = [pc |-> "writing", job |-> j, loaded |-> job[j], obj |-> obj]]
        /\ UNCHANGED job
    BY <2>2 DEF Load
  <2>5. Holds(r, thread'[r], job'[thread'[r].job])
    BY <1>1, <2>2, <2>3, <2>4 DEF Holds, DeciderHolds
  <2>6. \A u \in Threads \ {r} : thread'[u] = thread[u]
    BY <1>1, <2>4
  <2> QED
    BY <1>1, <2>4, <2>5, <2>6, NobodyMoves
<1> QED
  BY <1>2, <1>3

LEMMA OrderStep == OneDecider /\ OrderInv /\ [Next]_vars => OrderInv' /\ Moves
<1> SUFFICES ASSUME OneDecider, OrderInv, [Next]_vars PROVE OrderInv' /\ Moves
  OBVIOUS
<1>1. SoleInv' /\ OneWorker
  BY SoleStep DEF OneDecider, OrderInv
<1>2. PICK w : w \in Workers /\ w \in Threads
  BY OrderTypes DEF OrderInv, OneDecider, OneWorker
<1>3. job \in [Jobs -> Row] /\ thread \in [Threads -> Session]
  BY OrderTypes DEF OrderInv
<1>4. ASSUME NEW v \in Workers, WorkerStep(v) PROVE OrderInv' /\ Moves
  BY <1>1, <1>4, WorkerStepMoves
<1>5. ASSUME NEW r \in Requests, RequestStep(r) \/ \E j \in Jobs : Request(r, j)
      PROVE  OrderInv' /\ Moves
  BY <1>1, <1>5, RequestMoves
<1>6. ASSUME NEW j \in Jobs, CreateJob(j) PROVE OrderInv' /\ Moves
  <2>1. /\ job[j].state = "absent" /\ job'[j].state = "queued" /\ thread' = thread
        /\ \A k \in Jobs \ {j} : job'[k].state = job[k].state
    BY <1>3, <1>6 DEF CreateJob, Row
  <2>2. ASSUME NEW u \in Threads, thread[u].pc \in Working
        PROVE  thread[u].job # j
    <3>1. Holds(u, thread[u], job[thread[u].job])
      BY DEF OrderInv
    <3>2. (u \in Requests /\ thread[u].pc = "writing") \/ (u \in Workers /\ thread[u].pc # "writing")
      BY <2>2 DEF Threads, OrderInv, SoleInv, RequestHolds, WorkerHolds, Working
    <3> QED
      BY <2>1, <2>2, <3>1, <3>2 DEF Holds, DeciderHolds, ExecutorHolds, Working
  <2>3. Holds(w, thread'[w], job'[thread'[w].job])
    <3>1. CASE thread[w].pc \in Working
      <4>1. thread[w].job \in Jobs \ {j} /\ Holds(w, thread[w], job[thread[w].job])
        BY <1>2, <2>2, <3>1, OrderTypes DEF OrderInv
      <4> QED
        BY <2>1, <4>1 DEF Holds, DeciderHolds, ExecutorHolds
    <3>2. CASE thread[w].pc \notin Working
      BY <2>1, <3>2, RestingHolds
    <3> QED
      BY <3>1, <3>2
  <2>4. <<job[j].state, job'[j].state>> \in Lifecycle
    BY <2>1 DEF Lifecycle
  <2> QED
    BY <1>1, <1>2, <2>1, <2>2, <2>3, <2>4, OneMoves
<1>7. ASSUME NEW j \in Jobs, NEW hb, job' = [job EXCEPT ![j].hb = hb]
      PROVE  \A k \in Jobs : job'[k].state = job[k].state
  BY <1>3, <1>7 DEF Row
<1>8. CASE \/ \E j \in Jobs : Age(j)
           \/ \E v \in Workers : BeatRead(v) \/ BeatWrite(v)
  <2>1. beat \in [Workers -> Jobs \cup {NoJob}]
    BY DEF OrderInv, SoleInv, QInv, TypeOK
  <2>2. (\A k \in Jobs : job'[k].state = job[k].state) /\ thread' = thread
    BY <1>7, <1>8, <2>1 DEF Age, BeatRead, BeatWrite
  <2> QED
    BY <1>1, <1>2, <2>2, NobodyMoves
<1>9. ASSUME NEW t \in Threads, StartWorker(t) \/ Crash(t) \/ LoseSession(t)
      PROVE  OrderInv' /\ Moves
  <2>1. PICK held \in {Idle, Down} : thread' = [thread EXCEPT ![t] = held]
    BY <1>9 DEF StartWorker, Crash, LoseSession
  <2>2. held.pc \notin Working /\ UNCHANGED job
    BY <1>9, IdleSessions DEF StartWorker, Crash, LoseSession, Working
  <2>3. thread'[t] = held /\ \A u \in Threads \ {t} : thread'[u] = thread[u]
    BY <1>3, <2>1
  <2>4. Holds(t, thread'[t], job'[thread'[t].job])
    BY <2>2, <2>3, RestingHolds
  <2> QED
    BY <1>1, <2>2, <2>3, <2>4, NobodyMoves
<1>10. CASE UNCHANGED vars
  <2>1. job' = job /\ thread' = thread
    BY <1>10 DEF vars
  <2> QED
    BY <1>1, <1>2, <2>1, NobodyMoves
<1> QED
  BY <1>4, <1>5, <1>6, <1>8, <1>9, <1>10 DEF Next, Threads

\* With one worker and one decision at a time, every commit moves a job along an edge of
\* the documented lifecycle, across crashes, reclaims and approvals (docs/WORKFLOW.md:5-11).
THEOREM LifecycleHolds == ASSUME OneDecider PROVE Spec => LifecycleFollowed
<1>1. Init => OrderInv
  <2> SUFFICES ASSUME Init PROVE OrderInv
    OBVIOUS
  <2>1. SoleInv
    BY SoleStart
  <2>2. \A t \in Threads : thread[t].pc \notin Working
    BY IdleSessions DEF Init, Working
  <2> QED
    BY <2>1, <2>2, RestingHolds DEF OrderInv
<1>2. OrderInv /\ [Next]_vars => OrderInv' /\ [Moves]_vars
  BY OrderStep
<1> QED
  BY <1>1, <1>2, PTL DEF Spec, LifecycleFollowed, Moves
=============================================================================
