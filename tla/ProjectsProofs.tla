--------------------------- MODULE ProjectsProofs ---------------------------
(***************************************************************************)
(* Proofs about Projects, for any number of projects, requests, keys and   *)
(* uploads, any estimate, limit and mix of operations.                     *)
(***************************************************************************)
EXTENDS Projects, FiniteSetTheorems, SequenceTheorems, TLAPS

-----------------------------------------------------------------------------
(* The invariant                                                           *)

FileRows == [project : ProjectIds, no : 1 .. MaxUploads]
JobRows ==
    [project : ProjectIds, key : Keys \cup {"none"}, state : JobStates, late : SUBSET Requests]
Actions  == {"submit_review", "approve", "request_changes", "comment"}

\* What a request holds between its steps.
JobRequest    == [pc : {"checked", "inserting"}, project : ProjectIds, key : Keys \cup {"none"}]
DeleteRequest == [pc : {"deleting"}, project : ProjectIds]
UploadRequest == [pc : {"validating"}, file : FileRows, content : Contents]
ReviseRequest == [pc : {"revising"}, project : ProjectIds, count : Nat]
ReviewRequest == [pc : {"reviewing"}, action : Actions, loaded : Statuses \cup {"unset"}]
AnyRequest    == {Idle} \cup JobRequest \cup DeleteRequest \cup UploadRequest \cup ReviseRequest
                 \cup ReviewRequest

Typed ==
    /\ project \subseteq created /\ created \subseteq ProjectIds
    /\ jobs \in Seq(JobRows)
    /\ budgets \subseteq ProjectIds \cup {"tenant"}
    /\ spent \in Nat
    /\ files \subseteq FileRows
    /\ assets \subseteq [file : FileRows, content : Contents]
    /\ revisions \in [ProjectIds -> Seq([version : Nat, count : Nat])]
    /\ status \in Statuses \cup {"unset"}
    /\ req \in [Requests -> AnyRequest]

\* Requests whose budget was checked and whose job is not inserted yet.
InFlight == {r \in Requests : req[r].pc \in {"checked", "inserting"}}

\* Every job in the table or on its way to it was admitted by the bound.
JobsBounded == Len(jobs) + Cardinality(InFlight) <= MaxJobs + Cardinality(Requests)

\* The unique key of jobs, and what the clients were told of it.
KeysUnique == \A n, m \in DOMAIN jobs : jobs[n].key = jobs[m].key /\ jobs[n].key # "none" => n = m

ToldOfTheJob ==
    \A x \in told : \E n \in DOMAIN jobs : x = <<jobs[n].key, n>> /\ jobs[n].key # "none"

\* A job over the limit belongs to a project whose budget is used up: the request that
\* inserted it is not admitted for that project again.
LateOnce ==
    /\ \A n \in DOMAIN jobs : \A r \in jobs[n].late :
        Exceeded(jobs[n].project) /\ (r \in InFlight => req[r].project # jobs[n].project)
    /\ \A n, m \in DOMAIN jobs :
        jobs[n].project = jobs[m].project /\ jobs[n].late \cap jobs[m].late # {} => n = m

\* The file of an upload that is not finished is nobody else's.
FilesApart ==
    /\ \A f, g \in files : f.no = g.no => f = g
    /\ \A r \in Requests : req[r].pc = "validating" =>
        /\ req[r].file \in files
        /\ \A a \in assets : a.file # req[r].file
        /\ \A q \in Requests : req[q].pc = "validating" /\ req[q].file = req[r].file => q = r

\* A revision is numbered by the revisions its author had counted, all of them before it.
CountsBehind ==
    /\ \A p \in ProjectIds : \A n \in DOMAIN revisions[p] :
        revisions[p][n].version = revisions[p][n].count + 2 /\ revisions[p][n].count < n
    /\ \A r \in Requests : req[r].pc = "revising" => req[r].count <= Len(revisions[req[r].project])

JobsInv  == JobsBounded /\ KeysUnique /\ ToldOfTheJob /\ LateOnce /\ NoOrphanJobs
FilesInv == FilesApart /\ AssetsKeepTheirFiles
PInv     == Typed /\ JobsInv /\ FilesInv /\ CountsBehind

-----------------------------------------------------------------------------
(* Lemmas about requests                                                   *)

\* What the state of a request says it holds.
LEMMA HeldByState ==
    ASSUME Typed, NEW r \in Requests
    PROVE  /\ req[r].pc \in {"checked", "inserting"} => req[r] \in JobRequest
           /\ req[r].pc = "deleting" => req[r] \in DeleteRequest
           /\ req[r].pc = "validating" => req[r] \in UploadRequest
           /\ req[r].pc = "revising" => req[r] \in ReviseRequest
           /\ req[r].pc = "reviewing" => req[r] \in ReviewRequest
  BY DEF Typed, AnyRequest, Idle, JobRequest, DeleteRequest, UploadRequest, ReviseRequest,
         ReviewRequest

\* A step of one request leaves the others alone.
LEMMA OneRequestChanges ==
    ASSUME Typed, NEW r \in Requests, NEW held, req' = [req EXCEPT ![r] = held]
    PROVE  /\ req'[r] = held
           /\ \A q \in Requests \ {r} : req'[q] = req[q]
           /\ held \in AnyRequest => req' \in [Requests -> AnyRequest]
  BY DEF Typed

LEMMA RequestEnds ==
    ASSUME Typed, NEW r \in Requests, Ends(r)
    PROVE  /\ req'[r] = Idle /\ req'[r].pc = "idle"
           /\ \A q \in Requests \ {r} : req'[q] = req[q]
           /\ req' \in [Requests -> AnyRequest]
<1>1. Idle \in AnyRequest /\ Idle.pc = "idle"
  BY DEF AnyRequest, Idle
<1> QED
  BY <1>1, OneRequestChanges DEF Ends

\* The number of requests in flight, and what becomes of it when one of them ends.
LEMMA FlightCounts ==
    /\ IsFiniteSet(InFlight) /\ IsFiniteSet(InFlight')
    /\ Cardinality(InFlight') \in Nat /\ Cardinality(InFlight) \in Nat
    /\ Cardinality(Requests) \in Nat
    /\ Cardinality(InFlight') <= Cardinality(Requests)
    /\ InFlight' \subseteq InFlight => Cardinality(InFlight') <= Cardinality(InFlight)
<1>1. IsFiniteSet(Requests) /\ Cardinality(Requests) \in Nat
  BY ProjectsAssumption, FS_CardinalityType DEF ProjectsAssumption
<1>2. InFlight \subseteq Requests /\ InFlight' \subseteq Requests
  BY DEF InFlight
<1>3. IsFiniteSet(InFlight) /\ IsFiniteSet(InFlight')
  BY <1>1, <1>2, FS_Subset
<1> QED
  BY <1>1, <1>2, <1>3, FS_Subset, FS_CardinalityType

LEMMA FlightEnds ==
    ASSUME NEW r \in InFlight, InFlight' \subseteq InFlight \ {r}
    PROVE  Cardinality(InFlight') <= Cardinality(InFlight) - 1
<1>1. IsFiniteSet(InFlight \ {r}) /\ Cardinality(InFlight \ {r}) = Cardinality(InFlight) - 1
  BY FlightCounts, FS_RemoveElement
<1> QED
  BY <1>1, FS_Subset

-----------------------------------------------------------------------------
(* Jobs                                                                    *)

LEMMA GreaterSum ==
    ASSUME NEW a \in Nat, NEW b \in Nat, NEW c \in Nat, NEW d \in Nat, a <= b, a + c > d
    PROVE  b + c > d
  OBVIOUS

\* A used up budget stays used up: budgets are only added, costs only grow.
LEMMA ExceededStays ==
    ASSUME NEW p, spent \in Nat, spent' \in Nat, spent <= spent', budgets \subseteq budgets',
           Exceeded(p)
    PROVE  Exceeded(p)'
<1>1. spent' + Estimate > Limit
  <2>1. Estimate \in Nat /\ Limit \in Nat
    BY ProjectsAssumption DEF ProjectsAssumption
  <2>2. spent + Estimate > Limit
    BY DEF Exceeded
  <2> QED
    BY <2>1, <2>2, GreaterSum
<1>2. budgets' \cap {"tenant", p} # {}
  BY DEF Exceeded
<1> QED
  BY <1>1, <1>2 DEF Exceeded

\* A step that leaves the rows of jobs alone, and lets nobody enter.
LEMMA JobsLeftAlone ==
    ASSUME Typed, JobsInv, UNCHANGED <<jobs, told>>,
           budgets \subseteq budgets', spent' \in Nat, spent <= spent',
           \A q \in InFlight' : q \in InFlight /\ req'[q].project = req[q].project,
           NoOrphanJobs'
    PROVE  JobsInv'
<1>1. JobsBounded'
  <2>1. InFlight' \subseteq InFlight
    OBVIOUS
  <2>2. Len(jobs) \in Nat /\ MaxJobs \in Nat
    BY ProjectsAssumption DEF ProjectsAssumption, Typed
  <2> QED
    BY <2>1, <2>2, FlightCounts DEF JobsInv, JobsBounded
<1>2. KeysUnique' /\ ToldOfTheJob'
  BY DEF JobsInv, KeysUnique, ToldOfTheJob
<1>3. LateOnce'
  <2>1. \A n \in DOMAIN jobs : \A q \in jobs[n].late : Exceeded(jobs[n].project)'
    BY ExceededStays DEF Typed, JobsInv, LateOnce
  <2> QED
    BY <2>1 DEF JobsInv, LateOnce, Exceeded
<1> QED
  BY <1>1, <1>2, <1>3 DEF JobsInv

\* A row of jobs that moves to another state keeps its other columns.
LEMMA JobMoves ==
    ASSUME Typed, JobsInv, NEW n \in DOMAIN jobs, NEW s \in JobStates,
           jobs' = [jobs EXCEPT ![n].state = s],
           UNCHANGED <<told, req, budgets, revisions, project>>, spent' \in Nat, spent <= spent'
    PROVE  /\ jobs' \in Seq(JobRows)
           /\ JobsInv'
           /\ \A k : WithKey(k)' = WithKey(k)
<1>1. /\ Len(jobs') = Len(jobs) /\ DOMAIN jobs' = DOMAIN jobs
      /\ \A m \in DOMAIN jobs : /\ jobs'[m].project = jobs[m].project /\ jobs'[m].key = jobs[m].key
                                /\ jobs'[m].late = jobs[m].late
  <2>1. jobs \in Seq(JobRows) /\ jobs[n] \in JobRows
    BY DEF Typed
  <2>2. DOMAIN jobs[n] = {"project", "key", "state", "late"}
    BY <2>1 DEF JobRows
  <2> QED
    BY <2>1, <2>2
<1>2. jobs' \in Seq(JobRows)
  <2> DEFINE row == [jobs[n] EXCEPT !.state = s]
  <2>1. jobs \in Seq(JobRows) /\ jobs[n] \in JobRows
    BY DEF Typed
  <2>2. row \in JobRows
    BY <2>1 DEF JobRows
  <2>3. jobs' = [jobs EXCEPT ![n] = row]
    OBVIOUS
  <2> HIDE DEF row
  <2> QED
    BY <2>1, <2>2, <2>3
<1>3. InFlight' = InFlight
  BY DEF InFlight
<1>4. JobsBounded'
  BY <1>1, <1>3 DEF JobsInv, JobsBounded
<1>5. KeysUnique' /\ ToldOfTheJob'
  BY <1>1 DEF JobsInv, KeysUnique, ToldOfTheJob
<1>6. LateOnce'
  <2>1. \A m \in DOMAIN jobs : \A q \in jobs[m].late : Exceeded(jobs[m].project)'
    BY ExceededStays DEF Typed, JobsInv, LateOnce
  <2> QED
    BY <1>1, <1>3, <2>1 DEF JobsInv, LateOnce, Exceeded
<1>7. NoOrphanJobs'
  BY <1>1 DEF JobsInv, NoOrphanJobs
<1>8. \A k : WithKey(k)' = WithKey(k)
  BY <1>1 DEF WithKey
<1> QED
  BY <1>2, <1>4, <1>5, <1>6, <1>7, <1>8 DEF JobsInv

\* check_budget lets a request begin only for a project whose budgets have room.
LEMMA CheckBudgetKeeps ==
    ASSUME PInv, NEW r \in Requests, NEW p \in ProjectIds, NEW key \in Keys \cup {"none"},
           CheckBudget(r, p, key)
    PROVE  JobsInv'
<1> USE DEF PInv, CheckBudget, Hold, rows
<1>1. /\ req'[r] = [pc |-> "checked", project |-> p, key |-> key]
      /\ \A q \in Requests \ {r} : req'[q] = req[q]
  BY OneRequestChanges
<1>2. Cardinality(InFlight') <= Cardinality(Requests)
  BY FlightCounts
<1>3. JobsBounded'
  <2>1. Len(jobs) \in Nat /\ MaxJobs \in Nat /\ Len(jobs) < MaxJobs /\ jobs' = jobs
    BY ProjectsAssumption DEF ProjectsAssumption, Typed
  <2> QED
    BY <1>2, <2>1, FlightCounts DEF JobsBounded
<1>4. KeysUnique' /\ ToldOfTheJob' /\ NoOrphanJobs'
  BY DEF JobsInv, KeysUnique, ToldOfTheJob, NoOrphanJobs
<1>5. ~Exceeded(p)
  BY ProjectsAssumption DEF ProjectsAssumption, Exceeded, Allowed, Typed
<1>6. LateOnce'
  BY <1>1, <1>5 DEF JobsInv, LateOnce, InFlight, Exceeded
<1> QED
  BY <1>3, <1>4, <1>6 DEF JobsInv

\* The row that create_job inserts.
NewJob(r) == [project |-> req[r].project, key |-> req[r].key, state |-> "queued",
              late |-> {q \in {r} : Exceeded(req[r].project)}]

LEMMA InsertedRow ==
    ASSUME PInv, NEW r \in Requests, InsertJob(r), Insertable(r)
    PROVE  /\ jobs' = Append(jobs, NewJob(r)) /\ NewJob(r) \in JobRows
           /\ jobs' \in Seq(JobRows) /\ Len(jobs') = Len(jobs) + 1
           /\ DOMAIN jobs' = DOMAIN jobs \cup {Len(jobs) + 1}
           /\ \A n \in DOMAIN jobs : jobs'[n] = jobs[n] /\ n # Len(jobs) + 1
           /\ jobs'[Len(jobs) + 1] = NewJob(r)
<1>1. jobs' = Append(jobs, NewJob(r))
  BY DEF InsertJob, NewJob
<1>2. NewJob(r) \in JobRows
  BY HeldByState DEF PInv, InsertJob, NewJob, JobRows, JobRequest, JobStates
<1>3. jobs \in Seq(JobRows)
  BY DEF PInv, Typed
<1> HIDE DEF NewJob
<1> QED
  BY <1>1, <1>2, <1>3

\* The loser of a race for the key, and a request without a project, insert nothing.
LEMMA InsertJobKeeps ==
    ASSUME PInv, NEW r \in Requests, InsertJob(r)
    PROVE  JobsInv' /\ jobs' \in Seq(JobRows)
<1> USE DEF PInv, Ends
<1>1. /\ req'[r] = Idle
      /\ \A q \in Requests \ {r} : req'[q] = req[q]
  BY OneRequestChanges DEF InsertJob
<1>2. r \in InFlight /\ InFlight' \subseteq InFlight \ {r}
  BY <1>1 DEF InFlight, InsertJob, Idle
<1>3. \A q \in InFlight' : q \in InFlight /\ req'[q].project = req[q].project
  BY <1>1, <1>2 DEF InFlight
<1>4. CASE ~Insertable(r)
  <2>1. UNCHANGED <<jobs, project, revisions, budgets, spent>>
    BY <1>4 DEF InsertJob
  <2>2. JobsBounded'
    <3>1. Len(jobs) \in Nat /\ MaxJobs \in Nat
      BY ProjectsAssumption DEF ProjectsAssumption, Typed
    <3> QED
      BY <2>1, <3>1, <1>2, FlightCounts, FlightEnds DEF JobsInv, JobsBounded
  <2>5. KeysUnique' /\ NoOrphanJobs'
    BY <2>1 DEF JobsInv, KeysUnique, NoOrphanJobs
  <2>3. LateOnce'
    BY <2>1, <1>3 DEF JobsInv, LateOnce, Exceeded
  <2>4. ToldOfTheJob'
    BY <2>1, <1>4 DEF InsertJob, Told, WithKey, JobsInv, ToldOfTheJob
  <2> QED
    BY <2>1, <2>2, <2>3, <2>4, <2>5 DEF JobsInv, Typed
<1>5. CASE Insertable(r)
  <2> DEFINE new == Len(jobs) + 1
  <2>1. /\ jobs' \in Seq(JobRows) /\ Len(jobs') = Len(jobs) + 1
        /\ DOMAIN jobs' = DOMAIN jobs \cup {new}
        /\ \A n \in DOMAIN jobs : jobs'[n] = jobs[n] /\ n # new
        /\ jobs'[new] = NewJob(r)
    BY <1>5, InsertedRow
  <2>2. UNCHANGED <<project, revisions, budgets, spent>>
    BY DEF InsertJob
  <2> HIDE DEF new
  <2>3. /\ NewJob(r).project = req[r].project /\ NewJob(r).key = req[r].key
        /\ NewJob(r).late \subseteq {r}
        /\ NewJob(r).late # {} => Exceeded(req[r].project)
    BY DEF NewJob
  <2>4. JobsBounded'
    <3>1. Len(jobs) \in Nat /\ MaxJobs \in Nat
      BY ProjectsAssumption DEF ProjectsAssumption, Typed
    <3> QED
      BY <2>1, <3>1, <1>2, FlightCounts, FlightEnds DEF JobsInv, JobsBounded
  <2>5. KeysUnique'
    BY <2>1, <2>3, <1>5 DEF Insertable, WithKey, JobsInv, KeysUnique
  <2>6. ToldOfTheJob'
    <3>1. told' \subseteq told \cup {<<req[r].key, new>>} /\ (req[r].key = "none" => told' = told)
      BY <1>5 DEF InsertJob, Told, new
    <3> QED
      BY <3>1, <2>1, <2>3 DEF JobsInv, ToldOfTheJob
  <2>7. NoOrphanJobs'
    BY <2>1, <2>2, <2>3, <1>5 DEF JobsInv, NoOrphanJobs, Insertable
  <2>8. LateOnce'
    <3>1. \A n \in DOMAIN jobs : r \in jobs[n].late => jobs[n].project # req[r].project
      BY <1>2 DEF JobsInv, LateOnce
    <3>3. \A n \in DOMAIN jobs' : \A q \in jobs'[n].late :
            Exceeded(jobs[n].project)' /\ (q \in InFlight' => req'[q].project # jobs'[n].project)
      <4> SUFFICES ASSUME NEW n \in DOMAIN jobs', NEW q \in jobs'[n].late
                   PROVE  /\ Exceeded(jobs[n].project)'
                          /\ q \in InFlight' => req'[q].project # jobs'[n].project
        OBVIOUS
      <4>1. CASE n = new
        BY <4>1, <2>1, <2>2, <2>3, <1>2 DEF Exceeded
      <4>2. CASE n # new
        BY <4>2, <2>1, <2>2, <1>3 DEF JobsInv, LateOnce, Exceeded
      <4> QED
        BY <4>1, <4>2
    <3>4. \A n, m \in DOMAIN jobs' :
            jobs'[n].project = jobs'[m].project /\ jobs'[n].late \cap jobs'[m].late # {} => n = m
      BY <2>1, <2>3, <3>1 DEF JobsInv, LateOnce
    <3> QED
      BY <3>3, <3>4 DEF LateOnce
  <2> QED
    BY <2>1, <2>4, <2>5, <2>6, <2>7, <2>8 DEF JobsInv
<1> QED
  BY <1>4, <1>5

-----------------------------------------------------------------------------
(* Files and revisions                                                     *)

\* A step that touches neither files nor assets, and in which no upload begins.
LEMMA FilesLeftAlone ==
    ASSUME FilesInv, UNCHANGED <<files, assets>>,
           \A q \in Requests : req'[q].pc = "validating" => req'[q] = req[q]
    PROVE  FilesInv'
  BY DEF FilesInv, FilesApart, AssetsKeepTheirFiles

\* A step that leaves the revisions alone, and in which nobody counts them.
LEMMA RevisionsLeftAlone ==
    ASSUME CountsBehind, UNCHANGED revisions,
           \A q \in Requests : req'[q].pc = "revising" => req'[q] = req[q]
    PROVE  CountsBehind'
  BY DEF CountsBehind

\* The file is new, and only this request knows of it.
LEMMA WriteFileKeeps ==
    ASSUME PInv, NEW r \in Requests, NEW p \in ProjectIds, NEW content \in Contents,
           WriteFile(r, p, content)
    PROVE  FilesInv' /\ files' \subseteq FileRows /\ req' \in [Requests -> AnyRequest]
<1> USE DEF PInv, WriteFile
<1> PICK no \in 1 .. MaxUploads :
        /\ \A f \in files : f.no # no
        /\ files' = files \cup {[project |-> p, no |-> no]}
        /\ req' = [req EXCEPT ![r] =
              [pc |-> "validating", file |-> [project |-> p, no |-> no], content |-> content]]
  OBVIOUS
<1> DEFINE file == [project |-> p, no |-> no]
           held == [pc |-> "validating", file |-> file, content |-> content]
<1>1. file \in FileRows /\ file.no = no
  BY DEF FileRows
<1>2. held \in UploadRequest /\ held.file = file /\ held.pc = "validating"
  BY <1>1 DEF UploadRequest
<1>3. files' = files \cup {file} /\ req' = [req EXCEPT ![r] = held] /\ assets' = assets
  OBVIOUS
<1> HIDE DEF file, held
<1>4. file \notin files
  BY <1>1
<1>5. /\ req'[r] = held
      /\ \A q \in Requests \ {r} : req'[q] = req[q]
      /\ req' \in [Requests -> AnyRequest]
  BY <1>2, <1>3, OneRequestChanges DEF AnyRequest
<1>6. \A f, g \in files' : f.no = g.no => f = g
  BY <1>1, <1>3 DEF FilesInv, FilesApart
<1>7. \A a \in assets : a.file # file
  BY <1>4 DEF FilesInv, AssetsKeepTheirFiles
<1>8. \A q \in Requests \ {r} : req[q].pc = "validating" => req[q].file # file
  BY <1>4 DEF FilesInv, FilesApart
<1>9. FilesApart'
  BY <1>2, <1>3, <1>5, <1>6, <1>7, <1>8 DEF FilesInv, FilesApart
<1>10. AssetsKeepTheirFiles'
  BY <1>3 DEF FilesInv, AssetsKeepTheirFiles
<1> QED
  BY <1>1, <1>3, <1>5, <1>9, <1>10 DEF FilesInv, Typed

\* The file that is removed was the request's own.
LEMMA RejectFileKeeps ==
    ASSUME PInv, NEW r \in Requests, RejectFile(r)
    PROVE  FilesInv'
<1> USE DEF PInv, RejectFile
<1>1. /\ req'[r] = Idle /\ req'[r].pc = "idle"
      /\ \A q \in Requests \ {r} : req'[q] = req[q]
  BY RequestEnds
<1>2. FilesApart'
  BY <1>1 DEF FilesInv, FilesApart
<1>3. AssetsKeepTheirFiles'
  BY DEF FilesInv, FilesApart, AssetsKeepTheirFiles
<1> QED
  BY <1>2, <1>3 DEF FilesInv

\* The file of the new asset was the request's own.
LEMMA InsertAssetKeeps ==
    ASSUME PInv, NEW r \in Requests, InsertAsset(r)
    PROVE  FilesInv' /\ assets' \subseteq [file : FileRows, content : Contents]
<1> USE DEF PInv, InsertAsset
<1> DEFINE asset == [file |-> req[r].file, content |-> req[r].content]
<1>1. /\ req'[r] = Idle /\ req'[r].pc = "idle"
      /\ \A q \in Requests \ {r} : req'[q] = req[q]
  BY RequestEnds
<1>2. asset \in [file : FileRows, content : Contents] /\ asset.file = req[r].file
  BY HeldByState DEF UploadRequest
<1>3. assets' \subseteq assets \cup {asset} /\ assets \subseteq assets' /\ files' = files
  OBVIOUS
<1> HIDE DEF asset
<1>4. /\ asset.file \in files
      /\ \A a \in assets : a.file # asset.file
      /\ \A q \in Requests \ {r} : req[q].pc = "validating" => req[q].file # asset.file
  BY <1>2 DEF FilesInv, FilesApart
<1>5. FilesApart'
  BY <1>1, <1>3, <1>4 DEF FilesInv, FilesApart
<1>6. AssetsKeepTheirFiles'
  BY <1>3, <1>4 DEF FilesInv, AssetsKeepTheirFiles
<1> QED
  BY <1>2, <1>3, <1>5, <1>6 DEF FilesInv, Typed

\* The new revision comes behind those that were counted for it.
LEMMA InsertRevisionKeeps ==
    ASSUME PInv, NEW r \in Requests, InsertRevision(r)
    PROVE  /\ CountsBehind'
           /\ revisions' \in [ProjectIds -> Seq([version : Nat, count : Nat])]
           /\ \A p \in ProjectIds \ project : revisions'[p] = revisions[p]
<1> USE DEF PInv, InsertRevision
<1> DEFINE p   == req[r].project
           row == [version |-> Version(req[r].count), count |-> req[r].count]
<1>1. /\ req'[r].pc = "idle"
      /\ \A q \in Requests \ {r} : req'[q] = req[q]
  BY RequestEnds
<1>2. req[r] \in ReviseRequest /\ p \in ProjectIds /\ req[r].count \in Nat
  BY HeldByState DEF ReviseRequest
<1>3. row \in [version : Nat, count : Nat] /\ row.version = row.count + 2 /\ row.count = req[r].count
  BY <1>2 DEF Version
<1>4. revisions' = revisions \/ (revisions' = [revisions EXCEPT ![p] = Append(@, row)] /\ p \in project)
  OBVIOUS
<1>5. revisions \in [ProjectIds -> Seq([version : Nat, count : Nat])] /\ row.count <= Len(revisions[p])
  BY <1>3 DEF Typed, CountsBehind
<1> HIDE DEF row
<1>6. CASE revisions' = revisions
  BY <1>1, <1>5, <1>6 DEF CountsBehind
<1>7. CASE revisions' = [revisions EXCEPT ![p] = Append(@, row)] /\ p \in project
  <2>1. revisions[p] \in Seq([version : Nat, count : Nat])
    BY <1>2, <1>5
  <2>2. /\ Append(revisions[p], row) \in Seq([version : Nat, count : Nat])
        /\ Len(Append(revisions[p], row)) = Len(revisions[p]) + 1
        /\ \A n \in 1 .. Len(revisions[p]) : Append(revisions[p], row)[n] = revisions[p][n]
        /\ Append(revisions[p], row)[Len(revisions[p]) + 1] = row
    BY <2>1, <1>3
  <2>3. /\ revisions' \in [ProjectIds -> Seq([version : Nat, count : Nat])]
        /\ revisions'[p] = Append(revisions[p], row)
        /\ \A q \in ProjectIds \ {p} : revisions'[q] = revisions[q]
    BY <1>2, <1>5, <1>7, <2>2
  <2> HIDE DEF p
  <2>4. \A n \in DOMAIN revisions'[p] :
          revisions'[p][n].version = revisions'[p][n].count + 2 /\ revisions'[p][n].count < n
    <3> SUFFICES ASSUME NEW n \in DOMAIN revisions'[p]
                 PROVE  revisions'[p][n].version = revisions'[p][n].count + 2 /\ revisions'[p][n].count < n
      OBVIOUS
    <3>1. n \in 1 .. Len(revisions[p]) + 1 /\ Len(revisions[p]) \in Nat
      BY <2>1, <2>2, <2>3
    <3>2. CASE n \in 1 .. Len(revisions[p])
      <4>1. revisions'[p][n] = revisions[p][n] /\ n \in DOMAIN revisions[p]
        <5>1. DOMAIN revisions[p] = 1 .. Len(revisions[p])
          BY <2>1, LenProperties
        <5>2. revisions'[p][n] = Append(revisions[p], row)[n]
          BY <2>3
        <5> QED
          BY <3>2, <2>2, <5>1, <5>2
      <4> QED
        BY <4>1, <1>2 DEF CountsBehind
    <3>3. CASE n = Len(revisions[p]) + 1
      BY <3>1, <3>3, <2>2, <2>3, <1>2, <1>3, <1>5
    <3> QED
      BY <3>1, <3>2, <3>3
  <2>5. \A q \in Requests : req'[q].pc = "revising" => req'[q].count <= Len(revisions'[req'[q].project])
    <3> SUFFICES ASSUME NEW q \in Requests, req'[q].pc = "revising"
                 PROVE  req'[q].count <= Len(revisions'[req'[q].project])
      OBVIOUS
    <3>1. req'[q] = req[q] /\ req[q] \in ReviseRequest
      BY <1>1, HeldByState
    <3>2. req[q].project \in ProjectIds /\ req[q].count \in Nat
      BY <3>1 DEF ReviseRequest
    <3>3. Len(revisions[req[q].project]) \in Nat /\ Len(revisions[p]) \in Nat
      BY <1>5, <2>1, <3>2
    <3>4. req[q].count <= Len(revisions[req[q].project])
      BY <3>1 DEF CountsBehind
    <3> QED
      BY <3>1, <3>2, <3>3, <3>4, <2>2, <2>3
  <2> QED
    BY <2>3, <2>4, <2>5, <1>7 DEF CountsBehind
<1> QED
  BY <1>4, <1>6, <1>7

-----------------------------------------------------------------------------
(* Every step keeps the invariant                                          *)

\* A step that starts or ends a request, and does nothing to jobs, files and revisions
\* that the request in question did not do before.
LEMMA QuietStep ==
    ASSUME PInv, Typed', UNCHANGED <<jobs, told, budgets, spent, files, assets, revisions>>,
           NoOrphanJobs',
           \A q \in Requests : \/ req'[q] = req[q]
                               \/ req'[q].pc \in {"idle", "deleting", "reviewing"}
                               \/ /\ {req[q].pc, req'[q].pc} \subseteq {"checked", "inserting"}
                                  /\ req'[q].project = req[q].project
    PROVE  PInv'
<1> USE DEF PInv
<1>1. \A q \in InFlight' : q \in InFlight /\ req'[q].project = req[q].project
  BY DEF InFlight
<1>2. JobsInv'
  <2>1. spent' \in Nat /\ spent <= spent'
    BY DEF Typed
  <2> QED
    BY <1>1, <2>1, JobsLeftAlone
<1>3. FilesInv'
  BY FilesLeftAlone
<1>4. CountsBehind'
  BY RevisionsLeftAlone
<1> QED
  BY <1>2, <1>3, <1>4

\* What is left of the invariant when a request that is inserting or uploading is done.
LEMMA RestLeftAlone ==
    ASSUME PInv, UNCHANGED <<created, project, budgets, spent, revisions, status>>,
           NEW r \in Requests, Ends(r)
    PROVE  /\ CountsBehind'
           /\ UNCHANGED <<jobs, told>> => JobsInv'
           /\ UNCHANGED <<files, assets>> => FilesInv'
<1> USE DEF PInv
<1>1. /\ req'[r].pc = "idle"
      /\ \A q \in Requests \ {r} : req'[q] = req[q]
  BY RequestEnds
<1>2. CountsBehind'
  BY <1>1, RevisionsLeftAlone
<1>3. ASSUME UNCHANGED <<jobs, told>> PROVE JobsInv'
  <2>1. spent' \in Nat /\ spent <= spent'
    BY DEF Typed
  <2>2. \A q \in InFlight' : q \in InFlight /\ req'[q].project = req[q].project
    BY <1>1 DEF InFlight
  <2>3. NoOrphanJobs'
    BY <1>3 DEF JobsInv, NoOrphanJobs
  <2> QED
    BY <1>3, <2>1, <2>2, <2>3, JobsLeftAlone
<1>4. ASSUME UNCHANGED <<files, assets>> PROVE FilesInv'
  BY <1>1, <1>4, FilesLeftAlone
<1> QED
  BY <1>2, <1>3, <1>4

LEMMA OthersKeep ==
    ASSUME PInv
    PROVE  /\ \A p \in ProjectIds : CreateProject(p) => PInv'
           /\ \A scope \in ProjectIds \cup {"tenant"} : CreateBudget(scope) => PInv'
           /\ \A n \in DOMAIN jobs : RunJob(n) \/ EndJob(n) => PInv'
<1> USE DEF PInv
<1>1. ASSUME NEW p \in ProjectIds, CreateProject(p) PROVE PInv'
  <2>1. Typed'
    BY <1>1 DEF Typed, CreateProject
  <2>2. NoOrphanJobs'
    BY <1>1 DEF CreateProject, JobsInv, NoOrphanJobs
  <2> QED
    BY <1>1, <2>1, <2>2, QuietStep DEF CreateProject
<1>2. ASSUME NEW scope \in ProjectIds \cup {"tenant"}, CreateBudget(scope) PROVE PInv'
  <2>1. /\ UNCHANGED <<jobs, told, req, files, assets, revisions, project, spent>>
        /\ budgets \subseteq budgets'
    BY <1>2 DEF CreateBudget
  <2>2. Typed'
    BY <1>2 DEF Typed, CreateBudget
  <2>3. NoOrphanJobs'
    BY <2>1 DEF JobsInv, NoOrphanJobs
  <2>4. spent' \in Nat /\ spent <= spent'
    BY <2>1 DEF Typed
  <2>5. \A q \in InFlight' : q \in InFlight /\ req'[q].project = req[q].project
    BY <2>1 DEF InFlight
  <2>6. JobsInv'
    BY <2>1, <2>3, <2>4, <2>5, JobsLeftAlone
  <2> QED
    BY <2>1, <2>2, <2>6, FilesLeftAlone, RevisionsLeftAlone
<1>3. ASSUME NEW n \in DOMAIN jobs, RunJob(n) \/ EndJob(n) PROVE PInv'
  <2>1. PICK s \in JobStates : jobs' = [jobs EXCEPT ![n].state = s]
    BY <1>3 DEF RunJob, EndJob, JobStates
  <2>2. UNCHANGED <<told, req, budgets, revisions, project, files, assets, created, status>>
    BY <1>3 DEF RunJob, EndJob
  <2>3. spent' \in Nat /\ spent <= spent'
    <3>1. spent \in Nat /\ Estimate \in Nat
      BY ProjectsAssumption DEF ProjectsAssumption, Typed
    <3>2. spent' = spent \/ spent' = spent + Estimate
      BY <1>3 DEF RunJob, EndJob
    <3> QED
      BY <3>1, <3>2
  <2>4. jobs' \in Seq(JobRows) /\ JobsInv'
    BY <2>1, <2>2, <2>3, JobMoves
  <2>5. Typed'
    BY <2>2, <2>3, <2>4 DEF Typed
  <2> QED
    BY <2>2, <2>4, <2>5, FilesLeftAlone, RevisionsLeftAlone
<1> QED
  BY <1>1, <1>2, <1>3

\* The steps of a request that only read, or that end it.
LEMMA ReadsKeep ==
    ASSUME PInv, NEW r \in Requests
    PROVE  /\ \A p \in ProjectIds : CheckActive(r, p) \/ CountRevisions(r, p) => PInv'
           /\ \A p \in ProjectIds, key \in Keys \cup {"none"} : CheckBudget(r, p, key) => PInv'
           /\ \A action \in Actions : LoadManifest(r, action) => PInv'
           /\ FindJob(r) \/ CommitReview(r) \/ Abort(r) \/ DeleteProject(r) => PInv'
<1> USE DEF PInv
<1>1. ASSUME NEW p \in ProjectIds, CheckActive(r, p) PROVE PInv'
  <2> DEFINE held == [pc |-> "deleting", project |-> p]
  <2>1. held \in AnyRequest /\ held.pc = "deleting"
    BY DEF AnyRequest, DeleteRequest
  <2>2. UNCHANGED rows /\ req' = [req EXCEPT ![r] = held]
    BY <1>1 DEF CheckActive, Hold
  <2> HIDE DEF held
  <2>3. /\ req'[r] = held
        /\ \A q \in Requests \ {r} : req'[q] = req[q]
        /\ req' \in [Requests -> AnyRequest]
    BY <2>1, <2>2, OneRequestChanges
  <2>4. Typed' /\ NoOrphanJobs'
    BY <2>2, <2>3 DEF rows, Typed, JobsInv, NoOrphanJobs
  <2> QED
    BY <2>1, <2>2, <2>3, <2>4, QuietStep DEF rows
<1>2. ASSUME NEW p \in ProjectIds, CountRevisions(r, p) PROVE PInv'
  <2> DEFINE held == [pc |-> "revising", project |-> p, count |-> Len(revisions[p])]
  <2>1. revisions[p] \in Seq([version : Nat, count : Nat]) /\ Len(revisions[p]) \in Nat
    BY DEF Typed
  <2>2. /\ held \in AnyRequest /\ held.pc = "revising"
        /\ held.count = Len(revisions[p]) /\ held.project = p
    BY <2>1 DEF AnyRequest, ReviseRequest
  <2>3. UNCHANGED rows /\ req' = [req EXCEPT ![r] = held]
    BY <1>2 DEF CountRevisions, Hold
  <2> HIDE DEF held
  <2>4. /\ req'[r] = held
        /\ \A q \in Requests \ {r} : req'[q] = req[q]
        /\ req' \in [Requests -> AnyRequest]
    BY <2>2, <2>3, OneRequestChanges
  <2>5. Typed' /\ NoOrphanJobs'
    BY <2>3, <2>4 DEF rows, Typed, JobsInv, NoOrphanJobs
  <2>6. \A q \in InFlight' : q \in InFlight /\ req'[q].project = req[q].project
    BY <2>2, <2>4 DEF InFlight
  <2>7. JobsInv'
    <3>1. spent' \in Nat /\ spent <= spent' /\ budgets' = budgets /\ jobs' = jobs /\ told' = told
      BY <2>3 DEF Typed, rows
    <3> QED
      BY <3>1, <2>5, <2>6, JobsLeftAlone
  <2>8. FilesInv'
    BY <2>2, <2>3, <2>4, FilesLeftAlone DEF rows
  <2>9. CountsBehind'
    BY <2>1, <2>2, <2>3, <2>4 DEF CountsBehind, rows
  <2> QED
    BY <2>5, <2>7, <2>8, <2>9
<1>3. ASSUME NEW p \in ProjectIds, NEW key \in Keys \cup {"none"}, CheckBudget(r, p, key) PROVE PInv'
  <2> DEFINE held == [pc |-> "checked", project |-> p, key |-> key]
  <2>1. held \in AnyRequest /\ held.pc = "checked"
    BY DEF AnyRequest, JobRequest
  <2>2. UNCHANGED rows /\ req' = [req EXCEPT ![r] = held]
    BY <1>3 DEF CheckBudget, Hold
  <2> HIDE DEF held
  <2>3. /\ req'[r] = held
        /\ \A q \in Requests \ {r} : req'[q] = req[q]
        /\ req' \in [Requests -> AnyRequest]
    BY <2>1, <2>2, OneRequestChanges
  <2>4. Typed'
    BY <2>2, <2>3 DEF rows, Typed
  <2>5. JobsInv'
    BY <1>3, CheckBudgetKeeps
  <2>6. FilesInv' /\ CountsBehind'
    BY <2>1, <2>2, <2>3, FilesLeftAlone, RevisionsLeftAlone DEF rows
  <2> QED
    BY <2>4, <2>5, <2>6
<1>4. ASSUME NEW action \in Actions, LoadManifest(r, action) PROVE PInv'
  <2> DEFINE held == [pc |-> "reviewing", action |-> action, loaded |-> status]
  <2>1. held \in AnyRequest /\ held.pc = "reviewing"
    BY DEF AnyRequest, ReviewRequest, Typed
  <2>2. UNCHANGED rows /\ req' = [req EXCEPT ![r] = held]
    BY <1>4 DEF LoadManifest, Hold
  <2> HIDE DEF held
  <2>3. /\ req'[r] = held
        /\ \A q \in Requests \ {r} : req'[q] = req[q]
        /\ req' \in [Requests -> AnyRequest]
    BY <2>1, <2>2, OneRequestChanges
  <2>4. Typed' /\ NoOrphanJobs'
    BY <2>2, <2>3 DEF rows, Typed, JobsInv, NoOrphanJobs
  <2> QED
    BY <2>1, <2>2, <2>3, <2>4, QuietStep DEF rows
<1>5. ASSUME Ends(r), UNCHANGED <<jobs, told, created, budgets, spent, files, assets, revisions, project>>,
             status' \in Statuses \cup {"unset"}
      PROVE  PInv'
  <2>1. /\ req'[r].pc = "idle"
        /\ \A q \in Requests \ {r} : req'[q] = req[q]
        /\ req' \in [Requests -> AnyRequest]
    BY <1>5, RequestEnds
  <2>2. Typed' /\ NoOrphanJobs'
    BY <1>5, <2>1 DEF Typed, JobsInv, NoOrphanJobs
  <2> QED
    BY <1>5, <2>1, <2>2, QuietStep
<1>6. ASSUME FindJob(r) PROVE PInv'
  <2>1. CASE WithKey(req[r].key) = {}
    <3> DEFINE held == [req[r] EXCEPT !.pc = "inserting"]
    <3>1. req[r] \in JobRequest
      BY <1>6, HeldByState DEF FindJob
    <3>2. held \in JobRequest /\ held.pc = "inserting" /\ held.project = req[r].project
      BY <3>1 DEF JobRequest
    <3>3. UNCHANGED rows /\ req' = [req EXCEPT ![r] = held]
      BY <1>6, <2>1 DEF FindJob, Hold
    <3> HIDE DEF held
    <3>4. /\ req'[r] = held
          /\ \A q \in Requests \ {r} : req'[q] = req[q]
          /\ req' \in [Requests -> AnyRequest]
      BY <3>2, <3>3, OneRequestChanges DEF AnyRequest
    <3>5. Typed' /\ NoOrphanJobs'
      BY <3>3, <3>4 DEF rows, Typed, JobsInv, NoOrphanJobs
    <3> QED
      BY <1>6, <3>2, <3>3, <3>4, <3>5, QuietStep DEF rows, FindJob
  <2>2. CASE WithKey(req[r].key) # {}
    <3>1. /\ Ends(r)
          /\ UNCHANGED <<created, project, jobs, budgets, spent, assets, files, revisions, status>>
          /\ \E n \in WithKey(req[r].key) : Told(r, n)
      BY <1>6, <2>2 DEF FindJob
    <3>2. CountsBehind' /\ FilesInv'
      BY <3>1, RestLeftAlone
    <3>3. /\ req'[r].pc = "idle"
          /\ \A q \in Requests \ {r} : req'[q] = req[q]
          /\ req' \in [Requests -> AnyRequest]
      BY <3>1, RequestEnds
    <3>4. Typed'
      BY <3>1, <3>3 DEF Typed
    <3>5. ToldOfTheJob'
      BY <3>1 DEF Told, WithKey, JobsInv, ToldOfTheJob
    <3>6. JobsBounded'
      <4>1. InFlight' \subseteq InFlight
        BY <3>3 DEF InFlight
      <4>2. Len(jobs) \in Nat /\ MaxJobs \in Nat
        BY ProjectsAssumption DEF ProjectsAssumption, Typed
      <4> QED
        BY <3>1, <4>1, <4>2, FlightCounts DEF JobsInv, JobsBounded
    <3>7. KeysUnique' /\ LateOnce' /\ NoOrphanJobs'
      BY <3>1, <3>3 DEF JobsInv, KeysUnique, LateOnce, NoOrphanJobs, InFlight, Exceeded
    <3> QED
      BY <3>2, <3>4, <3>5, <3>6, <3>7 DEF JobsInv
  <2> QED
    BY <2>1, <2>2
<1>7. ASSUME CommitReview(r) PROVE PInv'
  <2>1. req[r].action \in Actions /\ req[r].loaded \in Statuses \cup {"unset"}
    BY <1>7, HeldByState DEF CommitReview, ReviewRequest
  <2>2. status' \in Statuses \cup {"unset"}
    BY <1>7, <2>1 DEF CommitReview, WrittenStatus, NewStatus, Current, Actions, Statuses, Typed
  <2> QED
    BY <1>5, <1>7, <2>2 DEF CommitReview
<1>8. ASSUME Abort(r) PROVE PInv'
  BY <1>5, <1>8 DEF Abort, rows, Typed
<1>9. ASSUME DeleteProject(r) PROVE PInv'
  <2>1. /\ req'[r].pc = "idle"
        /\ \A q \in Requests \ {r} : req'[q] = req[q]
        /\ req' \in [Requests -> AnyRequest]
    BY <1>9, RequestEnds DEF DeleteProject
  <2>2. Typed'
    BY <1>9, <2>1 DEF DeleteProject, Typed
  <2>3. NoOrphanJobs'
    BY <1>9 DEF DeleteProject, Referenced, JobsInv, NoOrphanJobs
  <2> QED
    BY <1>9, <2>1, <2>2, <2>3, QuietStep DEF DeleteProject
<1> QED
  BY <1>1, <1>2, <1>3, <1>4, <1>6, <1>7, <1>8, <1>9

\* The steps of a request that insert a row or touch a file.
LEMMA WritesKeep ==
    ASSUME PInv, NEW r \in Requests
    PROVE  /\ InsertJob(r) => PInv'
           /\ \A p \in ProjectIds, content \in Contents : WriteFile(r, p, content) => PInv'
           /\ RejectFile(r) \/ InsertAsset(r) => PInv'
           /\ InsertRevision(r) => PInv'
<1> USE DEF PInv
<1>1. ASSUME InsertJob(r) PROVE PInv'
  <2>1. /\ Ends(r)
        /\ UNCHANGED <<created, project, budgets, spent, assets, files, revisions, status>>
    BY <1>1 DEF InsertJob
  <2>2. JobsInv' /\ jobs' \in Seq(JobRows)
    BY <1>1, InsertJobKeeps
  <2>3. Typed'
    BY <2>1, <2>2, RequestEnds DEF Typed
  <2> QED
    BY <2>1, <2>2, <2>3, RestLeftAlone
<1>2. ASSUME NEW p \in ProjectIds, NEW content \in Contents, WriteFile(r, p, content) PROVE PInv'
  <2>1. FilesInv' /\ files' \subseteq FileRows /\ req' \in [Requests -> AnyRequest]
    BY <1>2, WriteFileKeeps
  <2>2. UNCHANGED <<created, project, jobs, budgets, spent, assets, revisions, status, told>>
    BY <1>2 DEF WriteFile
  <2>3. Typed' /\ NoOrphanJobs'
    BY <2>1, <2>2 DEF Typed, JobsInv, NoOrphanJobs
  <2>4. \A q \in Requests : req'[q] = req[q] \/ req'[q].pc = "validating"
    BY <1>2 DEF WriteFile, Typed
  <2>5. CountsBehind'
    BY <2>2, <2>4, RevisionsLeftAlone
  <2>6. JobsInv'
    <3>1. \A q \in InFlight' : q \in InFlight /\ req'[q].project = req[q].project
      BY <2>4 DEF InFlight
    <3>2. spent' \in Nat /\ spent <= spent' /\ jobs' = jobs /\ told' = told /\ budgets' = budgets
      BY <2>2 DEF Typed
    <3> QED
      BY <2>3, <3>1, <3>2, JobsLeftAlone
  <2> QED
    BY <2>1, <2>3, <2>5, <2>6
<1>3. ASSUME RejectFile(r) \/ InsertAsset(r) PROVE PInv'
  <2>1. /\ Ends(r)
        /\ UNCHANGED <<created, project, jobs, budgets, spent, revisions, status, told>>
    BY <1>3 DEF RejectFile, InsertAsset
  <2>2. /\ FilesInv'
        /\ files' \subseteq FileRows
        /\ assets' \subseteq [file : FileRows, content : Contents]
    <3>1. CASE RejectFile(r)
      BY <3>1, RejectFileKeeps DEF RejectFile, Typed
    <3>2. CASE InsertAsset(r)
      BY <3>2, InsertAssetKeeps DEF InsertAsset, Typed
    <3> QED
      BY <1>3, <3>1, <3>2
  <2>3. Typed'
    BY <2>1, <2>2, RequestEnds DEF Typed
  <2> QED
    BY <2>1, <2>2, <2>3, RestLeftAlone
<1>4. ASSUME InsertRevision(r) PROVE PInv'
  <2>1. /\ Ends(r)
        /\ UNCHANGED <<created, project, jobs, budgets, spent, assets, files, status, told>>
    BY <1>4 DEF InsertRevision
  <2>2. /\ CountsBehind'
        /\ revisions' \in [ProjectIds -> Seq([version : Nat, count : Nat])]
        /\ \A p \in ProjectIds \ project : revisions'[p] = revisions[p]
    BY <1>4, InsertRevisionKeeps
  <2>3. /\ req'[r].pc = "idle"
        /\ \A q \in Requests \ {r} : req'[q] = req[q]
        /\ req' \in [Requests -> AnyRequest]
    BY <2>1, RequestEnds
  <2>4. Typed' /\ NoOrphanJobs'
    BY <2>1, <2>2, <2>3 DEF Typed, JobsInv, NoOrphanJobs
  <2>5. FilesInv'
    BY <2>1, <2>3, FilesLeftAlone
  <2>6. JobsInv'
    <3>1. \A q \in InFlight' : q \in InFlight /\ req'[q].project = req[q].project
      BY <2>3 DEF InFlight
    <3>2. spent' \in Nat /\ spent <= spent' /\ jobs' = jobs /\ told' = told /\ budgets' = budgets
      BY <2>1 DEF Typed
    <3> QED
      BY <2>4, <3>1, <3>2, JobsLeftAlone
  <2> QED
    BY <2>2, <2>4, <2>5, <2>6
<1> QED
  BY <1>1, <1>2, <1>3, <1>4

LEMMA InitKeeps == Init => PInv
<1> SUFFICES ASSUME Init PROVE PInv
  OBVIOUS
<1> USE DEF Init
<1>1. \A r \in Requests : req[r] = Idle /\ req[r].pc = "idle"
  BY DEF Idle
<1>2. Typed
  <2>1. req \in [Requests -> AnyRequest]
    BY DEF AnyRequest
  <2>2. jobs \in Seq(JobRows)
    OBVIOUS
  <2>3. revisions \in [ProjectIds -> Seq([version : Nat, count : Nat])]
    OBVIOUS
  <2> QED
    BY <2>1, <2>2, <2>3 DEF Typed
<1>3. JobsBounded
  <2>1. InFlight = {}
    BY <1>1 DEF InFlight
  <2>2. Cardinality(InFlight) = 0 /\ Len(jobs) = 0
    BY <2>1, FS_EmptySet
  <2>3. MaxJobs \in Nat /\ Cardinality(Requests) \in Nat
    BY ProjectsAssumption, FS_CardinalityType DEF ProjectsAssumption
  <2> QED
    BY <2>2, <2>3 DEF JobsBounded
<1>4. JobsInv
  BY <1>3 DEF JobsInv, KeysUnique, ToldOfTheJob, LateOnce, NoOrphanJobs
<1>5. FilesInv /\ CountsBehind
  BY <1>1 DEF FilesInv, FilesApart, AssetsKeepTheirFiles, CountsBehind
<1> QED
  BY <1>2, <1>4, <1>5 DEF PInv

LEMMA StepKeeps == PInv /\ [Next]_vars => PInv'
<1> SUFFICES ASSUME PInv, [Next]_vars PROVE PInv'
  OBVIOUS
<1>1. CASE Next
  <2>1. CASE \E r \in Requests : Request(r)
    BY <2>1, ReadsKeep, WritesKeep DEF Request, Actions
  <2>2. CASE \E p \in ProjectIds : CreateProject(p)
    BY <2>2, OthersKeep
  <2>3. CASE \E scope \in ProjectIds \cup {"tenant"} : CreateBudget(scope)
    BY <2>3, OthersKeep
  <2>4. CASE \E n \in DOMAIN jobs : RunJob(n) \/ EndJob(n)
    BY <2>4, OthersKeep
  <2> QED
    BY <1>1, <2>1, <2>2, <2>3, <2>4 DEF Next
<1>2. CASE UNCHANGED vars
  <2>1. UNCHANGED <<rows, req>>
    BY <1>2 DEF vars
  <2>2. Typed' /\ NoOrphanJobs'
    BY <2>1 DEF rows, PInv, Typed, JobsInv, NoOrphanJobs
  <2> QED
    BY <2>1, <2>2, QuietStep DEF rows
<1> QED
  BY <1>1, <1>2

\* The strengthening of the properties below is an invariant of what any number of requests
\* do at once (agency/api/main.py).
THEOREM InvariantHolds == Spec => []PInv
  BY InitKeeps, StepKeeps, PTL DEF Spec

-----------------------------------------------------------------------------
(* Theorems                                                                *)

\* Every row and every answer has its type, and no answer names a job beyond the bound.
THEOREM TypesHold == Spec => []TypeOK
<1>1. PInv => TypeOK
  <2> SUFFICES ASSUME PInv PROVE TypeOK
    OBVIOUS
  <2>1. jobs \in Seq(JobRows) /\ Len(jobs) \in Nat
    BY DEF PInv, Typed
  <2>2. Len(jobs) <= MaxJobs + Cardinality(Requests) /\ MaxJobs + Cardinality(Requests) \in Nat
    <3>1. MaxJobs \in Nat
      BY ProjectsAssumption DEF ProjectsAssumption
    <3> QED
      BY <2>1, <3>1, FlightCounts DEF PInv, JobsInv, JobsBounded
  <2>3. told \subseteq Keys \X (1 .. MaxJobs + Cardinality(Requests))
    <3> SUFFICES ASSUME NEW x \in told PROVE x \in Keys \X (1 .. MaxJobs + Cardinality(Requests))
      OBVIOUS
    <3>1. PICK n \in DOMAIN jobs : x = <<jobs[n].key, n>> /\ jobs[n].key # "none"
      BY DEF PInv, JobsInv, ToldOfTheJob
    <3>2. jobs[n] \in JobRows /\ n \in 1 .. Len(jobs)
      BY <2>1, LenProperties
    <3>3. jobs[n].key \in Keys
      BY <3>1, <3>2 DEF JobRows
    <3>4. n \in 1 .. MaxJobs + Cardinality(Requests)
      BY <2>1, <2>2, <3>2
    <3> QED
      BY <3>1, <3>3, <3>4
  <2> QED
    BY <2>3 DEF PInv, Typed, TypeOK, FileRows, JobRows
<1> QED
  BY <1>1, InvariantHolds, PTL

\* The foreign keys close the gap between the check of delete_project and its commit:
\* no job and no revision ever loses its project.
THEOREM NoJobIsOrphaned == Spec => []NoOrphanJobs
<1>1. PInv => NoOrphanJobs
  BY DEF PInv, JobsInv
<1> QED
  BY <1>1, InvariantHolds, PTL

\* However many requests pass check_budget at once, each overruns a used up budget of a
\* project by at most the job it was checked for before.
THEOREM OverrunsAreBounded == Spec => []OverrunsWereInFlight
<1>1. PInv => OverrunsWereInFlight
  <2> SUFFICES ASSUME PInv, NEW p \in ProjectIds, NEW r \in Requests
               PROVE  Cardinality({n \in DOMAIN jobs : jobs[n].project = p /\ r \in jobs[n].late}) <= 1
    BY DEF OverrunsWereInFlight
  <2> DEFINE N == {n \in DOMAIN jobs : jobs[n].project = p /\ r \in jobs[n].late}
  <2>1. \A n, m \in N : n = m
    BY DEF PInv, JobsInv, LateOnce
  <2>2. CASE N = {}
    BY <2>2, FS_EmptySet
  <2>3. CASE N # {}
    <3>1. PICK n \in N : TRUE
      BY <2>3
    <3>2. N = {n}
      BY <2>1, <3>1
    <3> QED
      <4> HIDE DEF N
      <4>1. Cardinality(N) = 1
        BY <3>2, FS_Singleton
      <4> QED
        BY <4>1 DEF N
  <2> QED
    BY <2>2, <2>3
<1> QED
  BY <1>1, InvariantHolds, PTL

\* No rejected or repeated upload takes the file of an asset.
THEOREM AssetsHaveFiles == Spec => []AssetsKeepTheirFiles
<1>1. PInv => AssetsKeepTheirFiles
  BY DEF PInv, FilesInv
<1> QED
  BY <1>1, InvariantHolds, PTL

\* Revisions written at the same time may share a version, but none is older than one
\* its author could see.
THEOREM RevisionsAdvance == Spec => []LaterRevisionIsNewer
<1>1. PInv => LaterRevisionIsNewer
  <2> SUFFICES ASSUME PInv, NEW p \in ProjectIds, NEW n \in DOMAIN revisions[p],
                      NEW i \in 1 .. revisions[p][n].count
               PROVE  revisions[p][i].version < revisions[p][n].version
    BY DEF LaterRevisionIsNewer
  <2>1. revisions[p] \in Seq([version : Nat, count : Nat])
    BY DEF PInv, Typed
  <2>2. /\ DOMAIN revisions[p] = 1 .. Len(revisions[p]) /\ Len(revisions[p]) \in Nat
        /\ \A m \in DOMAIN revisions[p] : revisions[p][m].count \in Nat
    <3>1. DOMAIN revisions[p] = 1 .. Len(revisions[p]) /\ Len(revisions[p]) \in Nat
      BY <2>1, LenProperties
    <3>2. \A m \in 1 .. Len(revisions[p]) : revisions[p][m] \in [version : Nat, count : Nat]
      BY <2>1, ElementOfSeq
    <3> QED
      BY <3>1, <3>2
  <2>3. \A m \in DOMAIN revisions[p] :
          revisions[p][m].version = revisions[p][m].count + 2 /\ revisions[p][m].count < m
    BY DEF PInv, CountsBehind
  <2>4. i \in DOMAIN revisions[p]
    BY <2>2, <2>3
  <2> QED
    BY <2>2, <2>3, <2>4
<1> QED
  BY <1>1, InvariantHolds, PTL

\* A comment written while another review is decided takes back the decision in no case
\* but the first comment.
THEOREM CommentsChangeNothing == Spec => CommentKeepsStatus
<1> DEFINE Keeps ==
        \A r \in Requests :
            /\ req[r].pc = "reviewing" /\ req[r].action = "comment" /\ req[r].loaded # "unset"
            /\ req'[r].pc = "idle"
            => status' = status
<1>1. PInv /\ [Next]_vars => [Keeps]_vars
  <2> SUFFICES ASSUME PInv, Next, NEW r \in Requests, status' # status,
                      req[r].pc = "reviewing", req[r].action = "comment", req[r].loaded # "unset",
                      req'[r].pc = "idle"
               PROVE  FALSE
    OBVIOUS
  <2>1. PICK q \in Requests : CommitReview(q)
    BY DEF Next, Request, CreateProject, CreateBudget, RunJob, EndJob, CheckBudget, CheckActive,
           CountRevisions, LoadManifest, Hold, rows, FindJob, InsertJob, DeleteProject,
           InsertRevision, WriteFile, RejectFile, InsertAsset, Abort
  <2>2. \A s \in Requests \ {q} : req'[s] = req[s]
    BY <2>1, RequestEnds DEF CommitReview, PInv
  <2>3. q = r
    BY <2>2
  <2>4. WrittenStatus(r) = status
    BY DEF WrittenStatus, NewStatus, Current
  <2> QED
    BY <2>1, <2>3, <2>4 DEF CommitReview
<1>2. Spec => [][Keeps]_vars
  BY <1>1, InvariantHolds, PTL DEF Spec
<1> QED
  BY <1>2, PTL DEF CommentKeepsStatus

-----------------------------------------------------------------------------
(* Refinement of CreateOnce                                                *)

\* The unique key makes the choice of JobOf the only one there is.
LEMMA JobOfKey ==
    ASSUME KeysUnique, NEW k, NEW n \in WithKey(k), DOMAIN jobs \subseteq Nat
    PROVE  WithKey(k) = {n} /\ JobOf(k) = n
<1>1. WithKey(k) = {n}
  BY DEF WithKey, KeysUnique
<1>2. n \in Nat
  BY DEF WithKey
<1>3. (CHOOSE m \in WithKey(k) : \A l \in WithKey(k) : m <= l) = n
  BY <1>1, <1>2
<1> QED
  BY <1>1, <1>3 DEF JobOf

Smallest(S) == IF S = {} THEN 0 ELSE CHOOSE n \in S : \A m \in S : n <= m

LEMMA JobOfSmallest ==
    /\ \A k : JobOf(k) = Smallest(WithKey(k))
    /\ \A k : JobOf(k)' = Smallest(WithKey(k)')
  BY DEF JobOf, Smallest

LEMMA SameKeysSameJobs ==
    ASSUME \A k : WithKey(k)' = WithKey(k)
    PROVE  [k \in Keys |-> JobOf(k)]' = [k \in Keys |-> JobOf(k)]
<1>1. \A k : JobOf(k)' = JobOf(k)
  BY JobOfSmallest
<1> QED
  BY <1>1

\* Finding the key is the abstract answer; inserting with a key is the abstract creation.
LEMMA RequestRefines ==
    ASSUME PInv, PInv', NEW r \in Requests, FindJob(r) \/ InsertJob(r)
    PROVE  [Once!Next]_Once!vars
<1> DEFINE made == [k \in Keys |-> JobOf(k)]
<1>1. jobs \in Seq(JobRows) /\ DOMAIN jobs = 1 .. Len(jobs) /\ Len(jobs) \in Nat
  BY LenProperties DEF PInv, Typed
<1>2. PICK key \in Keys \cup {"none"} : key = req[r].key
  BY HeldByState DEF PInv, FindJob, InsertJob, JobRequest
<1>3. ASSUME jobs' = jobs, NEW n \in WithKey(key), Told(r, n)
      PROVE  [Once!Next]_Once!vars
  <2>1. key \in Keys /\ n \in DOMAIN jobs
    BY <1>2, <1>3 DEF WithKey
  <2>2. JobOf(key) = n /\ n # 0
    BY <1>1, <1>3, <2>1, JobOfKey DEF PInv, JobsInv
  <2>3. made[key] = n
    BY <2>1, <2>2
  <2>4. told' = told \cup {<<key, n>>}
    BY <1>2, <1>3, <2>1, ProjectsAssumption DEF Told, ProjectsAssumption
  <2>5. made' = made
    BY <1>3, SameKeysSameJobs DEF WithKey
  <2>6. Once!Answer(key)
    BY <2>2, <2>3, <2>4, <2>5 DEF Once!Answer
  <2> QED
    BY <2>1, <2>6 DEF Once!Next
<1>4. ASSUME jobs' = jobs, told' = told PROVE [Once!Next]_Once!vars
  BY <1>4, SameKeysSameJobs DEF WithKey, Once!vars
<1>5. CASE FindJob(r)
  <2>1. jobs' = jobs
    BY <1>2, <1>5 DEF FindJob, Hold, rows
  <2>2. told' = told \/ \E n \in WithKey(key) : Told(r, n)
    BY <1>2, <1>5 DEF FindJob, Hold, rows
  <2> QED
    BY <1>3, <1>4, <2>1, <2>2
<1>6. CASE InsertJob(r) /\ ~Insertable(r)
  <2>1. jobs' = jobs
    BY <1>2, <1>6 DEF InsertJob
  <2>2. told' = told \/ \E n \in WithKey(key) : Told(r, n)
    BY <1>2, <1>6 DEF InsertJob
  <2> QED
    BY <1>3, <1>4, <2>1, <2>2
<1>7. CASE InsertJob(r) /\ Insertable(r)
  <2>0. PICK new : new = Len(jobs) + 1
    OBVIOUS
  <2>1. /\ DOMAIN jobs' = DOMAIN jobs \cup {new}
        /\ \A n \in DOMAIN jobs : jobs'[n] = jobs[n] /\ n # new
        /\ jobs'[new].key = key
    <3>1. NewJob(r).key = key
      BY <1>2 DEF NewJob
    <3> QED
      BY <2>0, <1>2, <3>1, <1>7, InsertedRow
  <2>2. new \in 1 .. MaxJobs + Cardinality(Requests)
    <3>1. Len(jobs') = Len(jobs) + 1
      BY <1>7, InsertedRow
    <3>2. Len(jobs') + Cardinality(InFlight') <= MaxJobs + Cardinality(Requests)
      BY DEF PInv, JobsInv, JobsBounded
    <3>3. MaxJobs \in Nat
      BY ProjectsAssumption DEF ProjectsAssumption
    <3> QED
      BY <2>0, <1>2, <1>1, <3>1, <3>2, <3>3, FlightCounts
  <2>3. told' = IF key = "none" THEN told ELSE told \cup {<<key, new>>}
    BY <2>0, <1>2, <1>7 DEF InsertJob, Told
  <2>4. WithKey(key) = {}
    BY <1>2, <1>7 DEF Insertable
    <2>5. \A k : k # key \/ key = "none" => WithKey(k)' = WithKey(k)
    BY <2>1 DEF WithKey
  <2>6. CASE key = "none"
    BY <2>3, <2>5, <2>6, SameKeysSameJobs DEF Once!vars
  <2>7. CASE key # "none"
    <3>1. key \in Keys
      BY <1>2, <2>7
    <3>2. new \in WithKey(key)'
      BY <2>1, <2>7 DEF WithKey
    <3>3. JobOf(key)' = new
      <4>1. DOMAIN jobs' \subseteq Nat
        BY <1>1, <2>1, <2>2
      <4>2. KeysUnique'
        BY DEF PInv, JobsInv
      <4>3. \A n \in WithKey(key)' : n = new
        BY <2>7, <3>2, <4>2 DEF WithKey, KeysUnique
      <4>4. WithKey(key)' = {new}
        BY <3>2, <4>3
      <4>5. new \in Nat
        BY <2>2
      <4> QED
        BY <4>4, <4>5 DEF JobOf
    <3>4. made[key] = 0
      BY <2>4, <3>1 DEF JobOf
    <3>5. \A k \in Keys \ {key} : JobOf(k)' = JobOf(k)
      BY <2>5, JobOfSmallest
    <3>6. made' = [made EXCEPT ![key] = new]
      BY <3>1, <3>3, <3>5
    <3>7. Once!Create(key, new)
      BY <2>3, <2>7, <3>4, <3>6 DEF Once!Create
    <3> QED
      BY <2>2, <3>1, <3>7 DEF Once!Next
  <2> QED
    BY <2>6, <2>7
<1> QED
  BY <1>5, <1>6, <1>7

\* Whatever requests do at once, the jobs and the answers of the clients that send keys
\* are those of the abstract specification: one job per key, and nobody is told another.
THEOREM KeysCreateOnce == Spec => ImplementsCreateOnce
<1>1. Init => Once!Init
  <2> SUFFICES ASSUME Init PROVE Once!Init
    OBVIOUS
  <2>1. \A k : WithKey(k) = {}
    BY DEF Init, WithKey
  <2> QED
    BY <2>1 DEF Init, Once!Init, JobOf
<1>2. PInv /\ PInv' /\ [Next]_vars => [Once!Next]_Once!vars
  <2> SUFFICES ASSUME PInv, PInv', [Next]_vars PROVE [Once!Next]_Once!vars
    OBVIOUS
  <2>1. ASSUME UNCHANGED <<jobs, told>> PROVE [Once!Next]_Once!vars
    BY <2>1, SameKeysSameJobs DEF WithKey, Once!vars
  <2>2. ASSUME NEW n \in DOMAIN jobs, RunJob(n) \/ EndJob(n) PROVE [Once!Next]_Once!vars
    <3>1. \E s \in JobStates : jobs' = [jobs EXCEPT ![n].state = s]
      BY <2>2 DEF RunJob, EndJob, JobStates
    <3>2. UNCHANGED <<told, req, budgets, revisions, project>>
      BY <2>2 DEF RunJob, EndJob
    <3>3. \A k : WithKey(k)' = WithKey(k)
      BY <3>1 DEF WithKey, PInv, Typed, JobRows
    <3> QED
      BY <3>2, <3>3, SameKeysSameJobs DEF Once!vars
  <2>3. ASSUME NEW r \in Requests, Request(r) PROVE [Once!Next]_Once!vars
    <3>1. CASE FindJob(r) \/ InsertJob(r)
      BY <3>1, RequestRefines
    <3>2. CASE ~(FindJob(r) \/ InsertJob(r))
      <4>1. UNCHANGED <<jobs, told>>
        BY <2>3, <3>2 DEF Request, CheckBudget, CheckActive, CountRevisions, LoadManifest, Hold, rows,
               DeleteProject, InsertRevision, WriteFile, RejectFile, InsertAsset, CommitReview, Abort
      <4> QED
        BY <2>1, <4>1
    <3> QED
      BY <3>1, <3>2
  <2>4. CASE UNCHANGED vars
    BY <2>1, <2>4 DEF vars, rows
  <2>5. CASE Next
    BY <2>1, <2>2, <2>3, <2>5 DEF Next, CreateProject, CreateBudget
  <2> QED
    BY <2>4, <2>5
<1> QED
  BY <1>1, <1>2, InvariantHolds, PTL DEF Spec, ImplementsCreateOnce, Once!Spec
=============================================================================
