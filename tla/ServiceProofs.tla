---------------------------- MODULE ServiceProofs ----------------------------
(***************************************************************************)
(* Proofs about RateLimiter, for any number of threads, any rate, length   *)
(* of the window and duration; and about Migrations, for any number of     *)
(* processes, crashes and downgrades.                                      *)
(***************************************************************************)
EXTENDS RateLimiter, Migrations, FiniteSetTheorems, SequenceTheorems, TLAPS

-----------------------------------------------------------------------------
(* The window of a client                                                  *)

Calls ==
    {Away} \cup [pc : {"clock"}, at : Nat]
    \cup [pc : {"window"}, at : Nat, count : Nat, start : Nat]

LimiterTyped ==
    /\ now \in Nat
    /\ window \subseteq [count : Nat, start : Nat]
    /\ call \in [Callers -> Calls]
    /\ admitted \in Seq(Nat)

\* The calls admitted since time x.
Since(x) == {i \in DOMAIN admitted : admitted[i] >= x}

\* A count, in the table or in a thread, never exceeds the calls that were admitted since
\* its window began: a thread that writes an old count only forgets calls.
CountsAreCovered ==
    /\ \A v, w \in window : v = w
    /\ \A w \in window : w.start <= now /\ w.count <= Cardinality(Since(w.start))
    /\ \A t \in Callers :
        /\ call[t].pc = "clock" => call[t].at <= now
        /\ call[t].pc = "window" =>
            /\ call[t].at <= now /\ call[t].start <= now
            /\ call[t].at - call[t].start < Minute
            /\ call[t].count <= Cardinality(Since(call[t].start))

LInv == LimiterTyped /\ CountsAreCovered

-----------------------------------------------------------------------------
(* Lemmas about threads                                                    *)

\* What the state of a thread says it holds.
LEMMA CallByState ==
    ASSUME LimiterTyped, NEW t \in Callers
    PROVE  /\ call[t].pc = "clock" => call[t] \in [pc : {"clock"}, at : Nat]
           /\ call[t].pc = "window" =>
                call[t] \in [pc : {"window"}, at : Nat, count : Nat, start : Nat]
  BY DEF LimiterTyped, Calls, Away

\* A step of one thread leaves the others alone.
LEMMA OneCallChanges ==
    ASSUME LimiterTyped, NEW t \in Callers, NEW held \in Calls, call' = [call EXCEPT ![t] = held]
    PROVE  /\ call' \in [Callers -> Calls]
           /\ call'[t] = held
           /\ \A s \in Callers \ {t} : call'[s] = call[s]
  BY DEF LimiterTyped

LEMMA SinceIsFinite ==
    ASSUME LimiterTyped, NEW x
    PROVE  IsFiniteSet(Since(x)) /\ Cardinality(Since(x)) \in Nat
<1>1. DOMAIN admitted = 1 .. Len(admitted) /\ Len(admitted) \in Nat
  BY LenProperties DEF LimiterTyped
<1>2. IsFiniteSet(1 .. Len(admitted))
  BY <1>1, FS_Interval
<1>3. Since(x) \subseteq 1 .. Len(admitted)
  BY <1>1 DEF Since
<1> QED
  BY <1>2, <1>3, FS_Subset, FS_CardinalityType

LEMMA TransitiveLeq ==
    ASSUME NEW a \in Nat, NEW b \in Nat, NEW c \in Nat, a <= b, b <= c
    PROVE  a <= c
  OBVIOUS

\* An admitted call counts for every window that has begun.
LEMMA AdmissionCounts ==
    ASSUME LimiterTyped, admitted' = Append(admitted, now)
    PROVE  /\ admitted' \in Seq(Nat)
           /\ \A x \in Nat : x <= now => Cardinality(Since(x))' = Cardinality(Since(x)) + 1
<1>1. /\ DOMAIN admitted = 1 .. Len(admitted) /\ Len(admitted) \in Nat
      /\ admitted \in Seq(Nat) /\ now \in Nat
  BY LenProperties DEF LimiterTyped
<1>2. /\ admitted' \in Seq(Nat)
      /\ DOMAIN admitted' = 1 .. Len(admitted) + 1
      /\ \A i \in DOMAIN admitted : admitted'[i] = admitted[i]
      /\ admitted'[Len(admitted) + 1] = now
  BY <1>1, AppendProperties
<1>3. ASSUME NEW x \in Nat, x <= now PROVE Cardinality(Since(x))' = Cardinality(Since(x)) + 1
  <2>1. Since(x)' = Since(x) \cup {Len(admitted) + 1}
    BY <1>1, <1>2, <1>3 DEF Since
  <2>2. Len(admitted) + 1 \notin Since(x)
    BY <1>1 DEF Since
  <2> QED
    BY <2>1, <2>2, SinceIsFinite, FS_AddElement
<1> QED
  BY <1>2, <1>3

-----------------------------------------------------------------------------
(* The steps of a thread                                                   *)

LEMMA ReadClockKeeps == ASSUME LInv, NEW t \in Callers, ReadClock(t) PROVE LInv'
<1> USE DEF LInv
<1> DEFINE held == [pc |-> "clock", at |-> now]
<1>1. held \in Calls /\ held.pc = "clock" /\ held.at = now
  BY DEF Calls, LimiterTyped
<1>2. /\ call' = [call EXCEPT ![t] = held]
      /\ now' = now /\ window' = window /\ admitted' = admitted
  BY DEF ReadClock
<1> HIDE DEF held
<1>3. /\ call' \in [Callers -> Calls]
      /\ call'[t] = held
      /\ \A s \in Callers \ {t} : call'[s] = call[s]
  BY <1>1, <1>2, OneCallChanges
<1>4. now <= now
  BY DEF LimiterTyped
<1>5. LimiterTyped'
  BY <1>2, <1>3 DEF LimiterTyped
<1>6. \A x : Cardinality(Since(x))' = Cardinality(Since(x))
  BY <1>2 DEF Since
<1>7. CountsAreCovered'
  BY <1>1, <1>2, <1>3, <1>4, <1>6 DEF CountsAreCovered
<1> QED
  BY <1>5, <1>7

LEMMA ReadWindowKeeps == ASSUME LInv, NEW t \in Callers, ReadWindow(t) PROVE LInv'
<1> USE DEF LInv
<1> DEFINE w    == Window(call[t].at)
           held == [pc |-> "window", at |-> call[t].at, count |-> w.count, start |-> w.start]
<1>1. call[t] \in [pc : {"clock"}, at : Nat] /\ call[t].at \in Nat /\ call[t].at <= now
  BY CallByState DEF ReadWindow, CountsAreCovered
<1>2. /\ w.count \in Nat /\ w.start \in Nat /\ w.start <= now
      /\ call[t].at - w.start < Minute
      /\ w.count <= Cardinality(Since(w.start))
  <2>1. CASE \E v \in window : call[t].at - v.start < Minute
    <3>1. PICK v \in window : call[t].at - v.start < Minute
      BY <2>1
    <3>2. (CHOOSE u \in window : TRUE) = v
      BY <3>1 DEF CountsAreCovered
    <3>3. w = v
      BY <2>1, <3>2 DEF Window
    <3> QED
      BY <3>1, <3>3 DEF LimiterTyped, CountsAreCovered
  <2>2. CASE ~\E v \in window : call[t].at - v.start < Minute
    <3>1. w = [count |-> 0, start |-> call[t].at]
      BY <2>2 DEF Window
    <3>2. Cardinality(Since(call[t].at)) \in Nat
      BY SinceIsFinite
    <3> QED
      BY <1>1, <3>1, <3>2, RateLimiterAssumption DEF RateLimiterAssumption
  <2> QED
    BY <2>1, <2>2
<1>3. /\ call' = [call EXCEPT ![t] = held]
      /\ UNCHANGED <<now, window, admitted>>
  BY DEF ReadWindow
<1> HIDE DEF w
<1>4. /\ held \in Calls /\ held.pc = "window" /\ held.at = call[t].at
      /\ held.count = w.count /\ held.start = w.start
  BY <1>1, <1>2 DEF Calls
<1> HIDE DEF held
<1>5. /\ call' \in [Callers -> Calls]
      /\ call'[t] = held
      /\ \A s \in Callers \ {t} : call'[s] = call[s]
  BY <1>3, <1>4, OneCallChanges
<1>6. call[t].at <= now
  BY <1>1
<1> QED
  BY <1>2, <1>3, <1>4, <1>5, <1>6 DEF LimiterTyped, CountsAreCovered, Since

LEMMA WriteWindowKeeps == ASSUME LInv, NEW t \in Callers, WriteWindow(t) PROVE LInv'
<1> USE DEF LInv
<1>1. PICK at \in Nat, n \in Nat, x \in Nat :
        call[t].pc = "window" /\ call[t].at = at /\ call[t].count = n /\ call[t].start = x
  BY CallByState DEF WriteWindow
<1>2. x <= now /\ n <= Cardinality(Since(x))
  BY <1>1 DEF CountsAreCovered
<1>3. /\ call' \in [Callers -> Calls]
      /\ call'[t] = Away
      /\ \A s \in Callers \ {t} : call'[s] = call[s]
  <2>1. Away \in Calls
    BY DEF Calls
  <2> QED
    BY <2>1, OneCallChanges DEF WriteWindow
<1>4. Away.pc = "away" /\ now' = now
  BY DEF Away, WriteWindow
<1>5. /\ admitted' \in Seq(Nat)
      /\ \A y \in Nat : y <= now =>
            /\ Cardinality(Since(y)) \in Nat /\ Cardinality(Since(y))' \in Nat
            /\ Cardinality(Since(y)) <= Cardinality(Since(y))'
  <2>1. CASE admitted' = admitted
    <3>1. \A y \in Nat : Cardinality(Since(y)) \in Nat /\ Since(y)' = Since(y)
      BY <2>1, SinceIsFinite DEF Since
    <3> QED
      BY <2>1, <3>1 DEF LimiterTyped
  <2>2. CASE admitted' = Append(admitted, now)
    BY <2>2, SinceIsFinite, AdmissionCounts
  <2> QED
    BY <2>1, <2>2 DEF WriteWindow
<1>6. PICK count \in Nat :
        window' = {[count |-> count, start |-> x]} /\ count <= Cardinality(Since(x))'
  <2>1. CASE Denied(t)
    <3>1. window' = {[count |-> n, start |-> x]}
      BY <1>1, <2>1 DEF WriteWindow, Denial
    <3> QED
      BY <3>1, <1>2, <1>5, TransitiveLeq
  <2>2. CASE ~Denied(t)
    <3>1. window' = {[count |-> n + 1, start |-> x]} /\ admitted' = Append(admitted, now)
      BY <1>1, <2>2 DEF WriteWindow
    <3>2. Cardinality(Since(x))' = Cardinality(Since(x)) + 1 /\ Cardinality(Since(x)) \in Nat
      BY <3>1, <1>2, AdmissionCounts, SinceIsFinite
    <3> QED
      BY <3>1, <3>2, <1>2
  <2> QED
    BY <2>1, <2>2
<1>7. LimiterTyped'
  BY <1>3, <1>4, <1>5, <1>6 DEF LimiterTyped
<1>8. ASSUME NEW s \in Callers \ {t}, call[s].pc = "window"
      PROVE  /\ (call[s].at <= now /\ call[s].start <= now /\ call[s].at - call[s].start < Minute)'
             /\ (call[s].count <= Cardinality(Since(call[s].start)))'
  <2>1. PICK m \in Nat, y \in Nat : call[s].count = m /\ call[s].start = y
    BY <1>8, CallByState
  <2>2. /\ call[s].at <= now /\ y <= now /\ call[s].at - y < Minute
        /\ m <= Cardinality(Since(y))
    BY <1>8, <2>1 DEF CountsAreCovered
  <2>3. m <= Cardinality(Since(y))'
    BY <1>5, <2>2, TransitiveLeq
  <2>4. call'[s] = call[s]
    BY <1>3
  <2> QED
    BY <1>4, <2>1, <2>2, <2>3, <2>4
<1>9. CountsAreCovered'
  <2>1. \A v, w \in window' : v = w
    BY <1>6
  <2>2. (\A w \in window : w.start <= now /\ w.count <= Cardinality(Since(w.start)))'
    BY <1>2, <1>4, <1>6
  <2>3. (\A s \in Callers : call[s].pc = "clock" => call[s].at <= now)'
    BY <1>3, <1>4 DEF CountsAreCovered
  <2>4. (\A s \in Callers : call[s].pc = "window" =>
            /\ call[s].at <= now /\ call[s].start <= now
            /\ call[s].at - call[s].start < Minute
            /\ call[s].count <= Cardinality(Since(call[s].start)))'
    BY <1>3, <1>4, <1>8
  <2> QED
    BY <2>1, <2>2, <2>3, <2>4 DEF CountsAreCovered
<1> QED
  BY <1>7, <1>9

LEMMA TickKeeps == ASSUME LInv, Tick PROVE LInv'
<1> USE DEF LInv, Tick
<1>1. now' \in Nat /\ \A x \in Nat : x <= now => x <= now'
  BY DEF LimiterTyped
<1>2. LimiterTyped'
  BY <1>1 DEF LimiterTyped
<1>3. ASSUME NEW s \in Callers
      PROVE  /\ call[s].pc = "clock" => call[s].at <= now'
             /\ call[s].pc = "window" => call[s].at <= now' /\ call[s].start <= now'
  BY <1>1, CallByState DEF CountsAreCovered
<1>4. \A w \in window : w.start <= now'
  BY <1>1 DEF CountsAreCovered, LimiterTyped
<1> QED
  BY <1>2, <1>3, <1>4 DEF CountsAreCovered, Since

LEMMA LimiterStarts == ASSUME LimiterInit PROVE LInv
<1> USE DEF LimiterInit
<1>1. LimiterTyped
  BY DEF LimiterTyped, Calls
<1>2. CountsAreCovered
  BY DEF CountsAreCovered, Away
<1> QED
  BY <1>1, <1>2 DEF LInv

\* Threads that read and write the window without a lock keep every count covered.
THEOREM CountsStayCovered == LimiterSpec => []LInv
<1>1. LInv /\ [LimiterNext]_limiter => LInv'
  <2> SUFFICES ASSUME LInv, [LimiterNext]_limiter PROVE LInv'
    OBVIOUS
  <2>1. CASE LimiterNext
    BY <2>1, TickKeeps, ReadClockKeeps, ReadWindowKeeps, WriteWindowKeeps DEF LimiterNext
  <2>2. CASE UNCHANGED limiter
    BY <2>2 DEF limiter, LInv, LimiterTyped, CountsAreCovered, Since
  <2> QED
    BY <2>1, <2>2
<1> QED
  BY <1>1, LimiterStarts, PTL DEF LimiterSpec

\* The limiter errs only in favour of its clients: who is denied had PerMinute calls
\* admitted in the minute before.
THEOREM DenialsAreDue == LimiterSpec => []NobodyDeniedEarly
<1>1. LInv => NobodyDeniedEarly
  <2> SUFFICES ASSUME LInv, NEW t \in Callers, Denied(t)
               PROVE  AdmittedBefore(call[t].at) >= PerMinute
    BY DEF NobodyDeniedEarly
  <2>1. PICK at \in Nat, n \in Nat, x \in Nat :
          call[t].pc = "window" /\ call[t].at = at /\ call[t].count = n /\ call[t].start = x
    BY CallByState DEF Denied, LInv
  <2>2. n >= PerMinute /\ at - x < Minute /\ n <= Cardinality(Since(x))
    BY <2>1 DEF Denied, LInv, CountsAreCovered
  <2> DEFINE recent == {i \in DOMAIN admitted : admitted[i] > at - Minute}
  <2>3. Since(x) \subseteq recent
    <3>1. \A i \in DOMAIN admitted : admitted[i] \in Nat
      BY DEF LInv, LimiterTyped
    <3> QED
      BY <2>2, <3>1, RateLimiterAssumption DEF RateLimiterAssumption, Since
  <2>4. IsFiniteSet(recent)
    <3>1. DOMAIN admitted = 1 .. Len(admitted) /\ Len(admitted) \in Nat
      BY LenProperties DEF LInv, LimiterTyped
    <3>2. IsFiniteSet(1 .. Len(admitted)) /\ recent \subseteq 1 .. Len(admitted)
      BY <3>1, FS_Interval
    <3> QED
      BY <3>2, FS_Subset
  <2> HIDE DEF recent
  <2>5. Cardinality(Since(x)) <= Cardinality(recent) /\ Cardinality(recent) \in Nat
    BY <2>3, <2>4, FS_Subset, FS_CardinalityType
  <2>6. Cardinality(Since(x)) \in Nat
    BY SinceIsFinite DEF LInv
  <2>7. Cardinality(recent) >= PerMinute
    BY <2>2, <2>5, <2>6, RateLimiterAssumption DEF RateLimiterAssumption
  <2> QED
    BY <2>1, <2>7 DEF AdmittedBefore, recent
<1> QED
  BY <1>1, CountsStayCovered, PTL

-----------------------------------------------------------------------------
(* The scripts                                                             *)

LEMMA AllVersions ==
    /\ Versions = {1, 2, 3}
    /\ Statements[1] = Script001 /\ Statements[2] = Script002 /\ Statements[3] = Script003
    /\ DownScript[1] = Down001 /\ DownScript[2] = Down002 /\ DownScript[3] = Down003
  BY DEF Versions, Statements, DownScript

LEMMA Rows001 ==
    /\ DOMAIN Script001 = 1 .. 4 /\ Len(Script001) = 4
    /\ Script001[1] = Table("tenants") /\ Script001[2] = Seed
    /\ Script001[3] = Table("users") /\ Script001[4] = Table("deliverables")
  BY DEF Script001

LEMMA Rows002 ==
    /\ DOMAIN Script002 = 1 .. 2 /\ Len(Script002) = 2
    /\ Script002[1] = Table("webhooks") /\ Script002[2] = Column("users.must_rotate_key")
  BY DEF Script002

LEMMA Rows003 ==
    /\ DOMAIN Script003 = 1 .. 4 /\ Len(Script003) = 4
    /\ Script003[1] = Table("clients") /\ Script003[2] = Column("projects.campaign_id")
    /\ Script003[3] = Column("projects.client_id") /\ Script003[4] = Table("script_revisions")
  BY DEF Script003

LEMMA StatementFields ==
    /\ \A name : Table(name).op = "table" /\ Table(name).name = name
    /\ \A name : Column(name).op = "column" /\ Column(name).name = name
    /\ Seed.op = "seed"
    /\ VersionRow.op = "version"
  BY DEF Table, Column, Seed, VersionRow

\* What position i of the script of a version holds: the statements, then its row.
LEMMA Scripts ==
    ASSUME NEW v \in Versions
    PROVE  /\ DOMAIN Statements[v] = 1 .. Len(Statements[v]) /\ Len(Statements[v]) \in Nat
           /\ \A i \in DOMAIN Statements[v] :
                /\ Script(v)[i] = Statements[v][i]
                /\ Statements[v][i].op \in {"table", "column", "seed"}
                /\ Statements[v][i].op = "seed" => v = 1 /\ i = 2
           /\ Len(Script(v)) = Len(Statements[v]) + 1
           /\ Script(v)[Len(Statements[v]) + 1] = VersionRow
<1>1. ASSUME NEW s \in Seq([op : {"table", "column", "seed"}, name : STRING])
      PROVE  /\ DOMAIN s = 1 .. Len(s) /\ Len(s) \in Nat
             /\ Len(Append(s, VersionRow)) = Len(s) + 1
             /\ Append(s, VersionRow)[Len(s) + 1] = VersionRow
             /\ \A i \in DOMAIN s : Append(s, VersionRow)[i] = s[i]
  OBVIOUS
<1> QED
  BY AllVersions, Rows001, Rows002, Rows003, StatementFields DEF Script

\* The tables and columns that the versions add.
LEMMA Names ==
    /\ Adds(1) = {"tenants", "users", "deliverables"}
    /\ Adds(2) = {"webhooks", "users.must_rotate_key"}
    /\ Adds(3) = {"clients", "projects.campaign_id", "projects.client_id", "script_revisions"}
<1>1. ASSUME NEW v \in Versions
      PROVE  \A x : x \in Adds(v) <=> \E i \in DOMAIN Statements[v] :
                        Statements[v][i].op # "seed" /\ x = Statements[v][i].name
  BY DEF Adds
<1> HIDE DEF Adds
<1>2. Adds(1) = {"tenants", "users", "deliverables"}
  BY <1>1, AllVersions, Rows001, StatementFields
<1>3. Adds(2) = {"webhooks", "users.must_rotate_key"}
  BY <1>1, AllVersions, Rows002, StatementFields
<1>4. Adds(3) = {"clients", "projects.campaign_id", "projects.client_id", "script_revisions"}
  BY <1>1, AllVersions, Rows003, StatementFields
<1> QED
  BY <1>2, <1>3, <1>4

\* A downgrade drops what its version added, and nothing of another version.
LEMMA DownUndoesUp ==
    ASSUME NEW v \in Versions, NEW w \in Versions, v # w, NEW i \in DOMAIN DownScript[v]
    PROVE  DownScript[v][i] \notin Adds(w)
<1>1. DOMAIN Down001 = 1 .. 3 /\ DOMAIN Down002 = 1 .. 2 /\ DOMAIN Down003 = 1 .. 4
  BY DEF Down001, Down002, Down003
<1>2. /\ \A j \in 1 .. 3 : Down001[j] \in Adds(1)
      /\ \A j \in 1 .. 2 : Down002[j] \in Adds(2)
      /\ \A j \in 1 .. 4 : Down003[j] \in Adds(3)
  BY Names DEF Down001, Down002, Down003
<1>3. DownScript[v][i] \in Adds(v)
  BY <1>1, <1>2, AllVersions
<1>4. Adds(1) \cap Adds(2) = {} /\ Adds(1) \cap Adds(3) = {} /\ Adds(2) \cap Adds(3) = {}
  BY Names
<1> QED
  BY <1>3, <1>4, AllVersions

-----------------------------------------------------------------------------
(* The invariant of the schema                                             *)

Processes ==
    {Stopped} \cup [pc : {"up"}]
    \cup [pc : {"migrating"}, at : Nat, done : SUBSET Versions, version : Versions]
Operators == {Stopped} \cup [pc : {"dropping"}, at : Nat \ {0}, version : Versions]

MTyped ==
    /\ applied \subseteq Versions /\ torn \subseteq applied
    /\ service \in [Services -> Processes]
    /\ operator \in Operators

\* An operator takes a version back while no process runs.
OperatorAlone ==
    operator # Stopped => operator.version \in applied /\ \A s \in Services : service[s] = Stopped

\* An applied version has its tables and columns, unless it is being taken back or was in part.
AppliedAreThere ==
    \A v \in applied \ torn : operator = Stopped \/ operator.version # v => Adds(v) \subseteq schema

\* The only transaction that stays open is that of the first version, behind its seed.
WriterIsSeeding ==
    \A w \in writer :
        /\ DOMAIN w = {"by", "tables"} /\ w.by \in Services
        /\ service[w.by].pc = "migrating" /\ service[w.by].version = 1 /\ service[w.by].at >= 3

\* What process s has not committed.
Uncommitted(s) == UNION {w.tables : w \in {x \in writer : x.by = s}}

\* A process that runs a version has applied those before it, and finds what the
\* statements before its next one made.
Progress(s) ==
    LET m == service[s] IN
    /\ m.pc = "up" => applied = Versions
    /\ m.pc = "migrating" =>
        /\ m.at \in 1 .. Len(Statements[m.version]) + 1
        /\ m.done \subseteq applied
        /\ \A w \in Versions : w < m.version => w \in applied
        /\ \A i \in 1 .. (m.at - 1) : Statements[m.version][i].op # "seed" =>
                Statements[m.version][i].name \in schema \cup Uncommitted(s)

MInv ==
    /\ MTyped /\ OperatorAlone /\ AppliedAreThere /\ WriterIsSeeding
    /\ \A s \in Services : Progress(s)

-----------------------------------------------------------------------------
(* Lemmas about processes                                                  *)

LEMMA ServiceByState ==
    ASSUME MTyped, NEW s \in Services, service[s].pc = "migrating"
    PROVE  /\ service[s] \in [pc : {"migrating"}, at : Nat, done : SUBSET Versions, version : Versions]
           /\ service[s] # Stopped
  BY DEF MTyped, Processes, Stopped

LEMMA OneProcessChanges ==
    ASSUME MTyped, NEW s \in Services, NEW m \in Processes, service' = [service EXCEPT ![s] = m]
    PROVE  /\ service' \in [Services -> Processes]
           /\ service'[s] = m
           /\ \A q \in Services \ {s} : service'[q] = service[q]
  BY DEF MTyped

\* The next version is the least that was not applied when the process started.
LEMMA NextVersion ==
    ASSUME NEW v \in 0 .. 3, NEW done \in SUBSET Versions
    PROVE  LET m == After(v, done) IN
           /\ m \in Processes
           /\ m.pc = "up" => \A w \in Versions : w > v => w \in done
           /\ m.pc = "migrating" =>
                /\ m.at = 1 /\ m.done = done /\ m.version \in Versions
                /\ \A w \in Versions : w > v /\ w < m.version => w \in done
           /\ m.pc \in {"up", "migrating"}
<1> DEFINE open == {w \in Versions : w > v /\ w \notin done}
           next == CHOOSE w \in open : \A x \in open : w <= x
<1>1. CASE open = {}
  <2>1. After(v, done) = [pc |-> "up"]
    BY <1>1 DEF After
  <2> QED
    BY <1>1, <2>1 DEF Processes
<1>2. CASE open # {}
  <2>1. \E w \in open : \A x \in open : w <= x
    <3>1. open \subseteq {1, 2, 3}
      BY AllVersions
    <3>2. CASE 1 \in open
      BY <3>1, <3>2
    <3>3. CASE 1 \notin open /\ 2 \in open
      BY <3>1, <3>3
    <3>4. CASE 1 \notin open /\ 2 \notin open
      BY <3>1, <3>4, <1>2
    <3> QED
      BY <3>2, <3>3, <3>4
  <2>2. next \in open /\ \A x \in open : next <= x
    BY <2>1
  <2>3. After(v, done) = [pc |-> "migrating", at |-> 1, done |-> done, version |-> next]
    BY <1>2 DEF After
  <2> HIDE DEF next
  <2>4. next \in Versions /\ \A w \in Versions : w > v /\ w < next => w \in done
    BY <2>2, AllVersions
  <2> QED
    BY <2>3, <2>4 DEF Processes
<1> QED
  BY <1>1, <1>2

\* The process that leaves or goes on changes nothing for the others.
LEMMA OthersGoOn ==
    ASSUME MInv, NEW s \in Services, service'[s] = service[s],
           applied \subseteq applied', applied' \subseteq Versions,
           schema \cup Uncommitted(s) \subseteq schema' \cup UNION {w.tables : w \in {x \in writer' : x.by = s}}
    PROVE  Progress(s)'
<1>1. Progress(s)
  BY DEF MInv
<1>2. (Uncommitted(s))' = UNION {w.tables : w \in {x \in writer' : x.by = s}}
  BY DEF Uncommitted
<1> QED
  BY <1>1, <1>2 DEF Progress

LEMMA DiesKeeps ==
    ASSUME MInv, NEW s \in Services, Dies(s), service[s] # Stopped,
           UNCHANGED <<operator, torn>>
    PROVE  MInv'
<1> USE DEF MInv
<1>1. /\ service' \in [Services -> Processes]
      /\ service'[s] = Stopped
      /\ \A q \in Services \ {s} : service'[q] = service[q]
  <2>1. Stopped \in Processes
    BY DEF Processes
  <2> QED
    BY <2>1, OneProcessChanges DEF Dies
<1>2. UNCHANGED <<schema, applied>> /\ writer' = {w \in writer : w.by # s}
  BY DEF Dies
<1>3. MTyped' /\ OperatorAlone' /\ AppliedAreThere'
  BY <1>1, <1>2 DEF MTyped, OperatorAlone, AppliedAreThere
<1>4. WriterIsSeeding'
  BY <1>1, <1>2 DEF WriterIsSeeding
<1>5. Progress(s)'
  BY <1>1 DEF Progress, Stopped
<1>6. ASSUME NEW q \in Services \ {s} PROVE Progress(q)'
  <2>1. {x \in writer' : x.by = q} = {x \in writer : x.by = q}
    BY <1>2
  <2> QED
    BY <2>1, <1>1, <1>2, OthersGoOn DEF Uncommitted, MTyped
<1> QED
  BY <1>3, <1>4, <1>5, <1>6

\* A process at a statement of its script.
LEMMA AtStatement ==
    ASSUME MInv, NEW s \in Services, service[s].pc = "migrating"
    PROVE  LET m == service[s] IN
           /\ m.version \in Versions /\ m.at \in Nat /\ m.at >= 1 /\ m.done \subseteq Versions
           /\ Len(Statements[m.version]) \in Nat
           /\ m.at = Len(Script(m.version)) <=> m.at = Len(Statements[m.version]) + 1
           /\ m.at = Len(Statements[m.version]) + 1 <=> Script(m.version)[m.at].op = "version"
           /\ m.at \in DOMAIN Statements[m.version] =>
                /\ Script(m.version)[m.at] = Statements[m.version][m.at]
                /\ Script(m.version)[m.at].op \in {"table", "column", "seed"}
                /\ Script(m.version)[m.at].op = "seed" => m.version = 1 /\ m.at = 2
           /\ m.at \in DOMAIN Statements[m.version] \/ m.at = Len(Statements[m.version]) + 1
<1>1. service[s].version \in Versions /\ service[s].at \in Nat /\ service[s].done \subseteq Versions
  BY ServiceByState DEF MInv
<1>2. service[s].at \in 1 .. Len(Statements[service[s].version]) + 1
  BY DEF MInv, Progress
<1>3. PICK v \in Versions, at \in Nat : v = service[s].version /\ at = service[s].at
  BY <1>1
<1> DEFINE last == Len(Statements[v]) + 1
<1>4. at >= 1 /\ (at \in DOMAIN Statements[v] \/ at = last) /\ last - 1 \in Nat
  BY <1>2, <1>3, Scripts
<1>5. CASE at = last
  <2>1. Len(Script(v)) = last /\ Script(v)[at].op = "version" /\ at \notin DOMAIN Statements[v]
    BY <1>4, <1>5, Scripts, StatementFields
  <2> QED
    BY <1>1, <1>3, <1>4, <1>5, <2>1
<1>6. CASE at \in DOMAIN Statements[v]
  <2>1. Len(Script(v)) = last /\ at # last
    BY <1>4, <1>6, Scripts
  <2>2. /\ Script(v)[at] = Statements[v][at]
        /\ Script(v)[at].op \in {"table", "column", "seed"}
        /\ Script(v)[at].op = "seed" => v = 1 /\ at = 2
    BY <1>6, Scripts
  <2> QED
    BY <1>1, <1>3, <1>4, <1>6, <2>1, <2>2
<1> QED
  BY <1>4, <1>5, <1>6

-----------------------------------------------------------------------------
(* The steps of a process                                                  *)

LEMMA StartServiceKeeps == ASSUME MInv, NEW s \in Services, StartService(s) PROVE MInv'
<1> USE DEF MInv, StartService
<1>1. PICK m : m = After(0, applied)
  OBVIOUS
<1>2. /\ m \in Processes
      /\ m.pc = "up" => \A w \in Versions : w \in applied
      /\ m.pc = "migrating" =>
            /\ m.at = 1 /\ m.done = applied /\ m.version \in Versions
            /\ \A w \in Versions : w < m.version => w \in applied
  <2>1. applied \in SUBSET Versions /\ 0 \in 0 .. 3 /\ \A w \in Versions : w > 0
    BY AllVersions DEF MTyped
  <2> QED
    BY <1>1, <2>1, NextVersion
<1>3. /\ service' \in [Services -> Processes]
      /\ service'[s] = m
      /\ \A q \in Services \ {s} : service'[q] = service[q]
  BY <1>1, <1>2, OneProcessChanges
<1>4. MTyped' /\ OperatorAlone' /\ AppliedAreThere'
  BY <1>3 DEF MTyped, OperatorAlone, AppliedAreThere
<1>5. WriterIsSeeding'
  BY <1>3 DEF WriterIsSeeding, Stopped
<1>6. Progress(s)'
  <2>1. CASE m.pc = "up"
    BY <1>2, <1>3, <2>1 DEF Progress, MTyped
  <2>2. CASE m.pc = "migrating"
    <3>1. m.at = 1 /\ 1 \in 1 .. Len(Statements[m.version]) + 1
      BY <1>2, <2>2, Scripts
    <3> QED
      BY <1>2, <1>3, <2>2, <3>1 DEF Progress
  <2>3. CASE m.pc \notin {"up", "migrating"}
    BY <1>3, <2>3 DEF Progress
  <2> QED
    BY <2>1, <2>2, <2>3
<1>7. ASSUME NEW q \in Services \ {s} PROVE Progress(q)'
  BY <1>3, OthersGoOn DEF MTyped, Uncommitted
<1> QED
  BY <1>4, <1>5, <1>6, <1>7

LEMMA SeedKeeps ==
    ASSUME MInv, NEW s \in Services, service[s].pc = "migrating", \A w \in writer : w.by = s,
           Script(service[s].version)[service[s].at].op = "seed",
           writer' = {[by |-> s, tables |-> {}]}, Advances(s),
           UNCHANGED <<schema, applied, operator, torn>>
    PROVE  MInv'
<1> USE DEF MInv
<1>1. service[s].version = 1 /\ service[s].at = 2 /\ service[s].at # Len(Script(service[s].version))
  <2>1. service[s].at \in DOMAIN Statements[service[s].version]
    BY AtStatement
  <2> QED
    BY <2>1, AtStatement, AllVersions, Rows001
<1>2. writer = {}
  BY <1>1 DEF WriterIsSeeding
<1> DEFINE m == [service[s] EXCEPT !.at = @ + 1]
<1>3. service[s] \in [pc : {"migrating"}, at : Nat, done : SUBSET Versions, version : Versions]
  BY ServiceByState
<1>4. /\ m \in Processes /\ m.pc = "migrating" /\ m.version = 1 /\ m.at = 3 /\ m.done = service[s].done
  BY <1>1, <1>3 DEF Processes
<1>5. service' = [service EXCEPT ![s] = m]
  BY <1>1 DEF Advances
<1> HIDE DEF m
<1>6. /\ service' \in [Services -> Processes]
      /\ service'[s] = m
      /\ \A q \in Services \ {s} : service'[q] = service[q]
  BY <1>4, <1>5, OneProcessChanges
<1>7. operator = Stopped
  BY DEF OperatorAlone, Stopped
<1>8. MTyped' /\ OperatorAlone' /\ AppliedAreThere'
  BY <1>6, <1>7 DEF MTyped, OperatorAlone, AppliedAreThere
<1>9. WriterIsSeeding'
  <2>1. \A w \in writer' : w.by = s
    OBVIOUS
  <2> QED
    BY <1>4, <1>6, <2>1 DEF WriterIsSeeding
<1>10. Progress(s)'
  <2>1. m.at \in 1 .. Len(Statements[m.version]) + 1
    BY <1>4, AllVersions, Rows001
  <2>2. \A i \in 1 .. 2 : Statements[1][i].op # "seed" => Statements[1][i].name \in schema
    <3>1. Statements[1][2].op = "seed"
      BY AllVersions, Rows001, StatementFields
    <3>2. Uncommitted(s) = {}
      BY <1>2 DEF Uncommitted
    <3>3. Progress(s) /\ service[s].at = 2 /\ service[s].version = 1 /\ 1 \in 1 .. (2 - 1)
      BY <1>1
    <3>4. \A i \in 1 .. (2 - 1) : Statements[1][i].op # "seed" =>
            Statements[1][i].name \in schema \cup Uncommitted(s)
      BY <3>3 DEF Progress
    <3>5. Statements[1][1].op # "seed" => Statements[1][1].name \in schema
      BY <3>2, <3>3, <3>4
    <3> QED
      BY <3>1, <3>5
  <2>3. 3 - 1 = 2
    OBVIOUS
  <2>4. service[s].done \subseteq applied /\ \A w \in Versions : w < 1 => w \in applied
    BY <1>1 DEF Progress
  <2> QED
    BY <1>4, <1>6, <2>1, <2>2, <2>3, <2>4 DEF Progress
<1>11. ASSUME NEW q \in Services \ {s} PROVE Progress(q)'
  BY <1>2, <1>6, OthersGoOn DEF MTyped, Uncommitted
<1> QED
  BY <1>8, <1>9, <1>10, <1>11

\* The version is recorded with everything its statements made.
LEMMA VersionKeeps ==
    ASSUME MInv, NEW s \in Services, service[s].pc = "migrating", \A w \in writer : w.by = s,
           Script(service[s].version)[service[s].at].op = "version",
           service[s].version \notin applied,
           applied' = applied \cup {service[s].version},
           schema' = schema \cup UNION {w.tables : w \in writer},
           writer' = {}, Advances(s), UNCHANGED <<operator, torn>>
    PROVE  MInv'
<1> USE DEF MInv
<1>1. PICK v \in Versions : v = service[s].version
  BY AtStatement
<1>2. service[s].at = Len(Statements[v]) + 1 /\ service[s].at = Len(Script(v)) /\ Len(Statements[v]) \in Nat
  BY <1>1, AtStatement
<1>3. PICK m : m = After(v, service[s].done)
  OBVIOUS
<1>4. /\ service[s].done \subseteq applied
      /\ \A w \in Versions : w < v => w \in applied
      /\ \A i \in DOMAIN Statements[v] : Statements[v][i].op # "seed" => Statements[v][i].name \in schema'
  <2>1. Uncommitted(s) \subseteq UNION {w.tables : w \in writer}
    BY DEF Uncommitted
  <2>2. DOMAIN Statements[v] = 1 .. Len(Statements[v]) /\ service[s].at - 1 = Len(Statements[v])
    BY <1>2, Scripts
  <2> QED
    BY <1>1, <2>1, <2>2 DEF Progress
<1>5. Adds(v) \subseteq schema'
  BY <1>4 DEF Adds
<1>6. applied \subseteq applied' /\ applied' \subseteq Versions /\ schema \subseteq schema'
  BY <1>1 DEF MTyped
<1>7. \A w \in Versions : w <= v => w \in applied'
  BY <1>1, <1>4, AllVersions
<1>8. /\ m \in Processes
      /\ m.pc = "up" => \A w \in Versions : w \in applied'
      /\ m.pc = "migrating" =>
            /\ m.at = 1 /\ m.done \subseteq applied' /\ m.version \in Versions
            /\ \A w \in Versions : w < m.version => w \in applied'
  <2>1. service[s].done \in SUBSET Versions /\ v \in 0 .. 3
    BY AtStatement, AllVersions
  <2>2. \A w \in Versions : w > v \/ w <= v
    BY AllVersions
  <2> QED
    BY <1>3, <1>4, <1>6, <1>7, <2>1, <2>2, NextVersion
<1>9. /\ service' \in [Services -> Processes]
      /\ service'[s] = m
      /\ \A q \in Services \ {s} : service'[q] = service[q]
  BY <1>1, <1>2, <1>3, <1>8, OneProcessChanges DEF Advances
<1>10. operator = Stopped
  BY DEF OperatorAlone, Stopped
<1>11. MTyped' /\ OperatorAlone' /\ WriterIsSeeding'
  BY <1>6, <1>9, <1>10 DEF MTyped, OperatorAlone, WriterIsSeeding
<1>12. AppliedAreThere'
  BY <1>1, <1>5, <1>6, <1>10 DEF AppliedAreThere
<1>13. Progress(s)'
  <2>1. CASE m.pc = "up"
    BY <1>6, <1>8, <1>9, <2>1 DEF Progress
  <2>2. CASE m.pc = "migrating"
    <3>1. m.at = 1 /\ 1 \in 1 .. Len(Statements[m.version]) + 1
      BY <1>8, <2>2, Scripts
    <3> QED
      BY <1>8, <1>9, <2>2, <3>1 DEF Progress
  <2>3. CASE m.pc \notin {"up", "migrating"}
    BY <1>9, <2>3 DEF Progress
  <2> QED
    BY <2>1, <2>2, <2>3
<1>14. ASSUME NEW q \in Services \ {s} PROVE Progress(q)'
  <2>1. Uncommitted(q) = {}
    BY DEF Uncommitted
  <2> QED
    BY <1>6, <1>9, <2>1, OthersGoOn
<1> QED
  BY <1>11, <1>12, <1>13, <1>14

\* A table or a column appears at once, or in the open transaction of its process.
Appears(name) ==
    IF writer = {} THEN schema' = schema \cup {name} /\ UNCHANGED writer
    ELSE /\ writer' = {[w EXCEPT !.tables = @ \cup {name}] : w \in writer}
         /\ UNCHANGED schema

LEMMA StatementKeeps ==
    ASSUME MInv, NEW s \in Services, service[s].pc = "migrating", \A w \in writer : w.by = s,
           Script(service[s].version)[service[s].at].op \in {"table", "column"},
           NEW name, name = Script(service[s].version)[service[s].at].name,
           Appears(name), Advances(s), UNCHANGED <<applied, operator, torn>>
    PROVE  MInv'
<1> USE DEF MInv, Appears
<1>1. PICK v \in Versions, at \in Nat :
        v = service[s].version /\ at = service[s].at /\ at >= 1 /\ at + 1 \in Nat
  BY AtStatement
<1>2. /\ at \in DOMAIN Statements[v] /\ DOMAIN Statements[v] = 1 .. Len(Statements[v])
      /\ at # Len(Script(v)) /\ at <= Len(Statements[v]) /\ Len(Statements[v]) \in Nat
      /\ name = Statements[v][at].name
  BY <1>1, AtStatement, Scripts
<1> DEFINE m == [service[s] EXCEPT !.at = @ + 1]
<1>3. service[s] \in [pc : {"migrating"}, at : Nat, done : SUBSET Versions, version : Versions]
  BY ServiceByState
<1>4. m \in Processes /\ m.pc = "migrating" /\ m.version = v /\ m.at = at + 1 /\ m.done = service[s].done
  BY <1>1, <1>3 DEF Processes
<1>5. service' = [service EXCEPT ![s] = m]
  BY <1>1, <1>2 DEF Advances
<1> HIDE DEF m
<1>6. /\ service' \in [Services -> Processes]
      /\ service'[s] = m
      /\ \A q \in Services \ {s} : service'[q] = service[q]
  BY <1>4, <1>5, OneProcessChanges
<1>7. operator = Stopped
  BY DEF OperatorAlone, Stopped
<1>8. schema \subseteq schema'
  OBVIOUS
<1>9. MTyped' /\ OperatorAlone' /\ AppliedAreThere'
  BY <1>6, <1>7, <1>8 DEF MTyped, OperatorAlone, AppliedAreThere
<1>10. \A w \in writer' : DOMAIN w = {"by", "tables"} /\ w.by = s /\ (writer # {})
  BY DEF WriterIsSeeding
<1>11. writer # {} => v = 1 /\ at >= 3
  BY <1>1 DEF WriterIsSeeding
<1>12. WriterIsSeeding'
  <2>1. at >= 3 => at + 1 >= 3
    BY <1>1
  <2> QED
    BY <1>4, <1>6, <1>10, <1>11, <2>1 DEF WriterIsSeeding
<1>13. Uncommitted(s) \cup schema \cup {name} \subseteq schema' \cup Uncommitted(s)'
  <2>1. CASE writer = {}
    BY <2>1 DEF Uncommitted
  <2>2. CASE writer # {}
    <3>1. /\ writer' = {[w EXCEPT !.tables = @ \cup {name}] : w \in writer}
          /\ schema' = schema
      BY <2>2
    <3>2. ASSUME NEW w \in writer
          PROVE  \E u \in writer' : u.by = s /\ w.tables \cup {name} \subseteq u.tables
      <4>1. DOMAIN w = {"by", "tables"} /\ w.by = s
        BY DEF WriterIsSeeding
      <4> DEFINE u == [w EXCEPT !.tables = @ \cup {name}]
      <4>2. u \in writer' /\ u.by = s /\ u.tables = w.tables \cup {name}
        BY <3>1, <4>1
      <4> QED
        BY <4>2
    <3> QED
      <4>1. ASSUME NEW w \in writer PROVE w.tables \cup {name} \subseteq Uncommitted(s)'
        <5>1. PICK u \in writer' : u.by = s /\ w.tables \cup {name} \subseteq u.tables
          BY <3>2
        <5> QED
          BY <5>1 DEF Uncommitted
      <4>2. Uncommitted(s) \subseteq UNION {w.tables : w \in writer}
        BY DEF Uncommitted
      <4> QED
        BY <2>2, <3>1, <4>1, <4>2
  <2> QED
    BY <2>1, <2>2
<1>14. Progress(s)'
  <2>1. m.at \in 1 .. Len(Statements[m.version]) + 1
    BY <1>1, <1>2, <1>4
  <2>2. /\ service[s].done \subseteq applied
        /\ \A w \in Versions : w < v => w \in applied
        /\ \A i \in 1 .. (at - 1) : Statements[v][i].op # "seed" =>
                Statements[v][i].name \in schema \cup Uncommitted(s)
    BY <1>1 DEF Progress
  <2>3. m.at - 1 = at /\ \A i \in 1 .. at : i = at \/ i \in 1 .. (at - 1)
    BY <1>1, <1>4
  <2>4. \A i \in 1 .. at : Statements[v][i].op # "seed" => Statements[v][i].name \in schema' \cup Uncommitted(s)'
    BY <1>2, <1>13, <2>2, <2>3
  <2> QED
    BY <1>4, <1>6, <2>1, <2>2, <2>3, <2>4 DEF Progress
<1>15. ASSUME NEW q \in Services \ {s} PROVE Progress(q)'
  <2>1. Uncommitted(q) = {}
    BY DEF Uncommitted
  <2> QED
    BY <1>6, <1>8, <2>1, OthersGoOn DEF MTyped
<1> QED
  BY <1>9, <1>12, <1>14, <1>15

LEMMA ExecuteKeeps == ASSUME MInv, NEW s \in Services, Execute(s) PROVE MInv'
<1> USE DEF MInv
<1>1. /\ service[s].pc = "migrating"
      /\ \A w \in writer : w.by = s
      /\ UNCHANGED <<operator, torn, faults>>
  BY DEF Execute
<1>2. PICK stmt : stmt = Script(service[s].version)[service[s].at]
  OBVIOUS
<1>3. stmt.op \in {"seed", "version", "table", "column"}
  BY <1>1, <1>2, AtStatement
<1>4. CASE stmt.op = "seed"
  BY <1>1, <1>2, <1>4, SeedKeeps DEF Execute
<1>5. CASE stmt.op = "version"
  <2>1. CASE service[s].version \in applied
    BY <1>1, <1>2, <1>5, <2>1, DiesKeeps, ServiceByState DEF Execute
  <2>2. CASE service[s].version \notin applied
    BY <1>1, <1>2, <1>5, <2>2, VersionKeeps DEF Execute
  <2> QED
    BY <2>1, <2>2
<1>6. CASE stmt.op \in {"table", "column"}
  <2>1. CASE Dies(s)
    BY <1>1, <2>1, DiesKeeps, ServiceByState
  <2>2. CASE ~Dies(s)
    <3>0. PICK name : name = stmt.name
      OBVIOUS
    <3>1. Appears(name) /\ Advances(s) /\ UNCHANGED applied
      BY <1>2, <1>6, <2>2, <3>0 DEF Execute, Appears
    <3>2. name = Script(service[s].version)[service[s].at].name
      BY <1>2, <3>0
    <3> QED
      BY <1>1, <1>2, <1>6, <3>1, <3>2, StatementKeeps
  <2> QED
    BY <2>1, <2>2
<1> QED
  BY <1>3, <1>4, <1>5, <1>6

-----------------------------------------------------------------------------
(* The steps of the operator                                               *)

LEMMA LastVersion ==
    ASSUME applied \subseteq Versions, applied # {}
    PROVE  (CHOOSE v \in applied : \A w \in applied : w <= v) \in applied
<1>1. \E v \in applied : \A w \in applied : w <= v
  <2>1. applied \subseteq {1, 2, 3}
    BY AllVersions
  <2>2. CASE 3 \in applied
    BY <2>1, <2>2
  <2>3. CASE 3 \notin applied /\ 2 \in applied
    BY <2>1, <2>3
  <2>4. CASE 3 \notin applied /\ 2 \notin applied
    <3>1. \A w \in applied : w = 1
      BY <2>1, <2>4
    <3> QED
      BY <3>1
  <2> QED
    BY <2>2, <2>3, <2>4
<1> QED
  BY <1>1

LEMMA OperatorKeeps ==
    ASSUME MInv, BeginDowngrade \/ Drop \/ DeleteVersion \/ CutDowngradeShort
    PROVE  MInv'
<1> USE DEF MInv
<1>1. UNCHANGED <<service, writer>> /\ \A s \in Services : service[s] = Stopped
  BY DEF BeginDowngrade, Drop, DeleteVersion, CutDowngradeShort, OperatorAlone, Stopped
<1>2. \A s \in Services : Progress(s)'
  BY <1>1 DEF Progress, Stopped
<1>3. WriterIsSeeding'
  BY <1>1 DEF WriterIsSeeding
<1>4. CASE BeginDowngrade
  <2>1. PICK v : v = CHOOSE last \in applied : \A w \in applied : w <= last
    OBVIOUS
  <2>2. v \in applied /\ v \in Versions
    BY <1>4, <2>1, LastVersion DEF BeginDowngrade, MTyped
  <2>3. operator' = [pc |-> "dropping", at |-> 1, version |-> v]
    BY <1>4, <2>1 DEF BeginDowngrade
  <2>4. operator' \in Operators /\ operator'.version = v
    BY <2>2, <2>3 DEF Operators
  <2>5. operator = Stopped /\ UNCHANGED <<schema, applied, torn>>
    BY <1>4 DEF BeginDowngrade
  <2> QED
    BY <1>1, <1>2, <1>3, <2>2, <2>4, <2>5 DEF MTyped, OperatorAlone, AppliedAreThere
<1>5. ASSUME operator.pc = "dropping"
      PROVE  /\ operator \in [pc : {"dropping"}, at : Nat \ {0}, version : Versions]
             /\ operator # Stopped /\ operator.version \in applied
  BY <1>5 DEF MTyped, Operators, OperatorAlone, Stopped
<1>6. CASE Drop
  <2>1. PICK v \in Versions, at \in Nat \ {0} : v = operator.version /\ at = operator.at
    BY <1>5, <1>6 DEF Drop
  <2>2. /\ operator' \in Operators /\ operator'.version = v /\ operator' # Stopped
    BY <1>5, <1>6, <2>1 DEF Drop, Operators, Stopped
  <2>3. schema' = schema \ {DownScript[v][at]} /\ UNCHANGED <<applied, torn>>
    BY <1>6, <2>1 DEF Drop
  <2>4. at \in DOMAIN DownScript[v]
    BY <1>6, <2>1, AllVersions DEF Drop, Down001, Down002, Down003
  <2>5. \A w \in applied \ {v} : DownScript[v][at] \notin Adds(w)
    BY <2>4, DownUndoesUp DEF MTyped
  <2>6. AppliedAreThere'
    <3> SUFFICES ASSUME NEW w \in applied \ torn, w # v PROVE Adds(w) \subseteq schema'
      BY <2>2, <2>3 DEF AppliedAreThere
    <3>1. Adds(w) \subseteq schema
      BY <2>1 DEF AppliedAreThere
    <3> QED
      BY <2>3, <2>5, <3>1
  <2> QED
    BY <1>1, <1>2, <1>3, <1>5, <1>6, <2>1, <2>2, <2>3, <2>6 DEF MTyped, OperatorAlone, Drop
<1>7. CASE DeleteVersion
  <2>1. operator # Stopped /\ operator.version \in applied /\ operator' = Stopped
    BY <1>5, <1>7 DEF DeleteVersion
  <2>2. /\ applied' = applied \ {operator.version} /\ torn' = torn \ {operator.version}
        /\ schema' = schema
    BY <1>7 DEF DeleteVersion
  <2> QED
    BY <1>1, <1>2, <1>3, <2>1, <2>2 DEF MTyped, OperatorAlone, AppliedAreThere, Operators
<1>8. CASE CutDowngradeShort
  <2>1. operator # Stopped /\ operator.version \in applied /\ operator' = Stopped
    BY <1>8 DEF CutDowngradeShort, OperatorAlone
  <2>2. UNCHANGED <<schema, applied>> /\ torn' = torn \cup {operator.version}
    BY <1>8 DEF CutDowngradeShort
  <2> QED
    BY <1>1, <1>2, <1>3, <2>1, <2>2 DEF MTyped, OperatorAlone, AppliedAreThere, Operators
<1> QED
  BY <1>4, <1>6, <1>7, <1>8

-----------------------------------------------------------------------------
(* Theorems                                                                *)

LEMMA MigrationsStart == ASSUME MigrationsInit PROVE MInv
<1> USE DEF MigrationsInit
<1>1. MTyped
  BY DEF MTyped, Processes, Operators
<1> QED
  BY <1>1 DEF MInv, OperatorAlone, AppliedAreThere, WriterIsSeeding, Progress, Stopped

\* A process that runs a version has applied all before it, and nothing that an applied
\* version added is missing unless the operator takes it back.
THEOREM VersionsStayWhole == MigrationsSpec => []MInv
<1>1. MInv /\ [MigrationsNext]_migrations => MInv'
  <2> SUFFICES ASSUME MInv, [MigrationsNext]_migrations PROVE MInv'
    OBVIOUS
  <2>1. CASE \E s \in Services : StartService(s) \/ Execute(s)
    BY <2>1, StartServiceKeeps, ExecuteKeeps
  <2>2. CASE \E s \in Services : StopService(s)
    BY <2>2, DiesKeeps DEF StopService
  <2>3. CASE BeginDowngrade \/ Drop \/ DeleteVersion \/ CutDowngradeShort
    BY <2>3, OperatorKeeps
  <2>4. CASE UNCHANGED migrations
    BY <2>4 DEF migrations, MInv, MTyped, OperatorAlone, AppliedAreThere, WriterIsSeeding, Progress, Uncommitted
  <2> QED
    BY <2>1, <2>2, <2>3, <2>4 DEF MigrationsNext
<1> QED
  BY <1>1, MigrationsStart, PTL DEF MigrationsSpec

\* However many processes start, race and die, one that came up has the whole schema.
THEOREM UpHasSchema == MigrationsSpec => []UpMeansMigrated
<1>1. MInv => UpMeansMigrated
  <2> SUFFICES ASSUME MInv, NEW s \in Services, service[s].pc = "up", torn = {}
               PROVE  applied = Versions /\ UNION {Adds(v) : v \in Versions} \subseteq schema
    BY DEF UpMeansMigrated
  <2>1. applied = Versions
    BY DEF MInv, Progress
  <2>2. operator = Stopped
    BY DEF MInv, OperatorAlone, Stopped
  <2> QED
    BY <2>1, <2>2 DEF MInv, AppliedAreThere
<1> QED
  BY <1>1, VersionsStayWhole, PTL
=============================================================================
