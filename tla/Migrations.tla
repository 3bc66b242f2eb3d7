----------------------------- MODULE Migrations -----------------------------
(***************************************************************************)
(* Schema migrations (agency/db.py with agency/migrations): every process  *)
(* of the system runs them when it starts, an operator takes them back.    *)
(*                                                                         *)
(* SQLite commits a CREATE, ALTER or DROP at once unless an INSERT before  *)
(* it has opened a transaction; whoever writes waits for an open           *)
(* transaction of another process.                                         *)
(***************************************************************************)
EXTENDS Integers, Sequences, FiniteSets

CONSTANTS
    Services,       \* processes of the API and workers
    MaxCrashes, MaxDowngrades   \* bounds of the exploration

ASSUME MigrationsAssumption == MaxCrashes \in Nat /\ MaxDowngrades \in Nat

VARIABLES
    schema,     \* tables and columns that are committed
    applied,    \* rows of schema_migrations
    writer,     \* who has a transaction open: at most one process, with its uncommitted tables
    service,    \* what each process is doing
    operator,   \* the downgrade in progress
    torn,       \* versions whose downgrade was cut short
    faults      \* [crashes, downgrades] so far

migrations == <<schema, applied, writer, service, operator, torn, faults>>

Table(name)  == [op |-> "table", name |-> name]
Column(name) == [op |-> "column", name |-> name]
Seed         == [op |-> "seed", name |-> "default tenant"]

\* The statements that differ in effect: a table stands for its indexes and for the
\* tables next to it.
Script001 == <<Table("tenants"), Seed, Table("users"), Table("deliverables")>>
Script002 == <<Table("webhooks"), Column("users.must_rotate_key")>>
Script003 == <<Table("clients"), Column("projects.campaign_id"), Column("projects.client_id"),
               Table("script_revisions")>>

Down001 == <<"deliverables", "users", "tenants">>
Down002 == <<"webhooks", "users.must_rotate_key">>
Down003 == <<"script_revisions", "clients", "projects.campaign_id", "projects.client_id">>

Versions == 1 .. 3
Statements == <<Script001, Script002, Script003>>
DownScript == <<Down001, Down002, Down003>>

\* What version v adds.
Adds(v) == {Statements[v][i].name : i \in {j \in DOMAIN Statements[v] : Statements[v][j].op # "seed"}}

Stopped == [pc |-> "stopped"]

MigrationsInit ==
    /\ schema = {} /\ applied = {} /\ writer = {} /\ torn = {}
    /\ service = [s \in Services |-> Stopped]
    /\ operator = Stopped
    /\ faults = [crashes |-> 0, downgrades |-> 0]

-----------------------------------------------------------------------------
\* run_migrations

VersionRow == [op |-> "version", name |-> "schema_migrations"]

\* Fault: the version is recorded before its statements run.
ScriptVersionFirst(v) == <<VersionRow>> \o Statements[v]

Script(v) == Append(Statements[v], VersionRow)

\* The next version to run after v, for a process that read `done`.
After(v, done) ==
    LET open == {w \in Versions : w > v /\ w \notin done}
    IN  IF open = {} THEN [pc |-> "up"]
        ELSE [pc |-> "migrating", at |-> 1, done |-> done,
              version |-> CHOOSE w \in open : \A x \in open : w <= x]

\* init_db reads the applied versions once.
StartService(s) ==
    /\ service[s] = Stopped /\ operator = Stopped
    /\ service' = [service EXCEPT ![s] = After(0, applied)]
    /\ UNCHANGED <<schema, applied, writer, operator, torn, faults>>

\* The exception leaves init_db: the transaction is rolled back, the process exits.
Dies(s) ==
    /\ service' = [service EXCEPT ![s] = Stopped]
    /\ writer' = {w \in writer : w.by # s}
    /\ UNCHANGED <<schema, applied>>

Advances(s) ==
    LET m == service[s] IN
    service' = [service EXCEPT ![s] =
        IF m.at = Len(Script(m.version)) THEN After(m.version, m.done) ELSE [m EXCEPT !.at = @ + 1]]

Execute(s) ==
    LET m    == service[s]
        stmt == Script(m.version)[m.at]
    IN
    /\ m.pc = "migrating"
    /\ \A w \in writer : w.by = s
    /\ CASE stmt.op = "seed" ->
              /\ writer' = {[by |-> s, tables |-> {}]}
              /\ Advances(s)
              /\ UNCHANGED <<schema, applied>>
         [] stmt.op = "version" ->
              IF m.version \in applied THEN Dies(s)
              ELSE /\ applied' = applied \cup {m.version}
                   /\ schema' = schema \cup UNION {w.tables : w \in writer}
                   /\ writer' = {}
                   /\ Advances(s)
         [] stmt.op = "column" /\ stmt.name \in schema -> Dies(s)
         [] OTHER ->
              /\ IF writer = {}
                 THEN schema' = schema \cup {stmt.name} /\ UNCHANGED writer
                 ELSE /\ writer' = {[w EXCEPT !.tables = @ \cup {stmt.name}] : w \in writer}
                      /\ UNCHANGED schema
              /\ Advances(s)
              /\ UNCHANGED applied
    /\ UNCHANGED <<operator, torn, faults>>

\* A process is stopped, crashes, or waits in vain for a transaction of another one.
StopService(s) ==
    /\ service[s] # Stopped /\ faults.crashes < MaxCrashes
    /\ Dies(s)
    /\ faults' = [faults EXCEPT !.crashes = @ + 1]
    /\ UNCHANGED <<operator, torn>>

-----------------------------------------------------------------------------
\* downgrade_one, which the runbook has an operator call while the application is down.

BeginDowngrade ==
    /\ operator = Stopped /\ faults.downgrades < MaxDowngrades
    /\ \A s \in Services : service[s] = Stopped
    /\ applied # {}
    /\ operator' = [pc |-> "dropping", at |-> 1,
                    version |-> CHOOSE v \in applied : \A w \in applied : w <= v]
    /\ faults' = [faults EXCEPT !.downgrades = @ + 1]
    /\ UNCHANGED <<schema, applied, writer, service, torn>>

\* Whatever is missing already is passed over.
Drop ==
    /\ operator.pc = "dropping"
    /\ operator.at <= Len(DownScript[operator.version])
    /\ schema' = schema \ {DownScript[operator.version][operator.at]}
    /\ operator' = [operator EXCEPT !.at = @ + 1]
    /\ UNCHANGED <<applied, writer, service, torn, faults>>

DeleteVersion ==
    /\ operator.pc = "dropping"
    /\ operator.at > Len(DownScript[operator.version])
    /\ applied' = applied \ {operator.version}
    /\ torn' = torn \ {operator.version}
    /\ operator' = Stopped
    /\ UNCHANGED <<schema, writer, service, faults>>

CutDowngradeShort ==
    /\ operator # Stopped /\ faults.crashes < MaxCrashes
    /\ operator' = Stopped
    /\ torn' = torn \cup {operator.version}
    /\ faults' = [faults EXCEPT !.crashes = @ + 1]
    /\ UNCHANGED <<schema, applied, writer, service>>

MigrationsNext ==
    \/ \E s \in Services : StartService(s) \/ Execute(s) \/ StopService(s)
    \/ BeginDowngrade \/ Drop \/ DeleteVersion \/ CutDowngradeShort

MigrationsSpec == MigrationsInit /\ [][MigrationsNext]_migrations

-----------------------------------------------------------------------------
(* Properties                                                              *)

\* A process that came up finds every table and column of every version, although the
\* others migrate, die or are restarted at the same time, and although versions were
\* taken back before; unless a downgrade was cut short and not repeated (run_migrations,
\* downgrade_one).
UpMeansMigrated ==
    \A s \in Services : service[s].pc = "up" /\ torn = {} =>
        applied = Versions /\ UNION {Adds(v) : v \in Versions} \subseteq schema
=============================================================================
