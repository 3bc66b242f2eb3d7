------------------------------ MODULE Webhooks ------------------------------
(***************************************************************************)
(* Webhooks (agency/webhooks.py): every event writes one delivery row per  *)
(* subscribed hook, and whoever drains the table posts the rows and keeps  *)
(* trying.  Workers drain when they find no job (agency/worker.py); an API *)
(* request that tests a hook dispatches an event and drains too            *)
(* (agency/api/main.py).                                                   *)
(*                                                                         *)
(* A drain loads a batch of rows and then works on these copies: it posts  *)
(* a delivery first and commits its outcome afterwards.  A commit writes   *)
(* the columns that differ from the loaded ones.                           *)
(***************************************************************************)
EXTENDS Integers, Sequences, FiniteSets

CONSTANTS
    Hooks, EventTypes,
    Subscribed,    \* Subscribed[h]: the event types hook h asked for; none means all
    Workers,       \* worker processes
    Requests,      \* API threads
    MaxAttempts,   \* webhook_deliveries.max_attempts
    MaxBatch,      \* max_batch of a drain
    MaxRows,       \* bound of the exploration: deliveries written
    MaxJobs,       \* bound of the exploration: jobs the workers execute
    MaxFaults      \* bound of the exploration: crashes

ASSUME WebhooksAssumption ==
    /\ Subscribed \in [Hooks -> SUBSET EventTypes]
    /\ "job.completed" \in EventTypes
    /\ MaxAttempts \in Nat \ {0} /\ MaxBatch \in Nat \ {0}
    /\ MaxRows \in Nat /\ MaxJobs \in Nat /\ MaxFaults \in Nat

Threads == Workers \cup Requests

VARIABLES
    hook,      \* hook[h]: whether h exists, and is active
    table,     \* webhook_deliveries in the order of created_at
    thread,    \* what each worker or request is doing
    jobs,      \* jobs nobody has taken yet
    accepted,  \* accepted[i]: how often the receiver answered 2xx for row i
    faults

vars == <<hook, table, thread, jobs, accepted, faults>>

\* "due": next_retry_at is NULL or has passed.
Delivery == [hook : Hooks, status : {"pending", "retrying", "delivered", "dead"},
             attempts : 0 .. MaxAttempts, due : BOOLEAN]

NoHook  == [id |-> "none", active |-> FALSE]
Idle    == [pc |-> "idle", todo |-> {}, batch |-> {}, seen |-> NoHook, reply |-> "none"]

Init ==
    /\ hook = [h \in Hooks |-> "absent"]
    /\ table = <<>>
    /\ thread = [t \in Threads |-> Idle]
    /\ jobs = MaxJobs
    /\ accepted = <<>>
    /\ faults = 0

-----------------------------------------------------------------------------
\* Hooks.

CreateWebhook(h) ==
    /\ hook[h] = "absent"
    /\ hook' = [hook EXCEPT ![h] = "active"]
    /\ UNCHANGED <<table, thread, jobs, accepted, faults>>

\* delete_webhook keeps the row.
DeleteWebhook(h) ==
    /\ hook[h] # "absent"
    /\ hook' = [hook EXCEPT ![h] = "inactive"]
    /\ UNCHANGED <<table, thread, jobs, accepted, faults>>

-----------------------------------------------------------------------------
\* dispatch_event

Wants(h, type) == Subscribed[h] = {} \/ type \in Subscribed[h]

\* The query for the hooks of an event.
Dispatch(t, type) ==
    thread' = [thread EXCEPT ![t].pc = "dispatching",
                  ![t].todo = {h \in Hooks : hook[h] = "active" /\ Wants(h, type)}]

\* A worker takes a job and reports what happens to it.
DispatchEvent(w, type) ==
    /\ w \in Workers /\ thread[w].pc = "idle" /\ jobs > 0
    /\ Dispatch(w, type)
    /\ jobs' = jobs - 1
    /\ UNCHANGED <<hook, table, accepted, faults>>

\* test_webhook reports a completed job to every hook, not only to the tested one.
TestWebhook(r, h) ==
    /\ r \in Requests /\ thread[r].pc = "idle" /\ hook[h] # "absent"
    /\ Len(table) < MaxRows
    /\ Dispatch(r, "job.completed")
    /\ UNCHANGED <<hook, table, jobs, accepted, faults>>

\* One row per hook, each committed alone.
InsertDelivery(t) ==
    /\ thread[t].pc = "dispatching" /\ Len(table) < MaxRows
    /\ \E h \in thread[t].todo :
        /\ table' = Append(table, [hook |-> h, status |-> "pending", attempts |-> 0, due |-> TRUE])
        /\ accepted' = Append(accepted, 0)
        /\ thread' = [thread EXCEPT ![t].todo = @ \ {h}]
    /\ UNCHANGED <<hook, jobs, faults>>

\* The executor goes on to the end of its job, the request to its drain.
Dispatched(t) ==
    /\ thread[t].pc = "dispatching" /\ (thread[t].todo = {} \/ Len(table) = MaxRows)
    /\ thread' = [thread EXCEPT ![t] =
            IF t \in Requests THEN [Idle EXCEPT !.pc = "draining"] ELSE Idle]
    /\ UNCHANGED <<hook, table, jobs, accepted, faults>>

-----------------------------------------------------------------------------
\* process_pending_deliveries

Open(row) == row.status \in {"pending", "retrying"}

\* The oldest open rows, due or not, with the copies the session keeps.
OpenRows == {i \in DOMAIN table : Open(table[i])}

Batch == {[row |-> i, loaded |-> table[i]] :
            i \in {j \in OpenRows : Cardinality({k \in OpenRows : k < j}) < MaxBatch}}

\* A worker drains only when it finds no job.
ReadBatch(t) ==
    /\ \/ t \in Requests /\ thread[t].pc = "draining" /\ thread[t].batch = {}
       \/ t \in Workers /\ thread[t].pc = "idle" /\ jobs = 0 /\ Batch # {}
    /\ thread' = [thread EXCEPT ![t] =
            IF Batch = {} THEN Idle ELSE [Idle EXCEPT !.pc = "draining", !.batch = Batch]]
    /\ UNCHANGED <<hook, table, jobs, accepted, faults>>

\* The delivery a drain is at: the oldest of those left.
Current(t) == {c \in thread[t].batch : \A d \in thread[t].batch : c.row <= d.row}

\* The drain goes on to its next delivery; it remembers the hook it looked up last.
AfterCurrent(t, c) ==
    IF thread[t].batch = {c} THEN Idle
    ELSE [thread[t] EXCEPT !.pc = "draining", !.batch = @ \ {c}, !.reply = "none"]

SkipNotDue(t) ==
    /\ thread[t].pc = "draining"
    /\ \E c \in Current(t) :
        /\ ~c.loaded.due
        /\ thread' = [thread EXCEPT ![t] = AfterCurrent(t, c)]
    /\ UNCHANGED <<hook, table, jobs, accepted, faults>>

\* db.get finds the hook in the session while the previous delivery's hook is the same.
LookUpHook(t) ==
    /\ thread[t].pc = "draining"
    /\ \E c \in Current(t) :
        /\ c.loaded.due
        /\ thread' = [thread EXCEPT ![t].pc = "posting",
              ![t].seen = IF @.id = c.loaded.hook THEN @
                          ELSE [id |-> c.loaded.hook, active |-> hook[c.loaded.hook] = "active"]]
    /\ UNCHANGED <<hook, table, jobs, accepted, faults>>

\* Writes the columns of obj that differ from the loaded ones.
Flush(c, obj) ==
    table' = [table EXCEPT ![c.row] =
        [col \in DOMAIN @ |-> IF obj[col] # c.loaded[col] THEN obj[col] ELSE @[col]]]

DropInactive(t) ==
    /\ thread[t].pc = "posting" /\ ~thread[t].seen.active
    /\ \E c \in Current(t) :
        /\ Flush(c, [c.loaded EXCEPT !.status = "dead"])
        /\ thread' = [thread EXCEPT ![t] = AfterCurrent(t, c)]
    /\ UNCHANGED <<hook, jobs, accepted, faults>>

\* The request leaves; the answer is a 2xx, or another status, or none.
Post(t) ==
    /\ thread[t].pc = "posting" /\ thread[t].seen.active
    /\ \E c \in Current(t), reply \in {"ok", "error"} :
        /\ thread' = [thread EXCEPT ![t].pc = "committing", ![t].reply = reply]
        /\ accepted' = IF reply = "ok" THEN [accepted EXCEPT ![c.row] = @ + 1] ELSE accepted
    /\ UNCHANGED <<hook, table, jobs, faults>>

\* Fault: one attempt too many.
OutcomeLate(row, reply) ==
    [row EXCEPT !.attempts = @ + 1, !.due = reply = "ok",
                !.status = IF reply = "ok" THEN "delivered"
                           ELSE IF row.attempts >= MaxAttempts THEN "dead" ELSE "retrying"]

\* Fault: every answer counts as a delivery.
OutcomeAlwaysDelivered(row, reply) ==
    [row EXCEPT !.attempts = @ + 1, !.status = "delivered"]

\* Fault: a failed try is not counted.
OutcomeUncounted(row, reply) ==
    [row EXCEPT !.due = reply = "ok",
                !.status = IF reply = "ok" THEN "delivered" ELSE "retrying"]

\* What a drain makes of the copy: a failed delivery backs off until it has no try left.
Outcome(row, reply) ==
    LET n    == row.attempts + 1
        last == n >= MaxAttempts
    IN  [row EXCEPT !.attempts = n,
                    !.due = reply = "ok" \/ last,
                    !.status = IF reply = "ok" THEN "delivered"
                               ELSE IF last THEN "dead" ELSE "retrying"]

CommitOutcome(t) ==
    /\ thread[t].pc = "committing"
    /\ \E c \in Current(t) :
        /\ Flush(c, Outcome(c.loaded, thread[t].reply))
        /\ thread' = [thread EXCEPT ![t] = AfterCurrent(t, c)]
    /\ UNCHANGED <<hook, jobs, accepted, faults>>

\* The backoff of a delivery has passed.
Elapse(i) ==
    /\ ~table[i].due
    /\ table' = [table EXCEPT ![i].due = TRUE]
    /\ UNCHANGED <<hook, thread, jobs, accepted, faults>>

\* A process dies, or an exception ends the drain: the batch is forgotten.
\* A job that was being executed comes back.
Crash(t) ==
    /\ thread[t].pc # "idle" /\ faults < MaxFaults
    /\ thread' = [thread EXCEPT ![t] = Idle]
    /\ jobs' = IF t \in Workers /\ thread[t].pc = "dispatching" THEN jobs + 1 ELSE jobs
    /\ faults' = faults + 1
    /\ UNCHANGED <<hook, table, accepted>>

-----------------------------------------------------------------------------
Drain(t) ==
    \/ ReadBatch(t) \/ SkipNotDue(t) \/ LookUpHook(t)
    \/ DropInactive(t) \/ Post(t) \/ CommitOutcome(t)

Step(t) == InsertDelivery(t) \/ Dispatched(t) \/ Drain(t)

Next ==
    \/ \E h \in Hooks : CreateWebhook(h) \/ DeleteWebhook(h)
    \/ \E t \in Threads : Step(t) \/ Crash(t)
    \/ \E w \in Workers, type \in EventTypes : DispatchEvent(w, type)
    \/ \E r \in Requests, h \in Hooks : TestWebhook(r, h)
    \/ \E i \in DOMAIN table : Elapse(i)

Spec == Init /\ [][Next]_vars

\* A worker loops and executes its jobs, a request is served, and time passes.
FairSpec ==
    /\ Spec
    /\ \A w \in Workers : WF_vars(Step(w) \/ \E type \in EventTypes : DispatchEvent(w, type))
    /\ \A r \in Requests : WF_vars(Step(r))
    /\ \A i \in 1 .. MaxRows : WF_vars(i \in DOMAIN table /\ Elapse(i))

-----------------------------------------------------------------------------
(* Properties                                                              *)

Thread ==
    [pc : {"idle", "dispatching", "draining", "posting", "committing"}, todo : SUBSET Hooks,
     batch : SUBSET [row : Nat, loaded : Delivery],
     seen : [id : Hooks \cup {"none"}, active : BOOLEAN], reply : {"none", "ok", "error"}]

TypeOK ==
    /\ hook \in [Hooks -> {"absent", "active", "inactive"}]
    /\ table \in Seq(Delivery) /\ Len(table) <= MaxRows
    /\ accepted \in Seq(Nat) /\ Len(accepted) = Len(table)
    /\ jobs \in Nat /\ faults \in 0 .. MaxFaults
    /\ thread \in [Threads -> Thread]
    /\ \A t \in Threads : \A c \in thread[t].batch : c.row \in DOMAIN table

\* A delivery that will be tried again has a try left, however many drains with
\* stale copies committed over each other (process_pending_deliveries).
OpenHasTriesLeft == \A i \in DOMAIN table : Open(table[i]) => table[i].attempts < MaxAttempts

\* A delivery is marked delivered only after its receiver accepted it, whatever
\* crashed between the post and the commit.
DeliveredWasAccepted ==
    \A i \in DOMAIN table : table[i].status = "delivered" => accepted[i] > 0

\* Every delivery ends as delivered or dead, although workers drain only when they
\* have no job, batches hold rows that are not due yet and drains crash.
EveryDeliverySettles ==
    \A i \in 1 .. MaxRows :
        LET open == i \in DOMAIN table /\ Open(table[i]) IN open ~> ~open
=============================================================================
