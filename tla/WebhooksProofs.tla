--------------------------- MODULE WebhooksProofs ---------------------------
(***************************************************************************)
(* Proofs about Webhooks, for any hooks, event types, workers and requests *)
(* and every limit of attempts, size of a batch and number of rows.        *)
(***************************************************************************)
EXTENDS Webhooks, SequenceTheorems, TLAPS

-----------------------------------------------------------------------------
(* The invariant                                                           *)

\* What a drain may find when it commits a copy.
CopyFits(c, tab) ==
    c.row \in DOMAIN tab /\ Open(c.loaded) /\ c.loaded.attempts < MaxAttempts

\* A thread's copies are of open rows, and an accepted answer was counted before it
\* is committed.
ThreadFits(th, tab, acc) ==
    /\ th \in Thread
    /\ \A c \in th.batch : CopyFits(c, tab)
    /\ th.pc = "committing" => th.reply # "none"
    /\ th.pc = "committing" /\ th.reply = "ok" =>
        \A c \in th.batch : (\A d \in th.batch : c.row <= d.row) => acc[c.row] > 0

RowFits(row, n) ==
    /\ row \in Delivery
    /\ Open(row) => row.attempts < MaxAttempts
    /\ row.status = "delivered" => n > 0

RowsFit ==
    /\ table \in Seq(Delivery) /\ Len(table) <= MaxRows
    /\ accepted \in Seq(Nat) /\ Len(accepted) = Len(table)
    /\ \A i \in DOMAIN table : RowFits(table[i], accepted[i])

CountersFit ==
    /\ hook \in [Hooks -> {"absent", "active", "inactive"}]
    /\ jobs \in Nat /\ faults \in 0 .. MaxFaults

WInv ==
    /\ CountersFit
    /\ RowsFit
    /\ thread \in [Threads -> Thread]
    /\ \A t \in Threads : ThreadFits(thread[t], table, accepted)

-----------------------------------------------------------------------------
(* Rows                                                                    *)

\* A commit writes the columns that differ from the loaded ones.
LEMMA FlushedColumns ==
    ASSUME NEW row \in Delivery, NEW loaded \in Delivery, NEW obj \in Delivery
    PROVE  LET new == [col \in DOMAIN row |-> IF obj[col] # loaded[col] THEN obj[col] ELSE row[col]] IN
           /\ new \in Delivery
           /\ new.status = IF obj.status # loaded.status THEN obj.status ELSE row.status
           /\ new.attempts = IF obj.attempts # loaded.attempts THEN obj.attempts ELSE row.attempts
<1> DEFINE new == [col \in DOMAIN row |-> IF obj[col] # loaded[col] THEN obj[col] ELSE row[col]]
<1>1. DOMAIN row = {"hook", "status", "attempts", "due"}
  BY DEF Delivery
<1>2. /\ new.hook = IF obj.hook # loaded.hook THEN obj.hook ELSE row.hook
      /\ new.status = IF obj.status # loaded.status THEN obj.status ELSE row.status
      /\ new.attempts = IF obj.attempts # loaded.attempts THEN obj.attempts ELSE row.attempts
      /\ new.due = IF obj.due # loaded.due THEN obj.due ELSE row.due
  BY <1>1
<1>3. new.hook \in Hooks /\ new.attempts \in 0 .. MaxAttempts /\ new.due \in BOOLEAN
      /\ new.status \in {"pending", "retrying", "delivered", "dead"}
  BY <1>2 DEF Delivery
<1>4. new = [hook |-> new.hook, status |-> new.status, attempts |-> new.attempts, due |-> new.due]
  BY <1>1
<1>5. new \in Delivery
  <2> HIDE DEF new
  <2> QED
    BY <1>3, <1>4 DEF Delivery
<1> QED
  BY <1>2, <1>5

LEMMA CopyAfterTry ==
    ASSUME NEW row \in Delivery, NEW n, NEW d, NEW s
    PROVE  [row EXCEPT !.attempts = n, !.due = d, !.status = s]
           = [hook |-> row.hook, status |-> s, attempts |-> n, due |-> d]
<1> DEFINE new == [row EXCEPT !.attempts = n, !.due = d, !.status = s]
<1>1. DOMAIN row = {"hook", "status", "attempts", "due"}
  BY DEF Delivery
<1>2. new = [col \in {"hook", "status", "attempts", "due"} |-> new[col]]
  BY <1>1
<1>3. new.hook = row.hook /\ new.status = s /\ new.attempts = n /\ new.due = d
  BY <1>1
<1> HIDE DEF new
<1>4. new = [hook |-> row.hook, status |-> s, attempts |-> n, due |-> d]
  BY <1>2, <1>3
<1> QED
  BY <1>4 DEF new

\* A try counts, and leaves the copy open only while another one is left.
LEMMA OutcomeOfCopy ==
    ASSUME NEW loaded \in Delivery, NEW reply \in {"ok", "error"},
           Open(loaded), loaded.attempts < MaxAttempts
    PROVE  LET obj == Outcome(loaded, reply) IN
           /\ obj \in Delivery
           /\ obj.attempts = loaded.attempts + 1
           /\ Open(obj) => obj.attempts < MaxAttempts
           /\ ~Open(obj) => obj.status # loaded.status
           /\ obj.status = "delivered" => reply = "ok"
<1> DEFINE obj == Outcome(loaded, reply)
<1> DEFINE last == loaded.attempts + 1 >= MaxAttempts
<1>1. loaded.attempts + 1 \in 0 .. MaxAttempts /\ (~last => loaded.attempts + 1 < MaxAttempts)
  BY WebhooksAssumption DEF Delivery
<1>2. loaded = [hook |-> loaded.hook, status |-> loaded.status, attempts |-> loaded.attempts,
                due |-> loaded.due] /\ loaded.hook \in Hooks
  BY DEF Delivery
<1>3. obj = [hook |-> loaded.hook,
             status |-> IF reply = "ok" THEN "delivered" ELSE IF last THEN "dead" ELSE "retrying",
             attempts |-> loaded.attempts + 1, due |-> reply = "ok" \/ last]
  <2> DEFINE n == loaded.attempts + 1
             d == reply = "ok" \/ last
             s == IF reply = "ok" THEN "delivered" ELSE IF last THEN "dead" ELSE "retrying"
  <2>1. obj = [loaded EXCEPT !.attempts = n, !.due = d, !.status = s]
    BY Zenon DEF Outcome
  <2> HIDE DEF obj, last, n, d, s
  <2>2. obj = [hook |-> loaded.hook, status |-> s, attempts |-> n, due |-> d]
    BY <2>1, CopyAfterTry
  <2> QED
    BY <2>2 DEF n, d, s
<1> HIDE DEF obj, last
<1>4. obj \in Delivery
  BY <1>1, <1>2, <1>3 DEF Delivery
<1>5. /\ obj.attempts = loaded.attempts + 1
      /\ Open(obj) => obj.attempts < MaxAttempts
      /\ ~Open(obj) => obj.status # loaded.status
      /\ obj.status = "delivered" => reply = "ok"
  BY <1>1, <1>3 DEF Open, last
<1> QED
  BY <1>4, <1>5 DEF obj

-----------------------------------------------------------------------------
(* Steps that touch one row, or one thread                                 *)

LEMMA OneRowChanges ==
    ASSUME RowsFit, NEW i \in DOMAIN table, NEW new, RowFits(new, accepted[i]),
           table' = [table EXCEPT ![i] = new], UNCHANGED accepted
    PROVE  RowsFit' /\ DOMAIN table' = DOMAIN table
<1>1. table' \in Seq(Delivery) /\ Len(table') = Len(table)
  BY DEF RowsFit, RowFits
<1>2. ASSUME NEW j \in DOMAIN table'
      PROVE  RowFits(table'[j], accepted'[j])
  BY <1>1 DEF RowsFit
<1> QED
  BY <1>1, <1>2 DEF RowsFit

\* The other threads keep what they hold while rows are only added and answers only
\* counted.
LEMMA OneThreadChanges ==
    ASSUME WInv, NEW t \in Threads, NEW held, thread' = [thread EXCEPT ![t] = held],
           DOMAIN table \subseteq DOMAIN table',
           \A i \in DOMAIN table : accepted[i] > 0 => accepted'[i] > 0,
           ThreadFits(held, table', accepted')
    PROVE  /\ thread' \in [Threads -> Thread]
           /\ \A u \in Threads : ThreadFits(thread'[u], table', accepted')
<1>1. thread' \in [Threads -> Thread]
  BY DEF WInv, ThreadFits
<1>2. ASSUME NEW u \in Threads, u # t
      PROVE  ThreadFits(thread'[u], table', accepted')
  <2>1. thread'[u] = thread[u] /\ ThreadFits(thread[u], table, accepted)
    BY <1>2 DEF WInv
  <2>2. \A c \in thread[u].batch : CopyFits(c, table')
    BY <2>1 DEF ThreadFits, CopyFits
  <2> QED
    BY <2>1, <2>2 DEF ThreadFits, CopyFits
<1> QED
  BY <1>1, <1>2 DEF WInv

\* A thread that is not about to commit fits when its copies do.
LEMMA NotCommitting ==
    ASSUME NEW th \in Thread, th.pc # "committing", NEW tab, NEW acc,
           \A c \in th.batch : CopyFits(c, tab)
    PROVE  ThreadFits(th, tab, acc)
  BY DEF ThreadFits

LEMMA IdleFits ==
    ASSUME NEW tab, NEW acc
    PROVE  Idle \in Thread /\ ThreadFits(Idle, tab, acc)
<1>1. Idle \in Thread /\ Idle.pc = "idle" /\ Idle.batch = {}
  BY DEF Idle, NoHook, Thread
<1> QED
  BY <1>1, NotCommitting

\* The drain of a thread is one delivery shorter.
LEMMA NextDelivery ==
    ASSUME NEW t \in Threads, thread[t] \in Thread, NEW c, NEW tab, NEW acc,
           \A d \in thread[t].batch : CopyFits(d, tab)
    PROVE  ThreadFits(AfterCurrent(t, c), tab, acc)
<1> DEFINE th == [thread[t] EXCEPT !.pc = "draining", !.batch = @ \ {c}, !.reply = "none"]
<1>1. th \in Thread /\ th.pc = "draining" /\ th.batch = thread[t].batch \ {c}
  BY DEF Thread
<1> HIDE DEF th
<1>2. ThreadFits(th, tab, acc)
  BY <1>1, NotCommitting
<1> QED
  BY <1>2, IdleFits DEF AfterCurrent, th

LEMMA CurrentCopy ==
    ASSUME WInv, NEW t \in Threads, NEW c \in Current(t)
    PROVE  /\ c \in thread[t].batch /\ thread[t] \in Thread
           /\ c.row \in DOMAIN table /\ c.row \in 1 .. Len(table)
           /\ c.loaded \in Delivery /\ Open(c.loaded) /\ c.loaded.attempts < MaxAttempts
           /\ \A d \in thread[t].batch : c.row <= d.row
<1>1. c \in thread[t].batch /\ thread[t] \in Thread /\ CopyFits(c, table)
  BY DEF Current, WInv, ThreadFits
<1>2. thread[t].batch \subseteq [row : Nat, loaded : Delivery]
  BY <1>1 DEF Thread
<1> QED
  BY <1>1, <1>2 DEF CopyFits, Current, WInv, RowsFit

-----------------------------------------------------------------------------
(* Every step keeps the invariant                                          *)

LEMMA HooksKeep ==
    ASSUME WInv, NEW h \in Hooks, CreateWebhook(h) \/ DeleteWebhook(h)
    PROVE  WInv'
  BY DEF CreateWebhook, DeleteWebhook, WInv, CountersFit, RowsFit

LEMMA DispatchKeeps ==
    ASSUME WInv, NEW t \in Threads, NEW type, Dispatch(t, type), thread[t].pc = "idle",
           jobs' \in Nat, UNCHANGED <<hook, table, accepted, faults>>
    PROVE  WInv'
<1> DEFINE todo == {h \in Hooks : hook[h] = "active" /\ Wants(h, type)}
           held == [thread[t] EXCEPT !.pc = "dispatching", !.todo = todo]
<1>1. todo \subseteq Hooks /\ thread' = [thread EXCEPT ![t] = held]
  BY DEF Dispatch
<1>2. thread[t] \in Thread /\ \A c \in thread[t].batch : CopyFits(c, table)
  BY DEF WInv, ThreadFits
<1> HIDE DEF todo
<1>3. held \in Thread /\ held.pc = "dispatching" /\ held.batch = thread[t].batch
  BY <1>1, <1>2 DEF Thread
<1> HIDE DEF held
<1>4. ThreadFits(held, table', accepted')
  BY <1>2, <1>3, NotCommitting
<1> QED
  BY <1>1, <1>4, OneThreadChanges DEF WInv, CountersFit, RowsFit

LEMMA InsertDeliveryKeeps ==
    ASSUME WInv, NEW t \in Threads, InsertDelivery(t)
    PROVE  WInv'
<1> PICK h \in thread[t].todo :
        /\ table' = Append(table, [hook |-> h, status |-> "pending", attempts |-> 0, due |-> TRUE])
        /\ accepted' = Append(accepted, 0)
        /\ thread' = [thread EXCEPT ![t].todo = @ \ {h}]
  BY DEF InsertDelivery
<1> DEFINE new == [hook |-> h, status |-> "pending", attempts |-> 0, due |-> TRUE]
           held == [thread[t] EXCEPT !.todo = @ \ {h}]
<1>1. thread[t] \in Thread /\ (\A c \in thread[t].batch : CopyFits(c, table)) /\ Len(table) < MaxRows
      /\ thread[t].pc = "dispatching" /\ table \in Seq(Delivery) /\ accepted \in Seq(Nat)
      /\ Len(accepted) = Len(table)
  BY DEF WInv, ThreadFits, RowsFit, InsertDelivery
<1>2. new \in Delivery /\ RowFits(new, 0)
  BY <1>1, WebhooksAssumption DEF Delivery, Thread, RowFits
<1> HIDE DEF new
<1>3. RowsFit'
  <2>1. table' \in Seq(Delivery) /\ Len(table') = Len(table) + 1 /\ Len(table') <= MaxRows
        /\ accepted' \in Seq(Nat) /\ Len(accepted') = Len(table')
    BY <1>1, <1>2, WebhooksAssumption DEF new
  <2>2. ASSUME NEW j \in DOMAIN table'
        PROVE  RowFits(table'[j], accepted'[j])
    <3>1. CASE j = Len(table) + 1
      BY <1>1, <1>2, <3>1 DEF new
    <3>2. CASE j \in DOMAIN table
      BY <1>1, <3>2 DEF WInv, RowsFit
    <3> QED
      BY <1>1, <2>1, <3>1, <3>2
  <2> QED
    BY <2>1, <2>2 DEF RowsFit
<1>4. DOMAIN table \subseteq DOMAIN table'
      /\ \A i \in DOMAIN table : accepted'[i] = accepted[i]
  BY <1>1
<1>5. held \in Thread /\ held.pc = "dispatching" /\ held.batch = thread[t].batch
      /\ thread' = [thread EXCEPT ![t] = held]
  BY <1>1 DEF Thread
<1> HIDE DEF held
<1>6. \A c \in held.batch : CopyFits(c, table')
  BY <1>1, <1>4, <1>5 DEF CopyFits
<1>7. ThreadFits(held, table', accepted')
  BY <1>5, <1>6, NotCommitting
<1> QED
  BY <1>3, <1>4, <1>5, <1>7, OneThreadChanges DEF WInv, CountersFit, InsertDelivery

LEMMA DispatchedKeeps ==
    ASSUME WInv, NEW t \in Threads, Dispatched(t)
    PROVE  WInv'
<1> DEFINE held == IF t \in Requests THEN [Idle EXCEPT !.pc = "draining"] ELSE Idle
<1>1. [Idle EXCEPT !.pc = "draining"] \in Thread /\ [Idle EXCEPT !.pc = "draining"].pc = "draining"
      /\ [Idle EXCEPT !.pc = "draining"].batch = {}
  BY DEF Idle, NoHook, Thread
<1>2. ThreadFits(held, table', accepted')
  BY <1>1, NotCommitting, IdleFits
<1> HIDE DEF held
<1>3. thread' = [thread EXCEPT ![t] = held]
  BY DEF Dispatched, held
<1> QED
  BY <1>2, <1>3, OneThreadChanges DEF WInv, CountersFit, RowsFit, Dispatched

LEMMA ReadBatchKeeps ==
    ASSUME WInv, NEW t \in Threads, ReadBatch(t)
    PROVE  WInv'
<1> DEFINE full == [Idle EXCEPT !.pc = "draining", !.batch = Batch]
           held == IF Batch = {} THEN Idle ELSE full
<1>1. ASSUME NEW c \in Batch
      PROVE  c \in [row : Nat, loaded : Delivery] /\ CopyFits(c, table)
  <2> PICK i \in OpenRows : c = [row |-> i, loaded |-> table[i]]
    BY DEF Batch
  <2> QED
    BY DEF OpenRows, WInv, RowsFit, RowFits, CopyFits
<1>2. full \in Thread /\ full.pc = "draining" /\ full.batch = Batch
  BY <1>1 DEF Idle, NoHook, Thread
<1> HIDE DEF full
<1>3. ThreadFits(held, table', accepted')
  BY <1>1, <1>2, NotCommitting, IdleFits DEF ReadBatch
<1>4. thread' = [thread EXCEPT ![t] = held]
  BY DEF ReadBatch, full
<1> HIDE DEF held
<1> QED
  BY <1>3, <1>4, OneThreadChanges DEF WInv, CountersFit, RowsFit, ReadBatch

LEMMA SkipNotDueKeeps ==
    ASSUME WInv, NEW t \in Threads, SkipNotDue(t)
    PROVE  WInv'
<1> PICK c \in Current(t) : thread' = [thread EXCEPT ![t] = AfterCurrent(t, c)]
  BY DEF SkipNotDue
<1>1. ThreadFits(AfterCurrent(t, c), table', accepted')
  BY NextDelivery DEF WInv, ThreadFits, SkipNotDue
<1> QED
  BY <1>1, OneThreadChanges DEF WInv, CountersFit, RowsFit, SkipNotDue

LEMMA LookUpHookKeeps ==
    ASSUME WInv, NEW t \in Threads, LookUpHook(t)
    PROVE  WInv'
<1> PICK c \in Current(t) : thread' = [thread EXCEPT ![t].pc = "posting",
              ![t].seen = IF @.id = c.loaded.hook THEN @
                          ELSE [id |-> c.loaded.hook, active |-> hook[c.loaded.hook] = "active"]]
  BY DEF LookUpHook
<1> DEFINE seen == IF thread[t].seen.id = c.loaded.hook THEN thread[t].seen
                   ELSE [id |-> c.loaded.hook, active |-> hook[c.loaded.hook] = "active"]
           held == [thread[t] EXCEPT !.pc = "posting", !.seen = seen]
<1>1. thread[t] \in Thread /\ \A d \in thread[t].batch : CopyFits(d, table)
  BY DEF WInv, ThreadFits
<1>2. seen \in [id : Hooks \cup {"none"}, active : BOOLEAN]
  BY <1>1, CurrentCopy DEF Thread, Delivery
<1>3. thread' = [thread EXCEPT ![t] = held]
  OBVIOUS
<1> HIDE DEF seen
<1>4. held \in Thread /\ held.pc = "posting" /\ held.batch = thread[t].batch
  BY <1>1, <1>2 DEF Thread
<1> HIDE DEF held
<1>5. ThreadFits(held, table', accepted')
  BY <1>1, <1>4, NotCommitting DEF LookUpHook
<1> QED
  BY <1>3, <1>5, OneThreadChanges DEF WInv, CountersFit, RowsFit, LookUpHook

\* A drain writes the row of its current copy and goes on.
LEMMA FlushKeeps ==
    ASSUME WInv, NEW t \in Threads, NEW c \in Current(t), NEW obj \in Delivery, Flush(c, obj),
           Open(obj) => obj.attempts < MaxAttempts /\ obj.attempts # c.loaded.attempts,
           ~Open(obj) => obj.status # c.loaded.status,
           obj.status = "delivered" => accepted[c.row] > 0,
           thread' = [thread EXCEPT ![t] = AfterCurrent(t, c)],
           UNCHANGED <<hook, jobs, accepted, faults>>
    PROVE  WInv'
<1> DEFINE row == table[c.row]
           new == [col \in DOMAIN row |-> IF obj[col] # c.loaded[col] THEN obj[col] ELSE row[col]]
<1>1. row \in Delivery /\ RowFits(row, accepted[c.row]) /\ c.loaded \in Delivery
      /\ c.row \in DOMAIN table
  BY CurrentCopy DEF WInv, RowsFit, RowFits
<1>2. table' = [table EXCEPT ![c.row] = new]
  BY DEF Flush
<1> HIDE DEF row
<1>3. /\ new \in Delivery
      /\ new.status = IF obj.status # c.loaded.status THEN obj.status ELSE row.status
      /\ new.attempts = IF obj.attempts # c.loaded.attempts THEN obj.attempts ELSE row.attempts
  BY <1>1, FlushedColumns
<1> HIDE DEF new
<1>4. RowFits(new, accepted[c.row])
  BY <1>1, <1>3 DEF RowFits, Open
<1>5. RowsFit' /\ DOMAIN table' = DOMAIN table
  BY <1>1, <1>2, <1>4, OneRowChanges DEF WInv
<1>6. ThreadFits(AfterCurrent(t, c), table', accepted')
  BY <1>5, NextDelivery DEF WInv, ThreadFits, CopyFits
<1> QED
  BY <1>5, <1>6, OneThreadChanges DEF WInv, CountersFit

LEMMA DropInactiveKeeps ==
    ASSUME WInv, NEW t \in Threads, DropInactive(t)
    PROVE  WInv'
<1> PICK c \in Current(t) :
        Flush(c, [c.loaded EXCEPT !.status = "dead"]) /\ thread' = [thread EXCEPT ![t] = AfterCurrent(t, c)]
  BY DEF DropInactive
<1> DEFINE obj == [c.loaded EXCEPT !.status = "dead"]
<1>1. c.loaded \in Delivery /\ Open(c.loaded)
  BY CurrentCopy
<1>2. obj \in Delivery /\ obj.status = "dead"
  BY <1>1 DEF Delivery
<1>3. Flush(c, obj) /\ UNCHANGED <<hook, jobs, accepted, faults>>
  BY DEF DropInactive
<1> HIDE DEF obj
<1> QED
  BY <1>1, <1>2, <1>3, FlushKeeps DEF Open

LEMMA PostKeeps ==
    ASSUME WInv, NEW t \in Threads, Post(t)
    PROVE  WInv'
<1> PICK c \in Current(t), reply \in {"ok", "error"} :
        /\ thread' = [thread EXCEPT ![t].pc = "committing", ![t].reply = reply]
        /\ accepted' = IF reply = "ok" THEN [accepted EXCEPT ![c.row] = @ + 1] ELSE accepted
  BY DEF Post
<1> DEFINE held == [thread[t] EXCEPT !.pc = "committing", !.reply = reply]
<1>1. /\ c \in thread[t].batch /\ c.row \in DOMAIN table /\ thread[t] \in Thread
      /\ \A d \in thread[t].batch : c.row <= d.row /\ CopyFits(d, table) /\ d.row \in Nat
  BY CurrentCopy DEF WInv, ThreadFits, Thread
<1>2. accepted \in Seq(Nat) /\ DOMAIN accepted = DOMAIN table /\ RowsFit /\ CountersFit
  BY DEF WInv, RowsFit
<1>3. /\ accepted' \in Seq(Nat) /\ Len(accepted') = Len(accepted)
      /\ \A i \in DOMAIN table : accepted[i] > 0 => accepted'[i] > 0
      /\ reply = "ok" => accepted'[c.row] > 0
  <2>1. \A i \in DOMAIN table : accepted[i] \in Nat
    BY <1>2
  <2>2. CASE reply = "ok"
    BY <1>1, <1>2, <2>1, <2>2
  <2>3. CASE reply = "error"
    BY <1>1, <1>2, <2>3
  <2> QED
    BY <2>2, <2>3
<1>4. RowsFit'
  BY <1>2, <1>3 DEF RowsFit, RowFits, Post
<1>5. held \in Thread /\ held.pc = "committing" /\ held.reply = reply /\ held.batch = thread[t].batch
      /\ thread' = [thread EXCEPT ![t] = held]
  BY <1>1 DEF Thread
<1> HIDE DEF held
<1>6. ASSUME reply = "ok", NEW d \in held.batch, \A e \in held.batch : d.row <= e.row
      PROVE  accepted'[d.row] > 0
  <2>1. d.row = c.row
    BY <1>1, <1>5, <1>6
  <2> QED
    BY <1>3, <1>6, <2>1
<1>7. ThreadFits(held, table', accepted')
  BY <1>1, <1>5, <1>6 DEF ThreadFits, Post
<1> QED
  BY <1>2, <1>3, <1>4, <1>5, <1>7, OneThreadChanges DEF WInv, CountersFit, Post

LEMMA CommitOutcomeKeeps ==
    ASSUME WInv, NEW t \in Threads, CommitOutcome(t)
    PROVE  WInv'
<1> DEFINE reply == thread[t].reply
<1> PICK c \in Current(t) :
        Flush(c, Outcome(c.loaded, reply)) /\ thread' = [thread EXCEPT ![t] = AfterCurrent(t, c)]
  BY DEF CommitOutcome
<1> DEFINE obj == Outcome(c.loaded, reply)
<1>1. /\ c \in thread[t].batch /\ \A d \in thread[t].batch : c.row <= d.row
      /\ c.loaded \in Delivery /\ Open(c.loaded) /\ c.loaded.attempts < MaxAttempts
  BY CurrentCopy
<1>2. reply \in {"ok", "error"} /\ (reply = "ok" => accepted[c.row] > 0)
  BY <1>1 DEF WInv, ThreadFits, Thread, CommitOutcome
<1> HIDE DEF reply
<1>3. /\ obj \in Delivery
      /\ obj.attempts = c.loaded.attempts + 1
      /\ Open(obj) => obj.attempts < MaxAttempts
      /\ ~Open(obj) => obj.status # c.loaded.status
      /\ obj.status = "delivered" => reply = "ok"
  BY <1>1, <1>2, OutcomeOfCopy
<1>4. obj.attempts # c.loaded.attempts
  BY <1>1, <1>3 DEF Delivery
<1>5. Flush(c, obj) /\ UNCHANGED <<hook, jobs, accepted, faults>>
  BY DEF CommitOutcome
<1> HIDE DEF obj
<1> QED
  BY <1>2, <1>3, <1>4, <1>5, FlushKeeps

LEMMA ElapseKeeps ==
    ASSUME WInv, NEW i \in DOMAIN table, Elapse(i)
    PROVE  WInv'
<1> DEFINE new == [table[i] EXCEPT !.due = TRUE]
<1>1. RowFits(table[i], accepted[i])
  BY DEF WInv, RowsFit
<1>2. new \in Delivery /\ new.status = table[i].status /\ new.attempts = table[i].attempts
  BY <1>1 DEF RowFits, Delivery
<1>3. table' = [table EXCEPT ![i] = new]
  BY DEF Elapse
<1> HIDE DEF new
<1>4. RowFits(new, accepted[i])
  BY <1>1, <1>2 DEF RowFits, Open
<1>5. RowsFit' /\ DOMAIN table' = DOMAIN table
  BY <1>3, <1>4, OneRowChanges DEF WInv, Elapse, RowsFit
<1> QED
  BY <1>5 DEF WInv, CountersFit, ThreadFits, CopyFits, Elapse

LEMMA CrashKeeps ==
    ASSUME WInv, NEW t \in Threads, Crash(t)
    PROVE  WInv'
<1>1. jobs' \in Nat
  BY DEF Crash, WInv, CountersFit
<1>2. faults' \in 0 .. MaxFaults
  BY WebhooksAssumption DEF Crash, WInv, CountersFit
<1>3. ThreadFits(Idle, table', accepted')
  BY IdleFits
<1> QED
  BY <1>1, <1>2, <1>3, OneThreadChanges DEF WInv, CountersFit, RowsFit, Crash

-----------------------------------------------------------------------------
(* Theorems                                                                *)

LEMMA InitialState ==
    ASSUME Init
    PROVE  WInv
<1>1. CountersFit
  BY WebhooksAssumption DEF Init, CountersFit
<1>2. RowsFit
  BY WebhooksAssumption DEF Init, RowsFit
<1> QED
  BY <1>1, <1>2, IdleFits DEF Init, WInv

LEMMA NextKeeps ==
    ASSUME WInv, [Next]_vars
    PROVE  WInv'
<1>1. ASSUME NEW h \in Hooks, CreateWebhook(h) \/ DeleteWebhook(h)
      PROVE  WInv'
  BY <1>1, HooksKeep
<1>2. ASSUME NEW t \in Threads, Step(t) \/ Crash(t)
      PROVE  WInv'
  BY <1>2, InsertDeliveryKeeps, DispatchedKeeps, ReadBatchKeeps, SkipNotDueKeeps, LookUpHookKeeps,
     DropInactiveKeeps, PostKeeps, CommitOutcomeKeeps, CrashKeeps DEF Step, Drain
<1>3. ASSUME NEW w \in Workers, NEW type \in EventTypes, DispatchEvent(w, type)
      PROVE  WInv'
  <2>1. jobs' \in Nat
    BY <1>3 DEF DispatchEvent, WInv, CountersFit
  <2> QED
    BY <1>3, <2>1, DispatchKeeps DEF DispatchEvent, Threads
<1>4. ASSUME NEW r \in Requests, NEW h \in Hooks, TestWebhook(r, h)
      PROVE  WInv'
  <2>1. jobs' \in Nat
    BY <1>4 DEF TestWebhook, WInv, CountersFit
  <2> QED
    BY <1>4, <2>1, DispatchKeeps DEF TestWebhook, Threads
<1>5. ASSUME NEW i \in DOMAIN table, Elapse(i)
      PROVE  WInv'
  BY <1>5, ElapseKeeps
<1>6. CASE UNCHANGED vars
  BY <1>6 DEF vars, WInv, CountersFit, RowsFit
<1> QED
  BY <1>1, <1>2, <1>3, <1>4, <1>5, <1>6 DEF Next

\* Rows and the copies that drains hold of them keep the invariant (webhooks.py, worker.py).
THEOREM DeliveriesInvariant == Spec => []WInv
  BY InitialState, NextKeeps, PTL DEF Spec

\* Rows, copies and counters keep their shape.
THEOREM DeliveriesTyped == Spec => []TypeOK
<1>1. WInv => TypeOK
  BY DEF WInv, CountersFit, RowsFit, ThreadFits, CopyFits, TypeOK
<1> QED
  BY <1>1, DeliveriesInvariant, PTL

\* Whatever drains commit over each other, a delivery that is still open has a try
\* left (process_pending_deliveries).
THEOREM OpenDeliveriesHaveTries == Spec => []OpenHasTriesLeft
<1>1. WInv => OpenHasTriesLeft
  BY DEF WInv, RowsFit, RowFits, OpenHasTriesLeft
<1> QED
  BY <1>1, DeliveriesInvariant, PTL

\* No crash and no concurrent drain marks a delivery that its receiver never took.
THEOREM DeliveredMeansAccepted == Spec => []DeliveredWasAccepted
<1>1. WInv => DeliveredWasAccepted
  BY DEF WInv, RowsFit, RowFits, DeliveredWasAccepted
<1> QED
  BY <1>1, DeliveriesInvariant, PTL
=============================================================================
