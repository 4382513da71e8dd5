---------------------------- MODULE JobScheduler -----------------------------
(* Durable sync-policy jobs: graph._jobs with its mirror graph._sync_policies,*)
(* the hosted and the background runners, and the statements that alter or    *)
(* drop a job while it runs.  A process executes one transaction statement by *)
(* statement under READ COMMITTED; every UPDATE, DELETE, FOR UPDATE and       *)
(* foreign-key check takes its row lock and keeps it to the end.              *)
EXTENDS WorkerSlots, Sequences, FiniteSets, Functions

CONSTANTS
    Jobs,         \* job ids, numbers in order of creation
    Sessions,     \* client sessions, numbers; their runs are "hosted"
    DueWorkers,   \* graph_due_jobs_worker_main processes; "internal"
    Intervals,    \* schedule_interval_secs, in ticks
    DefaultInterval,
    MaxRetries,   \* max_retries of every job
    MaxTime,      \* bound: last tick of the clock
    NoRow,        \* the job was never created
    Dropped,      \* the row was deleted
    Null          \* an argument left NULL, or a column not written

ASSUME JobsAssumption ==
    /\ Jobs \subseteq Nat /\ IsFiniteSet(Jobs)
    /\ Intervals \subseteq Nat \ {0} /\ DefaultInterval \in Intervals
    /\ MaxRetries \in Nat /\ MaxTime \in Nat
    /\ Sessions \cap DueWorkers = {}

Procs == Sessions \cup DueWorkers
Tables == {"job", "policy"}

VARIABLES
    clock,        \* now(), which PostgreSQL freezes at transaction start
    rows,         \* committed rows of the two tables
    failures,     \* committed failed runs per job in _job_runs, up to MaxRetries
    advisory,     \* holders of the job advisory locks
    locks,        \* row locks per process
    buf,          \* uncommitted row versions per process
    tx            \* what each process is executing

schedVars == <<clock, rows, failures, advisory, locks, buf, tx>>

\* Row lock strengths: KEY SHARE (the foreign-key check of an INSERT), NO KEY
\* UPDATE (an UPDATE) and UPDATE (FOR UPDATE, DELETE).  Two of them conflict
\* exactly when they add up to more than 3.
KeyShare == 1
NoKeyUpdate == 2
ForUpdate == 3

Failed == {"retryable_failed", "permanent_failed"}
Statuses == {"queued", "running", "completed", "disabled", "lock_skipped"} \cup Failed

Row == [enabled : BOOLEAN, interval : Intervals, next : Nat, status : Statuses]

ASSUME NoValueAssumption ==
    /\ NoRow # Dropped /\ NoRow # Null /\ Dropped # Null
    /\ NoRow \notin Row /\ Dropped \notin Row /\ Null \notin Row
    /\ Null \notin BOOLEAN /\ Null \notin Intervals /\ Null \notin Procs

Idle == [op |-> "idle", pc |-> "idle", todo |-> <<>>, start |-> 0,
         policy |-> Null, retries |-> 0, out |-> "queued",
         enabled |-> Null, interval |-> Null]

SchedTypeOK ==
    /\ clock \in 0..MaxTime
    /\ \A t \in Tables, j \in Jobs : rows[t][j] \in {NoRow, Dropped} \cup Row
    /\ failures \in [Jobs -> 0..MaxRetries]
    /\ advisory \in [Jobs -> Procs \cup {Null}]
    /\ locks \in [Procs -> [Tables -> [Jobs -> 0..3]]]
    /\ \A x \in Procs, t \in Tables, j \in Jobs :
            buf[x][t][j] \in {Null, Dropped} \cup Row
    /\ \A x \in Procs : /\ Range(tx[x].todo) \subseteq Jobs
                        /\ tx[x].op = "idle" => tx[x] = Idle

NoLocks == [t \in Tables |-> [j \in Jobs |-> 0]]
NoWrites == [t \in Tables |-> [j \in Jobs |-> Null]]

SchedInit ==
    /\ clock = 0
    /\ rows = [t \in Tables |-> [j \in Jobs |-> NoRow]]
    /\ failures = [j \in Jobs |-> 0]
    /\ advisory = [j \in Jobs |-> Null]
    /\ locks = [x \in Procs |-> NoLocks]
    /\ buf = [x \in Procs |-> NoWrites]
    /\ tx = [x \in Procs |-> Idle]

-------------------------------------------------------------------------------
At(x, pc) == tx[x].pc = pc
Current(x) == Head(tx[x].todo)
Present(t, j) == rows[t][j] \notin {NoRow, Dropped}

\* The row lock the next statement of x asks for.
Request(x) ==
    CASE At(x, "insert")  -> [table |-> "job", lock |-> KeyShare]
      [] At(x, "job")     -> [table |-> "job", lock |-> NoKeyUpdate]
      [] At(x, "policy")  -> [table |-> "policy", lock |-> NoKeyUpdate]
      [] At(x, "delete")  -> [table |-> "job", lock |-> ForUpdate]
      [] At(x, "cascade") -> [table |-> "policy", lock |-> ForUpdate]
      [] OTHER            -> [table |-> "job", lock |-> 0]

Conflicting(x, t, j, lock) == {y \in Procs \ {x} : locks[y][t][j] + lock > 3}

\* The processes whose row locks x waits for.
Blockers(x) ==
    IF Request(x).lock = 0 THEN {}
    ELSE Conflicting(x, Request(x).table, Current(x), Request(x).lock)

Granted(x) ==
    /\ Blockers(x) = {}
    /\ LET r == Request(x) IN
       locks' = [locks EXCEPT ![x][r.table][Current(x)] = IF @ > r.lock THEN @ ELSE r.lock]

\* The end of a transaction: locks go, written versions appear or vanish.  A
\* worker's slot is free again.
Ends(x) ==
    /\ tx' = [tx EXCEPT ![x] = Idle]
    /\ locks' = [locks EXCEPT ![x] = NoLocks]
    /\ buf' = [buf EXCEPT ![x] = NoWrites]
    /\ advisory' = [j \in Jobs |-> IF advisory[j] = x THEN Null ELSE advisory[j]]
    /\ IF x \in DueWorkers THEN WorkerExits ELSE slots' = slots
    /\ UNCHANGED <<clock, calls>>

Commit(x) ==
    /\ rows' = [t \in Tables |-> [j \in Jobs |->
                    IF buf[x][t][j] = Null THEN rows[t][j] ELSE buf[x][t][j]]]
    /\ failures' = IF tx[x].out \in Failed /\ failures[Current(x)] < MaxRetries
                   THEN [failures EXCEPT ![Current(x)] = @ + 1] ELSE failures
    /\ Ends(x)

Abort(x) == Ends(x) /\ UNCHANGED <<rows, failures>>

\* A Rust Err leaves run_due_jobs_result: err.report() aborts a session's
\* transaction, BackgroundWorker::transaction commits the worker's.
EndsWithErr(x) == IF x \in DueWorkers THEN Commit(x) ELSE Abort(x)

Advance(x, pc) == tx' = [tx EXCEPT ![x].pc = pc]

KeepsTables == UNCHANGED <<rows, failures, clock, slotVars>>

-------------------------------------------------------------------------------
\* add_sync_policy with its defaults: one statement inserts both rows.
AddSyncPolicy(x, j) ==
    /\ tx[x] = Idle
    /\ \A t \in Tables : rows[t][j] = NoRow
    /\ \A k \in Jobs : k < j => rows["job"][k] # NoRow
    /\ rows' = [t \in Tables |-> [rows[t] EXCEPT ![j] =
                    [enabled |-> TRUE, interval |-> DefaultInterval,
                     next |-> clock + DefaultInterval, status |-> "queued"]]]
    /\ UNCHANGED <<clock, failures, advisory, locks, buf, tx, slotVars>>

Begin(x, op, pc, todo) ==
    [Idle EXCEPT !.op = op, !.pc = pc, !.todo = todo, !.start = clock]

Calls(x, t) ==
    /\ tx[x] = Idle /\ Called
    /\ tx' = [tx EXCEPT ![x] = t]
    /\ UNCHANGED <<clock, rows, failures, advisory, locks, buf>>

\* run_sync_policy(policy) and run_job(job)
RunSyncPolicy(x, j) ==
    /\ Present("policy", j)
    /\ Calls(x, Begin(x, "run", "read", <<j>>)) /\ slots' = slots

RunDueJobs(x) == Calls(x, Begin(x, "due", "select", <<>>)) /\ slots' = slots

\* run_due_jobs_async: fails without a slot, leaving no trace.
RunDueJobsAsync(x) == Calls(x, Begin(x, "due", "select", <<>>)) /\ load_dynamic

\* alter_sync_policy updates _sync_policies first, alter_job _jobs first.  A
\* NULL argument keeps the column; a new interval also reschedules the job.
AlterSyncPolicy(x, j, enabled, interval) ==
    /\ Present("policy", j)
    /\ Calls(x, [Begin(x, "alter_policy", "policy", <<j>>)
                    EXCEPT !.enabled = enabled, !.interval = interval])
    /\ slots' = slots

AlterJob(x, j, enabled, interval) ==
    /\ Present("job", j)
    /\ Calls(x, [Begin(x, "alter_job", "job", <<j>>)
                    EXCEPT !.enabled = enabled, !.interval = interval])
    /\ slots' = slots

\* drop_sync_policy and remove_job delete the job; its policy row cascades.
RemoveJob(x, j) ==
    /\ Present("job", j)
    /\ Calls(x, Begin(x, "remove", "delete", <<j>>)) /\ slots' = slots

-------------------------------------------------------------------------------
Due(r, now) == r.enabled /\ r.next <= now

\* due_generic_job_rows: the answers of the query, FOR UPDATE SKIP LOCKED with
\* the oldest next_run_at first.  Creation orders the rest, so there is one.
DueGenericJobRows(x, now) ==
    LET due == {j \in Jobs : /\ Present("job", j)
                             /\ Due(rows["job"][j], now)
                             /\ Conflicting(x, "job", j, ForUpdate) = {}}
        before(i, j) == \/ rows["job"][i].next < rows["job"][j].next
                        \/ rows["job"][i].next = rows["job"][j].next /\ i < j
    IN  {list \in [1..Cardinality(due) -> due] :
            \A m, n \in DOMAIN list : m < n => before(list[m], list[n])}

\* Faulty: the rows are selected without FOR UPDATE.
SelectUnlocked(x) ==
    /\ At(x, "select")
    /\ LET now == IF x \in DueWorkers THEN clock ELSE tx[x].start IN
       \E due \in DueGenericJobRows(x, now) :
          IF due = <<>> THEN Abort(x)
          ELSE /\ tx' = [tx EXCEPT ![x].todo = due, ![x].start = now, ![x].pc = "read"]
               /\ UNCHANGED <<advisory, locks, buf>> /\ KeepsTables

\* The worker's transaction, and so its now(), begins here.
SelectDue(x) ==
    /\ At(x, "select")
    /\ LET now == IF x \in DueWorkers THEN clock ELSE tx[x].start IN
       \E due \in DueGenericJobRows(x, now) :
          IF due = <<>> THEN Abort(x)
          ELSE /\ locks' = [locks EXCEPT ![x]["job"] =
                               [j \in Jobs |-> IF j \in Range(due) THEN ForUpdate ELSE @[j]]]
               /\ tx' = [tx EXCEPT ![x].todo = due, ![x].start = now, ![x].pc = "read"]
               /\ UNCHANGED <<advisory, buf>> /\ KeepsTables

\* run_sync_policy_with_mode reads the policy, its job and the failed runs so
\* far; what it read then is what the run later writes.
ReadPolicy(x) ==
    /\ At(x, "read")
    /\ LET p == rows["policy"][Current(x)] IN
       IF ~Present("policy", Current(x)) THEN EndsWithErr(x)
       ELSE /\ tx' = [tx EXCEPT ![x].policy = p,
                                ![x].retries = failures[Current(x)],
                                ![x].out = "disabled",
                                ![x].pc = IF p.enabled THEN "lock" ELSE "insert"]
            /\ UNCHANGED <<advisory, locks, buf>> /\ KeepsTables

\* try_acquire_job_lock: a lock of the transaction, tried and never waited for.
TryAcquireJobLock(x) ==
    /\ At(x, "lock")
    /\ LET free == advisory[Current(x)] \in {Null, x} IN
       /\ advisory' = [advisory EXCEPT ![Current(x)] = IF free THEN x ELSE @]
       /\ tx' = [tx EXCEPT ![x].out = IF free THEN "running" ELSE "lock_skipped",
                           ![x].pc = "insert"]
    /\ UNCHANGED <<locks, buf>> /\ KeepsTables

\* insert_job_run: the foreign key waits for a pending DELETE or FOR UPDATE of
\* the job, and is an ERROR when the job is gone.
InsertJobRun(x) ==
    /\ At(x, "insert") /\ Blockers(x) = {}
    /\ IF ~Present("job", Current(x)) THEN Abort(x)
       ELSE /\ Granted(x)
            /\ Advance(x, IF tx[x].out = "running" THEN "apply" ELSE "job")
            /\ UNCHANGED <<advisory, buf>> /\ KeepsTables

\* apply_sync_internal returns Ok, or an Err whose kind depends on the retry
\* budget read at the start.
ApplySync(x) ==
    /\ At(x, "apply")
    /\ \E out \in {"completed",
                   IF tx[x].retries < MaxRetries THEN "retryable_failed"
                   ELSE "permanent_failed"} :
            tx' = [tx EXCEPT ![x].out = out, ![x].pc = "job"]
    /\ UNCHANGED <<advisory, locks, buf>> /\ KeepsTables

-------------------------------------------------------------------------------
\* Faulty: a NULL argument overwrites the column.
NoCoalesce(v, old) == v

Coalesce(v, old) == IF v = Null THEN old ELSE v

\* Faulty: a run writes back the whole row it read when it started.
WholeVersion(x, t, r) ==
    IF tx[x].op \in {"run", "due"}
    THEN [tx[x].policy EXCEPT !.status = tx[x].out,
                              !.next = IF tx[x].out = "completed"
                                       THEN tx[x].start + tx[x].policy.interval ELSE @]
    ELSE [r EXCEPT !.enabled = Coalesce(tx[x].enabled, @),
                   !.interval = Coalesce(tx[x].interval, @),
                   !.next = IF tx[x].interval = Null THEN @
                            ELSE tx[x].start + tx[x].interval]

\* The SET lists: an alteration, or the outcome of a run.  Only a completed
\* run reschedules the job, from the interval it read when it started.
NewVersion(x, t, r) ==
    IF tx[x].op \in {"run", "due"}
    THEN [r EXCEPT !.status = tx[x].out,
                   !.next = IF tx[x].out = "completed"
                            THEN tx[x].start + tx[x].policy.interval ELSE @]
    ELSE [r EXCEPT !.enabled = Coalesce(tx[x].enabled, @),
                   !.interval = Coalesce(tx[x].interval, @),
                   !.next = IF tx[x].interval = Null THEN @
                            ELSE tx[x].start + tx[x].interval]

\* Faulty: alter_job leaves the policy row as it is.
AfterUpdateAlone(x, t) ==
    CASE t = "job"    /\ tx[x].op \in {"run", "due"} -> "policy"
      [] t = "policy" /\ tx[x].op = "alter_policy"   -> "job"
      [] t = "policy" /\ tx[x].op \in {"run", "due"} -> "next"
      [] OTHER                                       -> "commit"

\* After an UPDATE of table t.
AfterUpdate(x, t) ==
    CASE t = "job"    /\ tx[x].op # "alter_policy"   -> "policy"
      [] t = "policy" /\ tx[x].op = "alter_policy"   -> "job"
      [] t = "policy" /\ tx[x].op \in {"run", "due"} -> "next"
      [] OTHER                                       -> "commit"

\* An UPDATE sees the newest committed version once it has the lock.  When the
\* row is gone an alteration ends in an error; a run's row cannot go.
Update(x, t) ==
    /\ At(x, t) /\ Blockers(x) = {}
    /\ IF ~Present(t, Current(x)) THEN Abort(x)
       ELSE /\ Granted(x)
            /\ buf' = [buf EXCEPT ![x][t][Current(x)] =
                            NewVersion(x, t, rows[t][Current(x)])]
            /\ Advance(x, AfterUpdate(x, t))
            /\ UNCHANGED advisory /\ KeepsTables

\* The DELETE of the job row, then of the policy row by the foreign key.
Delete(x) ==
    /\ tx[x].pc \in {"delete", "cascade"} /\ Granted(x)
    /\ LET t == Request(x).table IN
       buf' = [buf EXCEPT ![x][t][Current(x)] = IF Present(t, Current(x)) THEN Dropped ELSE @]
    /\ Advance(x, IF At(x, "delete") THEN "cascade" ELSE "commit")
    /\ UNCHANGED advisory /\ KeepsTables

\* The next job of the pass; an Err ends it and leaves the later jobs unrun.
NextJob(x) ==
    /\ At(x, "next")
    /\ IF tx[x].out \in Failed THEN EndsWithErr(x)
       ELSE IF Len(tx[x].todo) = 1 THEN Commit(x)
       ELSE /\ tx' = [tx EXCEPT ![x].todo = Tail(@), ![x].pc = "read"]
            /\ UNCHANGED <<advisory, locks, buf>> /\ KeepsTables

CommitStatement(x) == At(x, "commit") /\ Commit(x)

\* A cancel, a crash or an ERROR of PostgreSQL at any statement.
Cancel(x) == tx[x] # Idle /\ Abort(x)

\* PostgreSQL's deadlock detector ends a transaction of a wait cycle.
DeadlockAbort(x) ==
    /\ \E S \in SUBSET Procs : x \in S /\ \A y \in S : Blockers(y) \cap S # {}
    /\ Abort(x)

Tick ==
    /\ clock < MaxTime /\ clock' = clock + 1
    /\ UNCHANGED <<rows, failures, advisory, locks, buf, tx, slotVars>>

-------------------------------------------------------------------------------
Statement(x) ==
    \/ SelectDue(x) \/ ReadPolicy(x) \/ TryAcquireJobLock(x) \/ InsertJobRun(x)
    \/ ApplySync(x) \/ Delete(x) \/ NextJob(x) \/ CommitStatement(x)
    \/ \E t \in Tables : Update(x, t)

UserCall(x) ==
    \/ RunDueJobs(x)
    \/ \E j \in Jobs : AddSyncPolicy(x, j) \/ RunSyncPolicy(x, j) \/ RemoveJob(x, j)
    \/ \E j \in Jobs, i \in Intervals \cup {Null}, e \in BOOLEAN \cup {Null} :
            /\ (i = Null) # (e = Null)     \* one setting at a time
            /\ AlterSyncPolicy(x, j, e, i) \/ AlterJob(x, j, e, i)

\* Idle sessions are interchangeable, so the first of them makes the call.
FirstIdle(x) == \A y \in Sessions : y < x => tx[y] # Idle

SchedNext ==
    \/ Tick
    \/ \E x \in Sessions : FirstIdle(x) /\ UserCall(x)
    \/ \E x \in DueWorkers : RunDueJobsAsync(x)
    \/ \E x \in Procs : Statement(x) \/ Cancel(x) \/ DeadlockAbort(x)
==============================================================================
