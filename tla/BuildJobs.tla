------------------------------ MODULE BuildJobs ------------------------------
(* Background builds and maintenance rebuilds: the durable job row the caller *)
(* inserts, the worker it registers, and the worker's transactions.           *)
(* graph_build_worker_main and graph_maintenance_worker_main are the same     *)
(* protocol over _build_jobs and _maintenance_jobs; a job here is either.     *)
EXTENDS WorkerSlots

CONSTANTS
    Builds,       \* build and maintenance jobs of one graph
    MaxPolls      \* bound: polls for the row to become visible (50 in the code)

ASSUME PollsAssumption == MaxPolls \in Nat \ {0}

VARIABLES
    row,          \* committed job row and whether the job's generation is published
    caller,       \* transaction of the call that queued the job
    worker        \* the registered worker

buildVars == <<row, caller, worker>>

JobStatus == {"none", "queued", "running", "completed", "failed"}

\* "killed" is a worker that did not end by itself: SIGTERM, crash or a
\* PostgreSQL ERROR, which ends a background worker's process.
WorkerPc == {"none", "poll", "expired", "run", "build", "published", "record",
             "gone", "killed"}

BuildTypeOK ==
    /\ row \in [Builds -> [status : JobStatus, published : BOOLEAN, empty : BOOLEAN]]
    /\ caller \in [Builds -> {"none", "open", "closed"}]
    /\ worker \in [Builds -> [pc : WorkerPc, polls : 0..MaxPolls]]

BuildInit ==
    /\ row = [b \in Builds |-> [status |-> "none", published |-> FALSE, empty |-> FALSE]]
    /\ caller = [b \in Builds |-> "none"]
    /\ worker = [b \in Builds |-> [pc |-> "none", polls |-> 0]]

Alive(b) == worker[b].pc \notin {"none", "gone", "killed"}

\* Between acquire_build_lock and the end of its transaction.
HoldsBuildLock(b) == worker[b].pc \in {"build", "published"}

Goes(b, pc) == worker' = [worker EXCEPT ![b].pc = pc]

Leaves(b, pc) ==
    /\ worker' = [worker EXCEPT ![b] = [pc |-> pc, polls |-> 0]]
    /\ WorkerExits /\ calls' = calls

-------------------------------------------------------------------------------
\* create_build_job / create_maintenance_job, then launch_*_worker: the row is
\* the caller's, uncommitted, while the worker already starts polling.
Launch(b) ==
    /\ caller[b] = "none"
    /\ Called /\ load_dynamic
    /\ caller' = [caller EXCEPT ![b] = "open"]
    /\ Goes(b, "poll")
    /\ UNCHANGED row

\* No slot (other extensions and parallel queries use the pool too): the row
\* is marked failed and err.report() aborts the transaction that inserted it,
\* so nobody ever sees it.
LaunchFails(b) ==
    /\ caller[b] = "none"
    /\ Called
    /\ caller' = [caller EXCEPT ![b] = "closed"]
    /\ UNCHANGED <<slots, row, worker>>

CallerCommits(b) ==
    /\ caller[b] = "open"
    /\ caller' = [caller EXCEPT ![b] = "closed"]
    /\ row' = [row EXCEPT ![b].status = "queued"]
    /\ UNCHANGED <<slotVars, worker>>

CallerAborts(b) ==
    /\ caller[b] = "open"
    /\ caller' = [caller EXCEPT ![b] = "closed"]
    /\ UNCHANGED <<slotVars, row, worker>>

-------------------------------------------------------------------------------
\* Faulty: the loop has no bound.
PollForever(b) ==
    /\ worker[b].pc = "poll"
    /\ row[b].status # "none"
    /\ Goes(b, "run")
    /\ UNCHANGED <<slotVars, row, caller>>

\* One turn of the worker's loop: a transaction of its own looks for the row.
Poll(b) ==
    /\ worker[b].pc = "poll"
    /\ \/ /\ row[b].status # "none"
          /\ Goes(b, "run")
       \/ /\ row[b].status = "none"
          /\ worker' = [worker EXCEPT ![b] =
                [polls |-> @.polls + 1,
                 pc |-> IF @.polls + 1 = MaxPolls THEN "expired" ELSE "poll"]]
    /\ UNCHANGED <<slotVars, row, caller>>

\* The row was not visible before the timeout; nothing is recorded.
Expire(b) ==
    /\ worker[b].pc = "expired"
    /\ Leaves(b, "gone")
    /\ UNCHANGED <<row, caller>>

\* wait_latch returns false on SIGTERM.
Terminate(b) ==
    /\ worker[b].pc \in {"poll", "expired"}
    /\ Leaves(b, "killed")
    /\ UNCHANGED <<row, caller>>

\* run_build_job up to the build lock, which is tried, never waited for.  The
\* update to running stays in the worker's transaction.
RunBuildJob(b) ==
    /\ worker[b].pc = "run"
    /\ ~\E other \in Builds : HoldsBuildLock(other)
    /\ Goes(b, "build")
    /\ UNCHANGED <<slotVars, row, caller>>

\* Faulty: the head is switched outside the worker's transaction.
PublishAtOnce(b) ==
    /\ worker[b].pc = "build"
    /\ Goes(b, "published")
    /\ row' = [row EXCEPT ![b].published = TRUE]
    /\ UNCHANGED <<slotVars, caller>>

\* The head is replaced in the worker's transaction.
PublishBuild(b) ==
    /\ worker[b].pc = "build"
    /\ Goes(b, "published")
    /\ UNCHANGED <<slotVars, row, caller>>

\* run_build_job returns Ok and its transaction commits: the completed row and
\* the publication become visible together.  Without registered tables the
\* build succeeds and publishes nothing.
CompleteBuild(b) ==
    /\ \/ worker[b].pc = "published"
       \/ worker[b].pc = "build"
    /\ row' = [row EXCEPT ![b] = [status |-> "completed",
                                  published |-> worker[b].pc = "published",
                                  empty |-> worker[b].pc = "build"]]
    /\ Leaves(b, "gone")
    /\ UNCHANGED caller

\* run_build_job returns Err: BackgroundWorker::transaction commits all the
\* same, so the row is visibly running and a publication already made stays.
ReturnErr(b) ==
    /\ worker[b].pc \in {"run", "build", "published"}
    /\ row' = [row EXCEPT ![b].status = IF @ = "queued" THEN "running" ELSE @,
                          ![b].published = worker[b].pc = "published"]
    /\ Goes(b, "record")
    /\ UNCHANGED <<slotVars, caller>>

\* Faulty: only a queued row is marked failed.
RecordQueuedFailure(b) ==
    /\ worker[b].pc = "record"
    /\ row' = [row EXCEPT ![b].status = IF @ = "queued" THEN "failed" ELSE @]
    /\ Leaves(b, "gone")
    /\ UNCHANGED caller

\* update_*_job_failed in a fresh transaction; a completed row is left alone.
RecordFailure(b) ==
    /\ worker[b].pc = "record"
    /\ row' = [row EXCEPT ![b].status = IF @ = "completed" THEN @ ELSE "failed"]
    /\ Leaves(b, "gone")
    /\ UNCHANGED caller

\* A crash, or an ERROR raised by PostgreSQL: the open transaction is lost.
KillWorker(b) ==
    /\ Alive(b)
    /\ Leaves(b, "killed")
    /\ UNCHANGED <<row, caller>>

-------------------------------------------------------------------------------
WorkerStep(b) ==
    \/ Poll(b) \/ Expire(b) \/ RunBuildJob(b) \/ PublishBuild(b)
    \/ CompleteBuild(b) \/ ReturnErr(b) \/ RecordFailure(b)

BuildNext ==
    \E b \in Builds :
        \/ Launch(b) \/ LaunchFails(b) \/ CallerCommits(b) \/ CallerAborts(b)
        \/ WorkerStep(b) \/ Terminate(b) \/ KillWorker(b)
==============================================================================
