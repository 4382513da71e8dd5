------------------------------ MODULE JobSystem ------------------------------
(* Background builds and the durable job scheduler side by side, sharing the  *)
(* pool of background workers.                                                *)
EXTENDS BuildJobs, JobScheduler

vars == <<slotVars, buildVars, schedVars>>

Init == SlotsInit /\ BuildInit /\ SchedInit

Next ==
    \/ BuildNext /\ UNCHANGED schedVars
    \/ SchedNext /\ UNCHANGED buildVars

\* What PostgreSQL keeps doing by itself: scheduling workers and sessions that
\* can execute their next statement, and breaking wait cycles.
Progress ==
    \/ \E b \in Builds : WorkerStep(b) /\ UNCHANGED schedVars
    \/ \E x \in Procs : (Statement(x) \/ DeadlockAbort(x)) /\ UNCHANGED buildVars

\* Some of it happens as long as any of it can.  No process is favoured, and
\* nothing is assumed of commits of callers, kills, cancels or the clock.
Fairness == WF_vars(Progress)

Spec == Init /\ [][Next]_vars /\ Fairness

-------------------------------------------------------------------------------
\* Slots, build jobs and scheduler state have their types.
TypeOK == SlotsTypeOK /\ BuildTypeOK /\ SchedTypeOK

\* No slot is lost or given back twice: through failed launches, aborted callers,
\* expired polls, errors and kills, those that are not free belong to a build worker
\* or to a due-job worker that has yet to exit.
Building == {b \in Builds : Alive(b)}
Passing == {x \in DueWorkers : tx[x] # Idle}
SlotsConserved == slots + Cardinality(Building) + Cardinality(Passing) = MaxWorkers

\* The job row is the operator's source of truth (graph.build_status) through
\* every crash: a completed row has its generation published, or built from an
\* empty catalog, and a row that is not visible or still queued has published
\* nothing, so queueing the work again cannot repeat a publication.
JobRowMatchesPublication ==
    \A b \in Builds :
        /\ row[b].status = "completed" => row[b].published \/ row[b].empty
        /\ row[b].status \in {"none", "queued"} => ~row[b].published

\* _jobs and _sync_policies agree on what both hold, whatever runs,
\* alterations and removals were interleaved: they lock the two rows in
\* opposite orders, and each of them writes both or neither.
PolicyMirrorsJob == rows["policy"] = rows["job"]

\* A job is replayed by one process at a time (try_acquire_job_lock).
OneApplier ==
    \A x, y \in Procs :
        At(x, "apply") /\ At(y, "apply") /\ Current(x) = Current(y) => x = y

\* A pass of the scheduler replays a job only while the job is still enabled
\* and due: a run, an alteration or another pass that commits between the
\* selection and the replay cannot make it run a second time for one due date.
DueWhenApplied ==
    \A x \in Procs :
        tx[x].op = "due" /\ At(x, "apply")
            => /\ Present("job", Current(x))
               /\ Due(rows["job"][Current(x)], tx[x].start)

\* A job runs once per due date, however passes, hosted runs and alterations
\* overlap: nobody else is replaying it, and a pass finds it still due.
OneRunPerDueDate == OneApplier /\ DueWhenApplied

\* A run that commits never takes back an alteration that committed after the
\* run had read its policy: it leaves enabled and interval as they are.
RunsKeepSettings ==
    [][\A x \in Procs, j \in Jobs, t \in Tables :
            tx[x].op \in {"run", "due"} /\ tx'[x].op = "idle" /\ Present(t, j)
                => /\ rows'[t][j].enabled = rows[t][j].enabled
                   /\ rows'[t][j].interval = rows[t][j].interval]_vars

\* A job whose row is visible while its worker still polls ends completed or
\* failed, unless the worker is killed: no error path leaves it running.
VisibleJobSettles ==
    \A b \in Builds :
        row[b].status = "queued" /\ worker[b].pc = "poll"
            ~> row[b].status \in {"completed", "failed"} \/ worker[b].pc = "killed"

\* Every worker gives its slot back, also when the caller's transaction aborted
\* and the row never appears, and every call of the scheduler ends: once no
\* more calls come the system falls quiet, and no wait for a row lock lasts.
EverythingEnds ==
    []<>(/\ \A b \in Builds : ~Alive(b)
         /\ \A x \in Procs : tx[x] = Idle)
==============================================================================
