---------------------------- MODULE JobSystem_proofs ----------------------------
(***************************************************************************)
(* Proofs about background builds and the durable job scheduler, for every *)
(* number of jobs, sessions, workers and slots, every set of intervals and *)
(* every retry budget.                                                     *)
(*                                                                         *)
(* The scheduler's argument is about row locks: two locks of one row never *)
(* add up to more than 3, so a process that has written a row version, or  *)
(* selected a job FOR UPDATE, can rely on the committed version it has     *)
(* seen until its transaction ends.                                        *)
(***************************************************************************)
EXTENDS JobSystem, FiniteSetTheorems, SequenceTheorems, TLAPS

\* What a process is executing.
RunSteps == {"read", "lock", "insert", "apply", "job", "policy", "next"}
Ops == {"idle", "run", "due", "alter_policy", "alter_job", "remove"}
Pcs == RunSteps \cup {"idle", "select", "commit", "delete", "cascade"}
Tx == [op : Ops, pc : Pcs,
       todo : Seq(Jobs), start : 0..MaxTime, policy : Row \cup {Null}, retries : 0..MaxRetries,
       out : Statuses, enabled : BOOLEAN \cup {Null}, interval : Intervals \cup {Null}]

SchedTypes ==
    /\ clock \in 0..MaxTime
    /\ rows \in [Tables -> [Jobs -> {NoRow, Dropped} \cup Row]]
    /\ failures \in [Jobs -> 0..MaxRetries]
    /\ advisory \in [Jobs -> Procs \cup {Null}]
    /\ locks \in [Procs -> [Tables -> [Jobs -> 0..3]]]
    /\ buf \in [Procs -> [Tables -> [Jobs -> {Null, Dropped} \cup Row]]]
    /\ tx \in [Procs -> Tx]

Runs(x) == tx[x].op \in {"run", "due"}

\* The statements of each call, and what the earlier ones have set.
Shape(x) ==
    /\ tx[x].op = "idle" \/ tx[x].pc = "idle" => tx[x] = Idle
    /\ tx[x].op = "run" => tx[x].pc \in RunSteps
    /\ tx[x].op = "due" => tx[x].pc \in RunSteps \cup {"select"}
    /\ tx[x].op \in {"alter_policy", "alter_job"} => tx[x].pc \in {"policy", "job", "commit"}
    /\ tx[x].op = "remove" => tx[x].pc \in {"delete", "cascade", "commit"}
    /\ tx[x].pc \notin {"idle", "select"} => tx[x].todo # <<>>
    /\ Runs(x) /\ tx[x].pc \notin {"select", "read"} => tx[x].policy \in Row

\* A process about to replay a job has the job's advisory lock.
Applying(x) ==
    At(x, "apply") \/ (At(x, "insert") /\ tx[x].out = "running") => advisory[Current(x)] = x

\* A written version replaces a committed one and keeps its row locked; a run's
\* leaves the settings alone.
Writes(x) ==
    /\ tx[x] = Idle \/ At(x, "delete") => buf[x] = NoWrites
    /\ \A t \in Tables, j \in Jobs : buf[x][t][j] # Null =>
        /\ locks[x][t][j] >= NoKeyUpdate
        /\ Present(t, j)
        /\ Runs(x) => /\ buf[x][t][j] \in Row
                      /\ buf[x][t][j].enabled = rows[t][j].enabled
                      /\ buf[x][t][j].interval = rows[t][j].interval

\* One of the two rows of the current job is written, the other not yet.
Half(x) ==
    \/ tx[x].op # "alter_policy" /\ At(x, "policy")
    \/ tx[x].op = "alter_policy" /\ At(x, "job")
    \/ At(x, "cascade")
Other(x) == IF tx[x].op = "alter_policy" THEN "policy" ELSE "job"

\* The versions written come in pairs.  In between, the first is what the
\* second will be, computed from the same committed version.
Paired(x) ==
    /\ \A j \in Jobs : buf[x]["policy"][j] = buf[x]["job"][j] \/ (Half(x) /\ j = Current(x))
    /\ Half(x) /\ ~At(x, "cascade") =>
        /\ Present(Other(x), Current(x))
        /\ buf[x][Other(x)][Current(x)] = NewVersion(x, Other(x), rows[Other(x)][Current(x)])
    /\ At(x, "cascade") =>
        /\ buf[x]["job"][Current(x)] = IF Present("job", Current(x)) THEN Dropped ELSE Null
        /\ buf[x]["policy"][Current(x)] = Null
    /\ tx[x].op = "remove" => rows["job"][Current(x)] # NoRow

\* A pass holds the jobs it has selected, and they stay due.
DueHeld(x) ==
    tx[x].op = "due" /\ ~At(x, "select") => \A i \in 1..Len(tx[x].todo) :
        /\ locks[x]["job"][tx[x].todo[i]] = ForUpdate
        /\ Present("job", tx[x].todo[i])
        /\ Due(rows["job"][tx[x].todo[i]], tx[x].start)

PInv(x) == Shape(x) /\ Applying(x) /\ Writes(x) /\ Paired(x) /\ DueHeld(x)

LocksCompatible ==
    \A x, y \in Procs, t \in Tables, j \in Jobs : x # y => locks[x][t][j] + locks[y][t][j] <= 3

SchedInv ==
    /\ SchedTypes /\ LocksCompatible /\ PolicyMirrorsJob
    /\ \A x \in Procs : PInv(x)

\* One worker moves a build's row; it finds it queued.
BuildOk(r, c, w) ==
    /\ r.status = "completed" => r.published \/ r.empty
    /\ r.status \in {"none", "queued"} => ~r.published
    /\ c = "none" => w.pc = "none" /\ w.polls = 0
    /\ c # "closed" => r.status = "none"
    /\ r.status = "none" => w.pc \in {"none", "poll", "expired", "gone", "killed"}
    /\ w.pc = "poll" => w.polls < MaxPolls /\ r.status \in {"none", "queued"}
    /\ w.pc \in {"run", "build", "published"} => r.status = "queued"
    /\ w.pc = "record" => r.status = "running"
BuildInv == BuildTypeOK /\ \A b \in Builds : BuildOk(row[b], caller[b], worker[b])

\* Every slot that is not free belongs to one of finitely many workers.
SlotInv ==
    /\ SlotsTypeOK
    /\ IsFiniteSet(Building) /\ IsFiniteSet(Passing)
    /\ SlotsConserved

IInv == SchedInv /\ BuildInv /\ SlotInv

-------------------------------------------------------------------------------
\* The job rows of builds, and the workers that move them.
LEMMA BuildStep ==
    ASSUME BuildInv, NEW b \in Builds,
           \/ Launch(b) \/ LaunchFails(b) \/ CallerCommits(b) \/ CallerAborts(b)
           \/ WorkerStep(b) \/ Terminate(b) \/ KillWorker(b)
    PROVE  BuildInv'
<1>1. /\ row \in [Builds -> [status : JobStatus, published : BOOLEAN, empty : BOOLEAN]]
      /\ caller \in [Builds -> {"none", "open", "closed"}]
      /\ worker \in [Builds -> [pc : WorkerPc, polls : 0..MaxPolls]]
      /\ MaxPolls \in Nat \ {0}
  BY PollsAssumption DEF BuildInv, BuildTypeOK
<1>2. \A o \in Builds : BuildOk(row[o], caller[o], worker[o])
  BY DEF BuildInv
<1> DEFINE Result == /\ BuildTypeOK'
                     /\ BuildOk(row'[b], caller'[b], worker'[b])
                     /\ \A o \in Builds \ {b} : row'[o] = row[o] /\ caller'[o] = caller[o] /\ worker'[o] = worker[o]
<1>3. ASSUME Launch(b) PROVE Result
  BY <1>1, <1>2, <1>3 DEF Launch, Goes, BuildTypeOK, BuildOk, JobStatus, WorkerPc
<1>4. ASSUME LaunchFails(b) PROVE Result
  BY <1>1, <1>2, <1>4 DEF LaunchFails, BuildTypeOK, BuildOk, JobStatus, WorkerPc
<1>5. ASSUME CallerCommits(b) PROVE Result
  BY <1>1, <1>2, <1>5 DEF CallerCommits, BuildTypeOK, BuildOk, JobStatus, WorkerPc
<1>6. ASSUME CallerAborts(b) PROVE Result
  BY <1>1, <1>2, <1>6 DEF CallerAborts, BuildTypeOK, BuildOk, JobStatus, WorkerPc
<1>7. ASSUME Expire(b) PROVE Result
  BY <1>1, <1>2, <1>7 DEF Expire, Leaves, BuildTypeOK, BuildOk, JobStatus, WorkerPc
<1>8. ASSUME RunBuildJob(b) PROVE Result
  BY <1>1, <1>2, <1>8 DEF RunBuildJob, Goes, BuildTypeOK, BuildOk, JobStatus, WorkerPc
<1>9. ASSUME PublishBuild(b) PROVE Result
  BY <1>1, <1>2, <1>9 DEF PublishBuild, Goes, BuildTypeOK, BuildOk, JobStatus, WorkerPc
<1>10. ASSUME CompleteBuild(b) PROVE Result
  <2>1. PICK p \in BOOLEAN, e \in BOOLEAN :
            /\ row' = [row EXCEPT ![b] = [status |-> "completed", published |-> p, empty |-> e]]
            /\ p \/ e
    <3>1. CASE worker[b].pc = "published"
      BY <1>10, <3>1 DEF CompleteBuild
    <3>2. CASE worker[b].pc = "build"
      BY <1>10, <3>2 DEF CompleteBuild
    <3>3. QED
      BY <1>10, <3>1, <3>2 DEF CompleteBuild
  <2>2. [status |-> "completed", published |-> p, empty |-> e]
            \in [status : JobStatus, published : BOOLEAN, empty : BOOLEAN]
    BY DEF JobStatus
  <2>3. row[b].status = "queued" /\ caller[b] = "closed"
    BY <1>1, <1>2, <1>10 DEF CompleteBuild, BuildOk
  <2>4. QED
    BY <1>1, <1>2, <1>10, <2>1, <2>2, <2>3 DEF CompleteBuild, Leaves, BuildTypeOK, BuildOk, WorkerPc
<1>11. ASSUME ReturnErr(b) PROVE Result
  <2>1. row[b].status = "queued" /\ caller[b] = "closed"
    BY <1>1, <1>2, <1>11 DEF ReturnErr, BuildOk
  <2>2. PICK p \in BOOLEAN : p = (worker[b].pc = "published")
    OBVIOUS
  <2>3. row' = [row EXCEPT ![b].status = "running", ![b].published = p]
    BY <1>11, <2>1, <2>2 DEF ReturnErr
  <2> DEFINE q == [row EXCEPT ![b].status = "running"]
             T == [status : JobStatus, published : BOOLEAN, empty : BOOLEAN]
  <2>4. q \in [Builds -> T] /\ q[b].status = "running" /\ \A o \in Builds \ {b} : q[o] = row[o]
    BY <1>1 DEF JobStatus
  <2>5. row' = [q EXCEPT ![b].published = p]
    BY <2>3
  <2>6. /\ row' \in [Builds -> T] /\ row'[b].status = "running"
        /\ \A o \in Builds \ {b} : row'[o] = row[o]
    <3> HIDE DEF q
    <3>1. QED
      BY <2>2, <2>4, <2>5, ZenonT(60)
  <2>7. /\ worker' \in [Builds -> [pc : WorkerPc, polls : 0..MaxPolls]] /\ worker'[b].pc = "record"
        /\ \A o \in Builds \ {b} : worker'[o] = worker[o]
        /\ caller' = caller
    BY <1>1, <1>11 DEF ReturnErr, Goes, WorkerPc
  <2>8. QED
    BY <1>1, <2>1, <2>6, <2>7 DEF BuildTypeOK, BuildOk
<1>12. ASSUME RecordFailure(b) PROVE Result
  BY <1>1, <1>2, <1>12 DEF RecordFailure, Leaves, BuildTypeOK, BuildOk, JobStatus, WorkerPc
<1>13. ASSUME Terminate(b) PROVE Result
  BY <1>1, <1>2, <1>13 DEF Terminate, Leaves, BuildTypeOK, BuildOk, JobStatus, WorkerPc
<1>14. ASSUME KillWorker(b) PROVE Result
  BY <1>1, <1>2, <1>14 DEF KillWorker, Leaves, Alive, BuildTypeOK, BuildOk, JobStatus, WorkerPc
<1>15. ASSUME Poll(b) PROVE Result
  <2>1. CASE row[b].status # "none" /\ Goes(b, "run")
    BY <1>1, <1>2, <1>15, <2>1 DEF Poll, Goes, BuildTypeOK, BuildOk, JobStatus, WorkerPc
  <2>2. CASE row[b].status = "none"
    <3>1. worker' = [worker EXCEPT ![b] =
                [polls |-> worker[b].polls + 1,
                 pc |-> IF worker[b].polls + 1 = MaxPolls THEN "expired" ELSE "poll"]]
      BY <1>15, <2>2 DEF Poll
    <3>2. worker[b].polls \in Nat /\ worker[b].polls < MaxPolls
      BY <1>1, <1>2, <1>15 DEF Poll, BuildOk
    <3>3. QED
      BY <1>1, <1>2, <1>15, <2>2, <3>1, <3>2 DEF Poll, BuildTypeOK, BuildOk, JobStatus, WorkerPc
  <2>3. QED
    BY <1>15, <2>1, <2>2 DEF Poll
<1>16. Result
  BY <1>3, <1>4, <1>5, <1>6, <1>7, <1>8, <1>9, <1>10, <1>11, <1>12, <1>13, <1>14, <1>15 DEF WorkerStep
<1>17. QED
  BY <1>2, <1>16 DEF BuildInv

-------------------------------------------------------------------------------
\* The types of what one process holds.
LEMMA ProcTypes ==
    ASSUME SchedTypes, NEW x \in Procs
    PROVE  /\ tx[x] \in Tx
           /\ buf[x] \in [Tables -> [Jobs -> {Null, Dropped} \cup Row]]
           /\ locks[x] \in [Tables -> [Jobs -> 0..3]]
  BY DEF SchedTypes

\* The job a process is working on is one of the jobs.
LEMMA CurrentIsJob ==
    ASSUME SchedTypes, NEW x \in Procs, tx[x].todo # <<>>
    PROVE  Current(x) \in Jobs /\ Current(x) = tx[x].todo[1] /\ Len(tx[x].todo) \in Nat \ {0}
<1>1. tx[x].todo \in Seq(Jobs)
  BY ProcTypes DEF Tx
<1>2. QED
  BY <1>1 DEF Current

\* A NULL argument keeps the column, another one has the column's type.
LEMMA CoalesceTyped ==
    ASSUME NEW S, Null \notin S, NEW v \in S \cup {Null}, NEW old \in S
    PROVE  Coalesce(v, old) \in S
  BY DEF Coalesce

\* Every version an UPDATE writes is a row, and a run's keeps the settings.
LEMMA NewVersionIsRow ==
    ASSUME SchedTypes, NEW x \in Procs, NEW t, NEW r \in Row,
           Runs(x) => tx[x].policy \in Row
    PROVE  /\ NewVersion(x, t, r) \in Row
           /\ Runs(x) => /\ NewVersion(x, t, r).enabled = r.enabled
                         /\ NewVersion(x, t, r).interval = r.interval
<1>1. /\ tx[x].out \in Statuses /\ tx[x].start \in Nat
      /\ tx[x].enabled \in BOOLEAN \cup {Null} /\ tx[x].interval \in Intervals \cup {Null}
      /\ Intervals \subseteq Nat
  BY ProcTypes, JobsAssumption DEF Tx
<1>2. r.enabled \in BOOLEAN /\ r.interval \in Intervals /\ r.next \in Nat
  BY DEF Row
<1>3. CASE Runs(x)
  <2> DEFINE n == IF tx[x].out = "completed" THEN tx[x].start + tx[x].policy.interval ELSE r.next
  <2>1. tx[x].policy.interval \in Nat
    BY <1>1, <1>3 DEF Row
  <2>2. n \in Nat
    BY <1>1, <1>2, <2>1
  <2>3. NewVersion(x, t, r) = [r EXCEPT !.status = tx[x].out, !.next = n]
    BY <1>3 DEF NewVersion, Runs
  <2> HIDE DEF n
  <2>4. QED
    BY <1>1, <2>2, <2>3 DEF Row
<1>4. CASE ~Runs(x)
  <2> DEFINE e == Coalesce(tx[x].enabled, r.enabled)
             i == Coalesce(tx[x].interval, r.interval)
             n == IF tx[x].interval = Null THEN r.next ELSE tx[x].start + tx[x].interval
  <2>1. e \in BOOLEAN
    BY <1>1, <1>2, CoalesceTyped, NoValueAssumption
  <2>2. i \in Intervals
    BY <1>1, <1>2, CoalesceTyped, NoValueAssumption
  <2>3. n \in Nat
    <3>1. CASE tx[x].interval = Null
      BY <1>2, <3>1
    <3>2. CASE tx[x].interval # Null
      <4>1. tx[x].interval \in Nat
        BY <1>1, <3>2
      <4>2. n = tx[x].start + tx[x].interval
        BY <3>2
      <4>3. QED
        BY <1>1, <4>1, <4>2
    <3>3. QED
      BY <3>1, <3>2
  <2>4. NewVersion(x, t, r) = [r EXCEPT !.enabled = e, !.interval = i, !.next = n]
    BY <1>4 DEF NewVersion, Runs
  <2> HIDE DEF e, i, n
  <2>5. QED
    BY <1>4, <2>1, <2>2, <2>3, <2>4 DEF Row
<1>5. QED
  BY <1>3, <1>4

-------------------------------------------------------------------------------
\* What a process holds stays right while another one moves: nobody touches its
\* advisory locks, and a row it has written or selected does not change.
LEMMA OtherKeeps ==
    ASSUME SchedInv, NEW y \in Procs,
           tx'[y] = tx[y], buf'[y] = buf[y], locks'[y] = locks[y],
           \A j \in Jobs : advisory[j] = y => advisory'[j] = y,
           \A t \in Tables, j \in Jobs : rows'[t][j] # rows[t][j] =>
                /\ rows'[t][j] # NoRow
                /\ rows[t][j] = NoRow \/ (Present(t, j) /\ locks[y][t][j] < NoKeyUpdate)
    PROVE  PInv(y)'
<1>1. /\ SchedTypes /\ Shape(y) /\ Applying(y) /\ Writes(y) /\ Paired(y) /\ DueHeld(y)
  BY DEF SchedInv, PInv
<1>2. /\ tx[y] \in Tx
      /\ buf[y] \in [Tables -> [Jobs -> {Null, Dropped} \cup Row]]
      /\ locks[y] \in [Tables -> [Jobs -> 0..3]]
  BY <1>1, ProcTypes
<1>3. /\ \A p : At(y, p)' = At(y, p)
      /\ Current(y)' = Current(y) /\ Runs(y)' = Runs(y) /\ Half(y)' = Half(y)
      /\ Other(y)' = Other(y)
  BY DEF At, Current, Runs, Half, Other
<1>4. Shape(y)'
  BY <1>1, <1>3 DEF Shape
<1>5. Applying(y)'
  BY <1>1, <1>3, CurrentIsJob DEF Applying, Shape, At
<1>6. \A t \in Tables, j \in Jobs : Present(t, j) /\ locks[y][t][j] >= NoKeyUpdate
            => rows'[t][j] = rows[t][j] /\ Present(t, j)'
  BY <1>2 DEF Present, NoKeyUpdate
<1>7. Writes(y)'
  BY <1>1, <1>3, <1>6 DEF Writes
<1>8. DueHeld(y)'
  <2>1. SUFFICES ASSUME tx[y].op = "due", ~At(y, "select"), NEW i \in 1..Len(tx[y].todo)
                 PROVE  /\ locks[y]["job"][tx[y].todo[i]] = ForUpdate
                        /\ Present("job", tx[y].todo[i])'
                        /\ Due(rows'["job"][tx[y].todo[i]], tx[y].start)
    BY <1>3 DEF DueHeld, Due
  <2>2. tx[y].todo[i] \in Jobs
    BY <1>2, <2>1 DEF Tx
  <2>3. /\ locks[y]["job"][tx[y].todo[i]] = ForUpdate
        /\ Present("job", tx[y].todo[i])
        /\ Due(rows["job"][tx[y].todo[i]], tx[y].start)
    BY <1>1, <2>1 DEF DueHeld
  <2>4. rows'["job"][tx[y].todo[i]] = rows["job"][tx[y].todo[i]] /\ Present("job", tx[y].todo[i])'
    BY <1>6, <2>2, <2>3 DEF Tables, ForUpdate, NoKeyUpdate
  <2>5. QED
    BY <2>3, <2>4
<1>9. Paired(y)'
  <2>1. \A j \in Jobs : buf'[y]["policy"][j] = buf'[y]["job"][j] \/ (Half(y)' /\ j = Current(y)')
    BY <1>1, <1>3 DEF Paired
  <2>2. ASSUME Half(y), ~At(y, "cascade")
        PROVE  /\ Present(Other(y), Current(y))'
               /\ buf'[y][Other(y)][Current(y)] = NewVersion(y, Other(y), rows[Other(y)][Current(y)])'
    <3> DEFINE t == Other(y)
               j == Current(y)
    <3>1. t \in Tables /\ j \in Jobs
      BY <1>1, <2>2, CurrentIsJob DEF Other, Tables, Half, Shape, At
    <3>2. Present(t, j) /\ buf[y][t][j] = NewVersion(y, t, rows[t][j])
      BY <1>1, <2>2 DEF Paired
    <3>3. rows[t][j] \in Row
      BY <1>1, <3>1, <3>2 DEF SchedTypes, Present
    <3>4. Runs(y) => tx[y].policy \in Row
      BY <1>1, <2>2 DEF Half, At, Shape, Runs
    <3>5. buf[y][t][j] # Null
      BY <1>1, <3>2, <3>3, <3>4, NewVersionIsRow, NoValueAssumption
    <3>6. rows'[t][j] = rows[t][j] /\ Present(t, j)'
      BY <1>1, <1>3, <1>6, <3>1, <3>2, <3>5 DEF Writes
    <3>7. NewVersion(y, t, rows[t][j])' = NewVersion(y, t, rows[t][j])
      BY <1>3, <3>6 DEF NewVersion
    <3>8. QED
      BY <1>3, <3>2, <3>6, <3>7
  <2>3. ASSUME At(y, "cascade")
        PROVE  /\ buf'[y]["job"][Current(y)] = IF Present("job", Current(y))' THEN Dropped ELSE Null
               /\ buf'[y]["policy"][Current(y)] = Null
    <3>1. Current(y) \in Jobs /\ "job" \in Tables /\ tx[y].op = "remove"
      BY <1>1, <1>2, <2>3, CurrentIsJob DEF Tables, Shape, At, Tx, Ops, RunSteps, Idle
    <3>2. /\ buf[y]["job"][Current(y)] = IF Present("job", Current(y)) THEN Dropped ELSE Null
          /\ buf[y]["policy"][Current(y)] = Null
          /\ rows["job"][Current(y)] # NoRow
      BY <1>1, <2>3, <3>1 DEF Paired
    <3>3. CASE Present("job", Current(y))
      BY <1>1, <1>3, <1>6, <3>1, <3>2, <3>3, NoValueAssumption DEF Writes
    <3>4. CASE ~Present("job", Current(y))
      BY <1>3, <3>1, <3>2, <3>4 DEF Present
    <3>5. QED
      BY <3>3, <3>4
  <2>4. tx[y].op = "remove" => rows'["job"][Current(y)] # NoRow
    BY <1>1, CurrentIsJob DEF Paired, Shape, Tables
  <2>5. QED
    BY <1>3, <2>1, <2>2, <2>3, <2>4 DEF Paired
<1>10. QED
  BY <1>4, <1>5, <1>7, <1>8, <1>9 DEF PInv

\* A step of one process keeps the invariant when its new state is right, its
\* locks conflict with nobody's, and the rows it changes are new or locked.
LEMMA Frame ==
    ASSUME SchedInv, NEW x \in Procs, NEW t \in Tx,
           NEW w \in [Tables -> [Jobs -> {Null, Dropped} \cup Row]],
           NEW l \in [Tables -> [Jobs -> 0..3]],
           tx' = [tx EXCEPT ![x] = t],
           buf' = [buf EXCEPT ![x] = w],
           locks' = [locks EXCEPT ![x] = l],
           clock' \in 0..MaxTime,
           failures' \in [Jobs -> 0..MaxRetries],
           advisory' \in [Jobs -> Procs \cup {Null}],
           rows' \in [Tables -> [Jobs -> {NoRow, Dropped} \cup Row]],
           \A y \in Procs \ {x}, s \in Tables, j \in Jobs : l[s][j] + locks[y][s][j] <= 3,
           \A y \in Procs \ {x}, j \in Jobs : advisory[j] = y => advisory'[j] = y,
           \A s \in Tables, j \in Jobs : rows'[s][j] # rows[s][j] =>
                /\ rows'[s][j] # NoRow
                /\ rows[s][j] = NoRow \/ (Present(s, j) /\ locks[x][s][j] >= NoKeyUpdate),
           PolicyMirrorsJob', PInv(x)'
    PROVE  SchedInv'
<1>1. SchedTypes /\ LocksCompatible
  BY DEF SchedInv
<1>2. SchedTypes'
  BY <1>1 DEF SchedTypes
<1>3. /\ locks \in [Procs -> [Tables -> [Jobs -> 0..3]]]
      /\ \A y \in Procs, s \in Tables, j \in Jobs : locks[y][s][j] \in 0..3
  <2>1. locks \in [Procs -> [Tables -> [Jobs -> 0..3]]]
    BY <1>1 DEF SchedTypes
  <2>2. ASSUME NEW y \in Procs, NEW s \in Tables, NEW j \in Jobs PROVE locks[y][s][j] \in 0..3
    <3>1. locks[y] \in [Tables -> [Jobs -> 0..3]]
      BY <2>1
    <3>2. locks[y][s] \in [Jobs -> 0..3]
      BY <3>1
    <3>3. QED
      BY <3>2
  <2>3. QED
    BY <2>1, <2>2
<1>4. LocksCompatible'
  <2>1. SUFFICES ASSUME NEW y \in Procs, NEW z \in Procs, NEW s \in Tables, NEW j \in Jobs, y # z
                 PROVE  locks'[y][s][j] + locks'[z][s][j] <= 3
    BY DEF LocksCompatible
  <2>2. locks'[x] = l /\ \A o \in Procs \ {x} : locks'[o] = locks[o]
    BY <1>3
  <2>3. locks[y][s][j] + locks[z][s][j] <= 3
    BY <1>1, <2>1 DEF LocksCompatible
  <2>4. l[s][j] \in 0..3 /\ locks[y][s][j] \in 0..3 /\ locks[z][s][j] \in 0..3
    <3>1. l[s] \in [Jobs -> 0..3]
      OBVIOUS
    <3>2. QED
      BY <1>3, <3>1
  <2>5. CASE y = x
    BY <2>1, <2>2, <2>5
  <2>6. CASE z = x
    BY <2>1, <2>2, <2>4, <2>6
  <2>7. CASE y # x /\ z # x
    BY <2>2, <2>3, <2>7
  <2>8. QED
    BY <2>5, <2>6, <2>7
<1>5. ASSUME NEW y \in Procs \ {x} PROVE PInv(y)'
  <2>1. tx'[y] = tx[y] /\ buf'[y] = buf[y] /\ locks'[y] = locks[y]
    BY <1>1 DEF SchedTypes
  <2>2. ASSUME NEW s \in Tables, NEW j \in Jobs, locks[x][s][j] >= NoKeyUpdate
        PROVE  locks[y][s][j] < NoKeyUpdate
    <3>1. locks[x][s][j] + locks[y][s][j] <= 3 /\ locks[x][s][j] \in 0..3 /\ locks[y][s][j] \in 0..3
      BY <1>1, <1>3 DEF LocksCompatible
    <3>2. QED
      BY <2>2, <3>1 DEF NoKeyUpdate
  <2>3. QED
    BY <2>1, <2>2, OtherKeeps
<1>6. QED
  BY <1>2, <1>4, <1>5 DEF SchedInv

-------------------------------------------------------------------------------
\* A process between two calls.
LEMMA IdleTyped ==
    /\ Idle \in Tx
    /\ NoWrites \in [Tables -> [Jobs -> {Null, Dropped} \cup Row]]
    /\ NoLocks \in [Tables -> [Jobs -> 0..3]]
  BY JobsAssumption DEF Idle, Tx, Ops, Pcs, RunSteps, Statuses, NoWrites, NoLocks

\* A process that has ended holds nothing it would have to answer for.
LEMMA IdleIsRight ==
    ASSUME NEW x \in Procs, tx'[x] = Idle, buf'[x] = NoWrites
    PROVE  PInv(x)'
<1>1. Shape(x)' /\ Applying(x)' /\ DueHeld(x)'
  BY DEF Shape, Applying, DueHeld, At, Runs, Idle
<1>2. \A t \in Tables, j \in Jobs : buf'[x][t][j] = Null
  BY DEF NoWrites
<1>3. Writes(x)'
  BY <1>2 DEF Writes
<1>4. Paired(x)'
  <2>1. ~Half(x)' /\ ~At(x, "cascade")' /\ tx'[x].op # "remove"
    BY DEF Half, At, Idle
  <2>2. QED
    BY <1>2, <2>1 DEF Paired, Tables
<1>5. QED
  BY <1>1, <1>3, <1>4 DEF PInv

\* The rest of a transaction's end: the advisory locks, and who keeps his.
LEMMA EndsKeeps ==
    ASSUME SchedInv, NEW x \in Procs, Ends(x),
           failures' \in [Jobs -> 0..MaxRetries],
           rows' \in [Tables -> [Jobs -> {NoRow, Dropped} \cup Row]],
           \A s \in Tables, j \in Jobs : rows'[s][j] # rows[s][j] =>
                /\ rows'[s][j] # NoRow
                /\ rows[s][j] = NoRow \/ (Present(s, j) /\ locks[x][s][j] >= NoKeyUpdate),
           PolicyMirrorsJob'
    PROVE  SchedInv'
<1>1. SchedTypes
  BY DEF SchedInv
<1>2. /\ tx' = [tx EXCEPT ![x] = Idle]
      /\ locks' = [locks EXCEPT ![x] = NoLocks]
      /\ buf' = [buf EXCEPT ![x] = NoWrites]
      /\ advisory' = [j \in Jobs |-> IF advisory[j] = x THEN Null ELSE advisory[j]]
      /\ clock' = clock
  BY DEF Ends
<1>3. PInv(x)'
  <2>1. tx'[x] = Idle /\ buf'[x] = NoWrites
    BY <1>1, <1>2 DEF SchedTypes
  <2>2. QED
    BY <2>1, IdleIsRight
<1>4. /\ advisory' \in [Jobs -> Procs \cup {Null}] /\ clock' \in 0..MaxTime
      /\ \A y \in Procs \ {x}, j \in Jobs : advisory[j] = y => advisory'[j] = y
  BY <1>1, <1>2 DEF SchedTypes
<1>5. ASSUME NEW y \in Procs \ {x}, NEW s \in Tables, NEW j \in Jobs
      PROVE  NoLocks[s][j] + locks[y][s][j] <= 3
  <2>1. locks[y] \in [Tables -> [Jobs -> 0..3]]
    BY <1>1, ProcTypes
  <2>2. locks[y][s] \in [Jobs -> 0..3]
    BY <2>1
  <2>3. NoLocks[s][j] = 0
    BY DEF NoLocks
  <2>4. QED
    BY <2>2, <2>3
<1>6. QED
  BY <1>2, <1>3, <1>4, <1>5, IdleTyped, Frame

\* A transaction that aborts leaves no trace.
LEMMA AbortKeeps ==
    ASSUME SchedInv, NEW x \in Procs, Abort(x)
    PROVE  SchedInv'
<1>1. rows' = rows /\ failures' = failures /\ Ends(x)
  BY DEF Abort
<1>2. /\ failures' \in [Jobs -> 0..MaxRetries]
      /\ rows' \in [Tables -> [Jobs -> {NoRow, Dropped} \cup Row]]
      /\ PolicyMirrorsJob'
  BY <1>1 DEF SchedInv, SchedTypes, PolicyMirrorsJob
<1>3. QED
  BY <1>1, <1>2, EndsKeeps

\* A transaction that commits has written both rows of a job or neither.
LEMMA CommitKeeps ==
    ASSUME SchedInv, NEW x \in Procs, Commit(x), ~Half(x), tx[x].todo # <<>>
    PROVE  SchedInv'
<1>1. SchedTypes /\ Writes(x) /\ Paired(x) /\ PolicyMirrorsJob
  BY DEF SchedInv, PInv
<1>2. /\ rows \in [Tables -> [Jobs -> {NoRow, Dropped} \cup Row]]
      /\ buf[x] \in [Tables -> [Jobs -> {Null, Dropped} \cup Row]]
      /\ failures \in [Jobs -> 0..MaxRetries]
  BY <1>1, ProcTypes DEF SchedTypes
<1>3. /\ rows' = [s \in Tables |-> [j \in Jobs |->
                    IF buf[x][s][j] = Null THEN rows[s][j] ELSE buf[x][s][j]]]
      /\ failures' = IF tx[x].out \in Failed /\ failures[Current(x)] < MaxRetries
                     THEN [failures EXCEPT ![Current(x)] = @ + 1] ELSE failures
      /\ Ends(x)
  BY DEF Commit
<1>4. failures' \in [Jobs -> 0..MaxRetries]
  <2>1. Current(x) \in Jobs /\ MaxRetries \in Nat
    BY <1>1, CurrentIsJob, JobsAssumption
  <2>2. QED
    BY <1>2, <1>3, <2>1
<1>5. ASSUME NEW s \in Tables, NEW j \in Jobs
      PROVE  /\ rows'[s][j] = IF buf[x][s][j] = Null THEN rows[s][j] ELSE buf[x][s][j]
             /\ rows[s][j] \in {NoRow, Dropped} \cup Row
             /\ buf[x][s][j] \in {Null, Dropped} \cup Row
  <2>1. rows[s] \in [Jobs -> {NoRow, Dropped} \cup Row] /\ buf[x][s] \in [Jobs -> {Null, Dropped} \cup Row]
    BY <1>2
  <2>2. QED
    BY <1>3, <2>1
<1>6. rows' \in [Tables -> [Jobs -> {NoRow, Dropped} \cup Row]]
  BY <1>3, <1>5
<1>7. \A s \in Tables, j \in Jobs : rows'[s][j] # rows[s][j] =>
                /\ rows'[s][j] # NoRow
                /\ rows[s][j] = NoRow \/ (Present(s, j) /\ locks[x][s][j] >= NoKeyUpdate)
  BY <1>1, <1>5, NoValueAssumption DEF Writes
<1>8. PolicyMirrorsJob'
  <2>1. \A j \in Jobs : rows'["policy"][j] = rows'["job"][j]
    BY <1>1, <1>5 DEF Paired, PolicyMirrorsJob, Tables
  <2>2. rows'["policy"] \in [Jobs -> {NoRow, Dropped} \cup Row] /\ rows'["job"] \in [Jobs -> {NoRow, Dropped} \cup Row]
    BY <1>6 DEF Tables
  <2>3. QED
    BY <2>1, <2>2 DEF PolicyMirrorsJob
<1>9. QED
  BY <1>3, <1>4, <1>6, <1>7, <1>8, EndsKeeps

-------------------------------------------------------------------------------
\* Steps that commit nothing.
LEMMA Quiet ==
    ASSUME SchedInv, NEW x \in Procs, NEW t \in Tx,
           NEW w \in [Tables -> [Jobs -> {Null, Dropped} \cup Row]],
           NEW l \in [Tables -> [Jobs -> 0..3]],
           tx' = [tx EXCEPT ![x] = t],
           buf' = [buf EXCEPT ![x] = w],
           locks' = [locks EXCEPT ![x] = l],
           clock' = clock, rows' = rows, failures' = failures,
           advisory' \in [Jobs -> Procs \cup {Null}],
           \A y \in Procs \ {x}, s \in Tables, j \in Jobs : l[s][j] + locks[y][s][j] <= 3,
           \A y \in Procs \ {x}, j \in Jobs : advisory[j] = y => advisory'[j] = y,
           PInv(x)'
    PROVE  SchedInv'
<1>1. /\ clock' \in 0..MaxTime
      /\ failures' \in [Jobs -> 0..MaxRetries]
      /\ rows' \in [Tables -> [Jobs -> {NoRow, Dropped} \cup Row]]
      /\ PolicyMirrorsJob'
  BY DEF SchedInv, SchedTypes, PolicyMirrorsJob
<1>2. QED
  BY <1>1, Frame

\* ... and neither write nor lock a row.
LEMMA Silent ==
    ASSUME SchedInv, NEW x \in Procs, NEW t \in Tx,
           tx' = [tx EXCEPT ![x] = t], buf' = buf, locks' = locks,
           clock' = clock, rows' = rows, failures' = failures,
           advisory' \in [Jobs -> Procs \cup {Null}],
           \A y \in Procs \ {x}, j \in Jobs : advisory[j] = y => advisory'[j] = y,
           PInv(x)'
    PROVE  SchedInv'
<1>1. /\ buf[x] \in [Tables -> [Jobs -> {Null, Dropped} \cup Row]]
      /\ locks[x] \in [Tables -> [Jobs -> 0..3]]
  BY ProcTypes DEF SchedInv
<1>2. buf' = [buf EXCEPT ![x] = buf[x]] /\ locks' = [locks EXCEPT ![x] = locks[x]]
  BY DEF SchedInv, SchedTypes
<1>3. \A y \in Procs \ {x}, s \in Tables, j \in Jobs : locks[x][s][j] + locks[y][s][j] <= 3
  BY DEF SchedInv, LocksCompatible
<1>4. PICK w \in [Tables -> [Jobs -> {Null, Dropped} \cup Row]], l \in [Tables -> [Jobs -> 0..3]] :
        w = buf[x] /\ l = locks[x]
  BY <1>1
<1>5. buf' = [buf EXCEPT ![x] = w] /\ locks' = [locks EXCEPT ![x] = l]
  BY <1>2, <1>4
<1>6. \A y \in Procs \ {x}, s \in Tables, j \in Jobs : l[s][j] + locks[y][s][j] <= 3
  BY <1>3, <1>4
<1>7. QED
  BY <1>5, <1>6, Quiet, ZenonT(60)

\* A call begins with no lock and no version written.
LEMMA CallKeeps ==
    ASSUME SchedInv, NEW x \in Procs, NEW t \in Tx, Calls(x, t),
           \/ t.op = "run" /\ t.pc = "read"
           \/ t.op = "due" /\ t.pc = "select"
           \/ t.op = "alter_policy" /\ t.pc = "policy"
           \/ t.op = "alter_job" /\ t.pc = "job"
           \/ t.op = "remove" /\ t.pc = "delete" /\ rows["job"][Head(t.todo)] # NoRow,
           t.pc # "select" => t.todo # <<>>
    PROVE  SchedInv'
<1>1. /\ tx' = [tx EXCEPT ![x] = t] /\ tx[x] = Idle
      /\ buf' = buf /\ locks' = locks /\ clock' = clock /\ rows' = rows
      /\ failures' = failures /\ advisory' = advisory
  BY DEF Calls
<1>2. tx'[x] = t /\ advisory' \in [Jobs -> Procs \cup {Null}]
  BY <1>1 DEF SchedInv, SchedTypes
<1>3. buf[x] = NoWrites
  BY <1>1 DEF SchedInv, PInv, Writes
<1>4. Shape(x)' /\ Applying(x)' /\ DueHeld(x)'
  BY <1>2 DEF Shape, Applying, DueHeld, At, Runs, RunSteps
<1>5. Writes(x)'
  BY <1>1, <1>3 DEF Writes, NoWrites
<1>6. Paired(x)'
  <2>1. ~Half(x)' /\ ~At(x, "cascade")'
    BY <1>2 DEF Half, At
  <2>2. \A j \in Jobs : buf'[x]["policy"][j] = buf'[x]["job"][j]
    BY <1>1, <1>3 DEF NoWrites, Tables
  <2>3. tx'[x].op = "remove" => rows'["job"][Head(tx'[x].todo)] # NoRow
    BY <1>1, <1>2
  <2>4. QED
    BY <2>1, <2>2, <2>3 DEF Paired, Current
<1>7. QED
  BY <1>1, <1>2, <1>4, <1>5, <1>6, Silent DEF PInv

\* The calls of sessions, and of the worker that runs the due jobs.
LEMMA CallsKeep ==
    ASSUME SchedInv, NEW x \in Procs,
           \/ RunDueJobs(x) \/ RunDueJobsAsync(x)
           \/ \E j \in Jobs : RunSyncPolicy(x, j) \/ RemoveJob(x, j)
           \/ \E j \in Jobs, i \in Intervals \cup {Null}, e \in BOOLEAN \cup {Null} :
                    AlterSyncPolicy(x, j, e, i) \/ AlterJob(x, j, e, i)
    PROVE  SchedInv'
<1>1. clock \in 0..MaxTime
  BY DEF SchedInv, SchedTypes
<1>2. ASSUME NEW op \in Ops, NEW pc \in Pcs, NEW todo \in Seq(Jobs)
      PROVE  /\ Begin(x, op, pc, todo) \in Tx
             /\ Begin(x, op, pc, todo).op = op /\ Begin(x, op, pc, todo).pc = pc
             /\ Begin(x, op, pc, todo).todo = todo
  <2>1. PICK r \in Tx : r = Idle
    BY IdleTyped
  <2>2. Begin(x, op, pc, todo) = [r EXCEPT !.op = op, !.pc = pc, !.todo = todo, !.start = clock]
    BY <2>1 DEF Begin
  <2>3. QED
    BY <1>1, <2>2 DEF Tx
<1>3. ASSUME NEW r \in Tx, NEW e \in BOOLEAN \cup {Null}, NEW i \in Intervals \cup {Null}
      PROVE  /\ [r EXCEPT !.enabled = e, !.interval = i] \in Tx
             /\ [r EXCEPT !.enabled = e, !.interval = i].op = r.op
             /\ [r EXCEPT !.enabled = e, !.interval = i].pc = r.pc
             /\ [r EXCEPT !.enabled = e, !.interval = i].todo = r.todo
  BY DEF Tx
<1>4. /\ {"run", "due", "alter_policy", "alter_job", "remove"} \subseteq Ops
      /\ {"read", "select", "policy", "job", "delete"} \subseteq Pcs
  BY DEF Ops, Pcs, RunSteps
<1>5. \A j \in Jobs : <<j>> \in Seq(Jobs) /\ <<j>> # <<>> /\ Head(<<j>>) = j
  OBVIOUS
<1>6. ASSUME RunDueJobs(x) \/ RunDueJobsAsync(x) PROVE SchedInv'
  <2> DEFINE t == Begin(x, "due", "select", <<>>)
  <2>1. t \in Tx /\ t.op = "due" /\ t.pc = "select"
    <3>1. <<>> \in Seq(Jobs) /\ "due" \in Ops /\ "select" \in Pcs
      BY <1>4
    <3>2. PICK o \in Ops, p \in Pcs, d \in Seq(Jobs) : o = "due" /\ p = "select" /\ d = <<>>
      BY <3>1
    <3>3. Begin(x, o, p, d) \in Tx /\ Begin(x, o, p, d).op = o /\ Begin(x, o, p, d).pc = p
      BY <1>2
    <3>4. QED
      BY <3>2, <3>3
  <2>2. Calls(x, t)
    BY <1>6 DEF RunDueJobs, RunDueJobsAsync
  <2> HIDE DEF t
  <2>3. QED
    BY <2>1, <2>2, CallKeeps
<1>7. ASSUME NEW j \in Jobs, RunSyncPolicy(x, j) PROVE SchedInv'
  <2> DEFINE t == Begin(x, "run", "read", <<j>>)
  <2>1. t \in Tx /\ t.op = "run" /\ t.pc = "read" /\ t.todo = <<j>>
    <3>1. PICK o \in Ops, p \in Pcs, d \in Seq(Jobs) : o = "run" /\ p = "read" /\ d = <<j>>
      BY <1>4, <1>5
    <3>2. /\ Begin(x, o, p, d) \in Tx /\ Begin(x, o, p, d).op = o /\ Begin(x, o, p, d).pc = p
          /\ Begin(x, o, p, d).todo = d
      BY <1>2
    <3>3. QED
      BY <3>1, <3>2
  <2>2. Calls(x, t)
    BY <1>7 DEF RunSyncPolicy
  <2> HIDE DEF t
  <2>3. QED
    BY <1>5, <2>1, <2>2, CallKeeps
<1>8. ASSUME NEW j \in Jobs, RemoveJob(x, j) PROVE SchedInv'
  <2> DEFINE t == Begin(x, "remove", "delete", <<j>>)
  <2>1. t \in Tx /\ t.op = "remove" /\ t.pc = "delete" /\ t.todo = <<j>>
    <3>1. PICK o \in Ops, p \in Pcs, d \in Seq(Jobs) : o = "remove" /\ p = "delete" /\ d = <<j>>
      BY <1>4, <1>5
    <3>2. /\ Begin(x, o, p, d) \in Tx /\ Begin(x, o, p, d).op = o /\ Begin(x, o, p, d).pc = p
          /\ Begin(x, o, p, d).todo = d
      BY <1>2
    <3>3. QED
      BY <3>1, <3>2
  <2>2. Calls(x, t) /\ rows["job"][j] # NoRow
    BY <1>8 DEF RemoveJob, Present
  <2> HIDE DEF t
  <2>3. QED
    BY <1>5, <2>1, <2>2, CallKeeps
<1>9. ASSUME NEW j \in Jobs, NEW i \in Intervals \cup {Null}, NEW e \in BOOLEAN \cup {Null},
             AlterSyncPolicy(x, j, e, i) \/ AlterJob(x, j, e, i)
      PROVE  SchedInv'
  <2> DEFINE a == Begin(x, "alter_policy", "policy", <<j>>)
             b == Begin(x, "alter_job", "job", <<j>>)
             t == [a EXCEPT !.enabled = e, !.interval = i]
             u == [b EXCEPT !.enabled = e, !.interval = i]
  <2>1. /\ a \in Tx /\ a.op = "alter_policy" /\ a.pc = "policy" /\ a.todo = <<j>>
        /\ b \in Tx /\ b.op = "alter_job" /\ b.pc = "job" /\ b.todo = <<j>>
    <3>1. PICK o \in Ops, p \in Pcs, d \in Seq(Jobs) : o = "alter_policy" /\ p = "policy" /\ d = <<j>>
      BY <1>4, <1>5
    <3>2. PICK q \in Ops, r \in Pcs : q = "alter_job" /\ r = "job"
      BY <1>4
    <3>3. /\ Begin(x, o, p, d) \in Tx /\ Begin(x, o, p, d).op = o /\ Begin(x, o, p, d).pc = p
          /\ Begin(x, o, p, d).todo = d
      BY <1>2
    <3>4. /\ Begin(x, q, r, d) \in Tx /\ Begin(x, q, r, d).op = q /\ Begin(x, q, r, d).pc = r
          /\ Begin(x, q, r, d).todo = d
      BY <1>2
    <3>5. QED
      BY <3>1, <3>2, <3>3, <3>4
  <2>2. Calls(x, t) \/ Calls(x, u)
    BY <1>9 DEF AlterSyncPolicy, AlterJob
  <2> HIDE DEF a, b
  <2>3. /\ t \in Tx /\ t.op = "alter_policy" /\ t.pc = "policy" /\ t.todo = <<j>>
        /\ u \in Tx /\ u.op = "alter_job" /\ u.pc = "job" /\ u.todo = <<j>>
    BY <1>3, <2>1
  <2> HIDE DEF t, u
  <2>4. QED
    BY <1>5, <2>2, <2>3, CallKeeps
<1>10. QED
  BY <1>6, <1>7, <1>8, <1>9

\* The clock and the creation of a job touch nothing a process relies on.
LEMMA OutsideKeeps ==
    ASSUME SchedInv, UNCHANGED <<failures, advisory, locks, buf, tx>>, clock' \in 0..MaxTime,
           rows' \in [Tables -> [Jobs -> {NoRow, Dropped} \cup Row]],
           \A s \in Tables, j \in Jobs : rows'[s][j] # rows[s][j] =>
                rows[s][j] = NoRow /\ rows'[s][j] # NoRow,
           PolicyMirrorsJob'
    PROVE  SchedInv'
<1>1. SchedTypes' /\ LocksCompatible'
  BY DEF SchedInv, SchedTypes, LocksCompatible
<1>2. \A y \in Procs : PInv(y)'
  BY OtherKeeps
<1>3. QED
  BY <1>1, <1>2 DEF SchedInv

\* now() moves on.
LEMMA TickKeeps ==
    ASSUME SchedInv, Tick
    PROVE  SchedInv'
<1>1. clock' \in 0..MaxTime
  BY JobsAssumption DEF Tick, SchedInv, SchedTypes
<1>2. UNCHANGED <<failures, advisory, locks, buf, tx>> /\ rows' = rows
  BY DEF Tick
<1>3. QED
  BY <1>1, <1>2, OutsideKeeps DEF SchedInv, SchedTypes, PolicyMirrorsJob

\* A new job appears in both tables at once.
LEMMA AddSyncPolicyKeeps ==
    ASSUME SchedInv, NEW x \in Procs, NEW j \in Jobs, AddSyncPolicy(x, j)
    PROVE  SchedInv'
<1>1. SchedTypes /\ PolicyMirrorsJob
  BY DEF SchedInv
<1>2. clock \in Nat /\ DefaultInterval \in Nat /\ DefaultInterval \in Intervals
  BY <1>1, JobsAssumption DEF SchedTypes
<1> DEFINE r == [enabled |-> TRUE, interval |-> DefaultInterval,
                 next |-> clock + DefaultInterval, status |-> "queued"]
<1>3. r \in Row
  BY <1>2 DEF Row, Statuses
<1>4. /\ rows' = [t \in Tables |-> [rows[t] EXCEPT ![j] = r]]
      /\ \A t \in Tables : rows[t][j] = NoRow
      /\ UNCHANGED <<clock, failures, advisory, locks, buf, tx>>
  BY DEF AddSyncPolicy
<1> HIDE DEF r
<1>5. \A t \in Tables : rows[t] \in [Jobs -> {NoRow, Dropped} \cup Row]
  BY <1>1 DEF SchedTypes
<1>6. rows' \in [Tables -> [Jobs -> {NoRow, Dropped} \cup Row]]
  BY <1>3, <1>4, <1>5
<1>7. \A s \in Tables, k \in Jobs : rows'[s][k] # rows[s][k] => rows[s][k] = NoRow /\ rows'[s][k] # NoRow
  BY <1>3, <1>4, <1>5, NoValueAssumption
<1>8. PolicyMirrorsJob'
  BY <1>1, <1>4 DEF PolicyMirrorsJob, Tables
<1>9. clock' \in 0..MaxTime
  BY <1>1, <1>4 DEF SchedTypes
<1>10. QED
  BY <1>4, <1>6, <1>7, <1>8, <1>9, OutsideKeeps

-------------------------------------------------------------------------------
\* The statements only runs execute.
LEMMA RunsOnly ==
    ASSUME SchedInv, NEW x \in Procs, tx[x].pc \in {"select", "read", "lock", "insert", "apply", "next"}
    PROVE  Runs(x) /\ (tx[x].pc = "select" => tx[x].op = "due") /\ (tx[x].pc # "select" => tx[x].todo # <<>>)
<1>1. Shape(x) /\ tx[x] \in Tx
  BY ProcTypes DEF SchedInv, PInv
<1>2. QED
  BY <1>1 DEF Shape, Runs, Tx, Ops, Idle, RunSteps

\* The statements of a run before its first UPDATE: versions written for
\* earlier jobs of the pass stay as they are, locks only grow.
LEMMA RunStep ==
    ASSUME SchedInv, NEW x \in Procs, NEW t \in Tx, NEW l \in [Tables -> [Jobs -> 0..3]],
           tx' = [tx EXCEPT ![x] = t], locks' = [locks EXCEPT ![x] = l],
           buf' = buf, rows' = rows,
           tx[x].pc \in {"read", "lock", "insert", "apply"},
           t.op = tx[x].op, t.todo = tx[x].todo, t.start = tx[x].start, t.policy \in Row,
           t.pc \in {"lock", "insert", "apply", "job"},
           \A s \in Tables, j \in Jobs : l[s][j] >= locks[x][s][j],
           t.pc = "apply" \/ (t.pc = "insert" /\ t.out = "running") => advisory'[Current(x)] = x
    PROVE  PInv(x)'
<1>1. SchedTypes /\ Shape(x) /\ Writes(x) /\ Paired(x) /\ DueHeld(x)
  BY DEF SchedInv, PInv
<1>2. tx'[x] = t /\ locks'[x] = l
  BY <1>1 DEF SchedTypes
<1>3. Runs(x) /\ tx[x].todo # <<>>
  BY RunsOnly
<1>4. Current(x)' = Current(x) /\ Runs(x)' /\ ~Half(x)' /\ ~Half(x)
  BY <1>2, <1>3 DEF Current, Runs, Half, At
<1>5. Shape(x)'
  BY <1>2, <1>3 DEF Shape, Runs, RunSteps
<1>6. Applying(x)'
  BY <1>2, <1>4 DEF Applying, At
<1>7. \A s \in Tables, j \in Jobs : l[s][j] \in 0..3 /\ locks[x][s][j] \in 0..3
  <2>1. locks[x] \in [Tables -> [Jobs -> 0..3]]
    BY <1>1, ProcTypes
  <2>2. \A s \in Tables : l[s] \in [Jobs -> 0..3] /\ locks[x][s] \in [Jobs -> 0..3]
    BY <2>1
  <2>3. QED
    BY <2>2
<1>8. Writes(x)'
  <2>1. ~(tx'[x] = Idle) /\ ~At(x, "delete")'
    BY <1>2, <1>3 DEF Runs, Idle, At
  <2>2. ASSUME NEW s \in Tables, NEW j \in Jobs, buf[x][s][j] # Null
        PROVE  /\ l[s][j] >= NoKeyUpdate /\ Present(s, j)
               /\ buf[x][s][j] \in Row
               /\ buf[x][s][j].enabled = rows[s][j].enabled
               /\ buf[x][s][j].interval = rows[s][j].interval
    BY <1>1, <1>3, <1>7, <2>2 DEF Writes, NoKeyUpdate
  <2>3. QED
    BY <1>2, <2>1, <2>2 DEF Writes, Present
<1>9. Paired(x)'
  BY <1>1, <1>2, <1>3, <1>4 DEF Paired, At, Runs
<1>10. DueHeld(x)'
  <2>1. SUFFICES ASSUME tx[x].op = "due", NEW i \in 1..Len(tx[x].todo)
                 PROVE  /\ l["job"][tx[x].todo[i]] = ForUpdate
                        /\ Present("job", tx[x].todo[i])
                        /\ Due(rows["job"][tx[x].todo[i]], tx[x].start)
    BY <1>2 DEF DueHeld, Due, Present
  <2>2. tx[x].todo[i] \in Jobs /\ "job" \in Tables
    <3>1. tx[x].todo \in Seq(Jobs)
      BY <1>1, ProcTypes DEF Tx
    <3>2. QED
      BY <2>1, <3>1 DEF Tables
  <2>3. /\ locks[x]["job"][tx[x].todo[i]] = ForUpdate
        /\ Present("job", tx[x].todo[i])
        /\ Due(rows["job"][tx[x].todo[i]], tx[x].start)
    BY <1>1, <2>1 DEF DueHeld, At
  <2>4. QED
    BY <1>7, <2>2, <2>3 DEF ForUpdate
<1>11. QED
  BY <1>5, <1>6, <1>8, <1>9, <1>10 DEF PInv

\* ... and those of them that lock no row.
LEMMA RunSilent ==
    ASSUME SchedInv, NEW x \in Procs, NEW t \in Tx,
           tx' = [tx EXCEPT ![x] = t], locks' = locks, buf' = buf,
           rows' = rows, failures' = failures, clock' = clock,
           advisory' \in [Jobs -> Procs \cup {Null}],
           \A y \in Procs \ {x}, j \in Jobs : advisory[j] = y => advisory'[j] = y,
           tx[x].pc \in {"read", "lock", "insert", "apply"},
           t.op = tx[x].op, t.todo = tx[x].todo, t.start = tx[x].start, t.policy \in Row,
           t.pc \in {"lock", "insert", "apply", "job"},
           t.pc = "apply" \/ (t.pc = "insert" /\ t.out = "running") => advisory'[Current(x)] = x
    PROVE  SchedInv'
<1>1. SchedTypes
  BY DEF SchedInv
<1>2. PICK l \in [Tables -> [Jobs -> 0..3]] : l = locks[x]
  BY <1>1, ProcTypes
<1>3. locks' = [locks EXCEPT ![x] = l]
  BY <1>1, <1>2 DEF SchedTypes
<1>4. \A s \in Tables, j \in Jobs : l[s][j] >= locks[x][s][j]
  <2>1. \A s \in Tables : l[s] \in [Jobs -> 0..3]
    OBVIOUS
  <2>2. \A s \in Tables, j \in Jobs : l[s][j] \in 0..3
    BY <2>1
  <2>3. QED
    BY <1>2, <2>2
<1>5. PInv(x)'
  BY <1>3, <1>4, RunStep
<1>6. QED
  BY <1>5, Silent

-------------------------------------------------------------------------------
\* The lock each statement asks for.
LEMMA Requests ==
    ASSUME NEW x \in Procs
    PROVE  /\ At(x, "insert") => Request(x) = [table |-> "job", lock |-> KeyShare]
           /\ At(x, "job") => Request(x) = [table |-> "job", lock |-> NoKeyUpdate]
           /\ At(x, "policy") => Request(x) = [table |-> "policy", lock |-> NoKeyUpdate]
           /\ At(x, "delete") => Request(x) = [table |-> "job", lock |-> ForUpdate]
           /\ At(x, "cascade") => Request(x) = [table |-> "policy", lock |-> ForUpdate]
  BY DEF Request, At

\* A granted row lock conflicts with nobody's, and takes no earlier one away.
LEMMA GrantedLocks ==
    ASSUME SchedInv, NEW x \in Procs, tx[x].pc \in {"insert", "job", "policy", "delete", "cascade"},
           Granted(x)
    PROVE  /\ Current(x) \in Jobs
           /\ \E l \in [Tables -> [Jobs -> 0..3]] :
                /\ locks' = [locks EXCEPT ![x] = l]
                /\ \A s \in Tables, j \in Jobs : l[s][j] >= locks[x][s][j]
                /\ l[Request(x).table][Current(x)] >= Request(x).lock
                /\ \A y \in Procs \ {x}, s \in Tables, j \in Jobs : l[s][j] + locks[y][s][j] <= 3
<1>1. SchedTypes /\ LocksCompatible /\ Shape(x)
  BY DEF SchedInv, PInv
<1>2. tx[x].todo # <<>> /\ Current(x) \in Jobs
  BY <1>1, CurrentIsJob DEF Shape
<1>3. PICK t \in Tables, k \in 1..3 : Request(x).table = t /\ Request(x).lock = k
  BY Requests DEF At, Tables, KeyShare, NoKeyUpdate, ForUpdate
<1>4. PICK c \in Jobs : c = Current(x)
  BY <1>2
<1>5. locks[x] \in [Tables -> [Jobs -> 0..3]] /\ locks \in [Procs -> [Tables -> [Jobs -> 0..3]]]
  BY <1>1, ProcTypes DEF SchedTypes
<1>6. \A y \in Procs, s \in Tables, j \in Jobs : locks[y][s][j] \in 0..3
  <2>1. \A y \in Procs : locks[y] \in [Tables -> [Jobs -> 0..3]]
    BY <1>5
  <2>2. \A y \in Procs, s \in Tables : locks[y][s] \in [Jobs -> 0..3]
    BY <2>1
  <2>3. QED
    BY <2>2
<1>7. PICK v \in 0..3 : v = IF locks[x][t][c] > k THEN locks[x][t][c] ELSE k
  BY <1>6
<1> DEFINE l == [locks[x] EXCEPT ![t] = [locks[x][t] EXCEPT ![c] = v]]
<1>8. locks' = [locks EXCEPT ![x] = l]
  BY <1>3, <1>4, <1>7 DEF Granted
<1>9. l \in [Tables -> [Jobs -> 0..3]]
  BY <1>5, <1>7
<1>10. /\ l[t][c] = v
       /\ \A s \in Tables, j \in Jobs : s # t \/ j # c => l[s][j] = locks[x][s][j]
  BY <1>5
<1> HIDE DEF l
<1>11. v >= k /\ v >= locks[x][t][c] /\ k \in 0..3 /\ (v = k \/ v = locks[x][t][c])
  BY <1>6, <1>7
<1>12. \A s \in Tables, j \in Jobs : l[s][j] >= locks[x][s][j]
  BY <1>6, <1>10, <1>11
<1>13. ASSUME NEW y \in Procs \ {x}, NEW s \in Tables, NEW j \in Jobs
       PROVE  l[s][j] + locks[y][s][j] <= 3
  <2>1. locks[x][s][j] + locks[y][s][j] <= 3
    BY <1>1 DEF LocksCompatible
  <2>2. locks[y][t][c] + k <= 3
    <3>1. y \notin Conflicting(x, t, c, k)
      BY <1>3, <1>4 DEF Granted, Blockers
    <3>2. ~(locks[y][t][c] + k > 3)
      BY <3>1 DEF Conflicting
    <3>3. QED
      BY <1>6, <3>2
  <2>3. CASE s = t /\ j = c
    BY <1>6, <1>10, <1>11, <2>1, <2>2, <2>3
  <2>4. CASE s # t \/ j # c
    BY <1>10, <2>1, <2>4
  <2>5. QED
    BY <2>3, <2>4
<1>14. l[Request(x).table][Current(x)] >= Request(x).lock
  BY <1>3, <1>4, <1>10, <1>11
<1>15. QED
  BY <1>2, <1>8, <1>9, <1>12, <1>13, <1>14

-------------------------------------------------------------------------------
\* The end of a pass or a run on an error, and after its last job.
LEMMA RunEnds ==
    ASSUME SchedInv, NEW x \in Procs, tx[x].pc \in {"read", "next"}, EndsWithErr(x) \/ Commit(x)
    PROVE  SchedInv'
<1>1. ~Half(x) /\ tx[x].todo # <<>>
  BY RunsOnly DEF Half, At
<1>2. Abort(x) \/ Commit(x)
  BY DEF EndsWithErr
<1>3. QED
  BY <1>1, <1>2, AbortKeeps, CommitKeeps

\* Reading the policy row.
LEMMA ReadPolicyKeeps ==
    ASSUME SchedInv, NEW x \in Procs, ReadPolicy(x)
    PROVE  SchedInv'
<1>1. SchedTypes /\ tx[x].pc = "read"
  BY DEF SchedInv, ReadPolicy, At
<1>2. CASE ~Present("policy", Current(x))
  BY <1>1, <1>2, RunEnds DEF ReadPolicy
<1>3. CASE Present("policy", Current(x))
  <2>1. Current(x) \in Jobs /\ Runs(x)
    BY <1>1, RunsOnly, CurrentIsJob
  <2>2. PICK p \in Row, f \in 0..MaxRetries : p = rows["policy"][Current(x)] /\ f = failures[Current(x)]
    BY <1>1, <1>3, <2>1 DEF SchedTypes, Present, Tables
  <2>3. PICK c \in Pcs : c = (IF p.enabled THEN "lock" ELSE "insert") /\ c \in {"lock", "insert"}
    BY DEF Pcs, RunSteps
  <2>4. "disabled" \in Statuses
    BY DEF Statuses
  <2>5. /\ tx' = [tx EXCEPT ![x].policy = p, ![x].retries = f, ![x].out = "disabled", ![x].pc = c]
        /\ buf' = buf /\ locks' = locks /\ advisory' = advisory
        /\ rows' = rows /\ failures' = failures /\ clock' = clock
    BY <1>3, <2>2, <2>3 DEF ReadPolicy, KeepsTables
  <2>6. tx \in [Procs -> Tx] /\ tx[x] \in Tx
    BY <1>1 DEF SchedTypes
  <2> DEFINE t == [tx[x] EXCEPT !.policy = p, !.retries = f, !.out = "disabled", !.pc = c]
  <2>7. tx' = [tx EXCEPT ![x] = t]
    BY <2>5, <2>6
  <2>8. /\ t \in Tx /\ t.op = tx[x].op /\ t.todo = tx[x].todo /\ t.start = tx[x].start
        /\ t.policy = p /\ t.pc = c /\ t.out = "disabled"
    BY <2>4, <2>6 DEF Tx
  <2> HIDE DEF t
  <2>9. /\ advisory' \in [Jobs -> Procs \cup {Null}]
        /\ \A y \in Procs \ {x}, j \in Jobs : advisory[j] = y => advisory'[j] = y
    BY <1>1, <2>5 DEF SchedTypes
  <2>10. t.policy \in Row /\ t.pc \in {"lock", "insert", "apply", "job"}
         /\ ~(t.pc = "apply" \/ (t.pc = "insert" /\ t.out = "running"))
    BY <2>3, <2>8
  <2>11. QED
    BY <1>1, <2>5, <2>7, <2>8, <2>9, <2>10, RunSilent
<1>4. QED
  BY <1>2, <1>3

\* The advisory lock is taken when it is free or already this process's.
LEMMA TryAcquireJobLockKeeps ==
    ASSUME SchedInv, NEW x \in Procs, TryAcquireJobLock(x)
    PROVE  SchedInv'
<1>1. SchedTypes /\ tx[x].pc = "lock" /\ Shape(x)
  BY DEF SchedInv, PInv, TryAcquireJobLock, At
<1>2. Current(x) \in Jobs /\ Runs(x)
  BY <1>1, RunsOnly, CurrentIsJob
<1>3. tx \in [Procs -> Tx] /\ tx[x] \in Tx /\ advisory \in [Jobs -> Procs \cup {Null}] /\ tx[x].policy \in Row
  BY <1>1, <1>2 DEF SchedTypes, Shape
<1>4. PICK o \in Statuses, a \in Procs \cup {Null} :
        \/ advisory[Current(x)] \in {Null, x} /\ o = "running" /\ a = x
        \/ advisory[Current(x)] \notin {Null, x} /\ o = "lock_skipped" /\ a = advisory[Current(x)]
  <2>1. "running" \in Statuses /\ "lock_skipped" \in Statuses
    BY DEF Statuses
  <2>2. advisory[Current(x)] \in Procs \cup {Null}
    BY <1>2, <1>3
  <2>3. QED
    BY <2>1, <2>2
<1>5. /\ advisory' = [advisory EXCEPT ![Current(x)] = a]
      /\ tx' = [tx EXCEPT ![x].out = o, ![x].pc = "insert"]
      /\ buf' = buf /\ locks' = locks
      /\ rows' = rows /\ failures' = failures /\ clock' = clock
  BY <1>4 DEF TryAcquireJobLock, KeepsTables
<1> DEFINE t == [tx[x] EXCEPT !.out = o, !.pc = "insert"]
<1>6. tx' = [tx EXCEPT ![x] = t]
  BY <1>3, <1>5
<1>7. "insert" \in Pcs
  BY DEF Pcs, RunSteps
<1>8. /\ t \in Tx /\ t.op = tx[x].op /\ t.todo = tx[x].todo /\ t.start = tx[x].start
      /\ t.policy = tx[x].policy /\ t.pc = "insert" /\ t.out = o
  BY <1>3, <1>7 DEF Tx
<1> HIDE DEF t
<1>9. /\ advisory' \in [Jobs -> Procs \cup {Null}]
      /\ \A y \in Procs \ {x}, j \in Jobs : advisory[j] = y => advisory'[j] = y
  BY <1>2, <1>3, <1>4, <1>5, NoValueAssumption
<1>10. /\ t.pc = "apply" \/ (t.pc = "insert" /\ t.out = "running") => advisory'[Current(x)] = x
       /\ t.policy \in Row /\ t.pc \in {"lock", "insert", "apply", "job"}
  BY <1>2, <1>3, <1>4, <1>5, <1>8
<1>11. tx[x].pc \in {"read", "lock", "insert", "apply"}
  BY <1>1
<1>12. QED
  BY <1>5, <1>6, <1>8, <1>9, <1>10, <1>11, RunSilent

\* The replay, and how it ends.
LEMMA ApplySyncKeeps ==
    ASSUME SchedInv, NEW x \in Procs, ApplySync(x)
    PROVE  SchedInv'
<1>1. SchedTypes /\ tx[x].pc = "apply" /\ Shape(x)
  BY DEF SchedInv, PInv, ApplySync, At
<1>2. Runs(x)
  BY <1>1, RunsOnly
<1>3. tx \in [Procs -> Tx] /\ tx[x] \in Tx /\ advisory \in [Jobs -> Procs \cup {Null}] /\ tx[x].policy \in Row
  BY <1>1, <1>2 DEF SchedTypes, Shape
<1>4. PICK o \in Statuses : tx' = [tx EXCEPT ![x].out = o, ![x].pc = "job"]
  BY DEF ApplySync, Statuses, Failed
<1>5. /\ buf' = buf /\ locks' = locks /\ advisory' = advisory
      /\ rows' = rows /\ failures' = failures /\ clock' = clock
  BY DEF ApplySync, KeepsTables
<1> DEFINE t == [tx[x] EXCEPT !.out = o, !.pc = "job"]
<1>6. tx' = [tx EXCEPT ![x] = t]
  BY <1>3, <1>4
<1>7. "job" \in Pcs
  BY DEF Pcs, RunSteps
<1>8. /\ t \in Tx /\ t.op = tx[x].op /\ t.todo = tx[x].todo /\ t.start = tx[x].start
      /\ t.policy = tx[x].policy /\ t.pc = "job"
  BY <1>3, <1>7 DEF Tx
<1> HIDE DEF t
<1>9. QED
  BY <1>1, <1>3, <1>5, <1>6, <1>8, RunSilent

\* The run row, and the lock of its foreign key.
LEMMA InsertJobRunKeeps ==
    ASSUME SchedInv, NEW x \in Procs, InsertJobRun(x)
    PROVE  SchedInv'
<1>1. SchedTypes /\ tx[x].pc = "insert" /\ Shape(x) /\ Applying(x)
  BY DEF SchedInv, PInv, InsertJobRun, At
<1>2. CASE ~Present("job", Current(x))
  BY <1>2, AbortKeeps DEF InsertJobRun
<1>3. CASE Present("job", Current(x))
  <2>1. Runs(x)
    BY <1>1, RunsOnly
  <2>2. tx \in [Procs -> Tx] /\ tx[x] \in Tx /\ advisory \in [Jobs -> Procs \cup {Null}] /\ tx[x].policy \in Row
    BY <1>1, <2>1 DEF SchedTypes, Shape
  <2>3. Granted(x) /\ Advance(x, IF tx[x].out = "running" THEN "apply" ELSE "job")
    BY <1>3 DEF InsertJobRun
  <2>4. /\ buf' = buf /\ advisory' = advisory
        /\ rows' = rows /\ failures' = failures /\ clock' = clock
    BY <1>3 DEF InsertJobRun, KeepsTables
  <2>5. PICK c \in Pcs : c \in {"apply", "job"} /\ c = (IF tx[x].out = "running" THEN "apply" ELSE "job")
    BY DEF Pcs, RunSteps
  <2>6. PICK l \in [Tables -> [Jobs -> 0..3]] :
                /\ locks' = [locks EXCEPT ![x] = l]
                /\ \A s \in Tables, j \in Jobs : l[s][j] >= locks[x][s][j]
                /\ \A y \in Procs \ {x}, s \in Tables, j \in Jobs : l[s][j] + locks[y][s][j] <= 3
    BY <1>1, <2>3, GrantedLocks
  <2> DEFINE t == [tx[x] EXCEPT !.pc = c]
  <2>7. tx' = [tx EXCEPT ![x] = t]
    BY <2>2, <2>3, <2>5 DEF Advance
  <2>8. /\ t \in Tx /\ t.op = tx[x].op /\ t.todo = tx[x].todo /\ t.start = tx[x].start
        /\ t.policy = tx[x].policy /\ t.pc = c
    BY <2>2 DEF Tx
  <2> HIDE DEF t
  <2>9. /\ t.pc = "apply" \/ (t.pc = "insert" /\ t.out = "running") => advisory'[Current(x)] = x
        /\ t.policy \in Row /\ t.pc \in {"lock", "insert", "apply", "job"}
        /\ tx[x].pc \in {"read", "lock", "insert", "apply"}
    BY <1>1, <2>2, <2>4, <2>5, <2>8 DEF Applying, At
  <2>10. PInv(x)'
    BY <2>4, <2>6, <2>7, <2>8, <2>9, RunStep
  <2>11. PICK w \in [Tables -> [Jobs -> {Null, Dropped} \cup Row]] : w = buf[x]
    BY <1>1, ProcTypes
  <2>12. buf' = [buf EXCEPT ![x] = w]
    BY <1>1, <2>4, <2>11 DEF SchedTypes
  <2>13. QED
    BY <2>2, <2>4, <2>6, <2>7, <2>8, <2>10, <2>12, Quiet
<1>4. QED
  BY <1>2, <1>3

-------------------------------------------------------------------------------
\* Every job of the query's answer is there, due, and locked by nobody else.
LEMMA DueRows ==
    ASSUME NEW x \in Procs, NEW now, NEW due \in DueGenericJobRows(x, now)
    PROVE  /\ due \in Seq(Jobs)
           /\ \A i \in 1..Len(due) : /\ Present("job", due[i])
                                     /\ Due(rows["job"][due[i]], now)
                                     /\ Conflicting(x, "job", due[i], ForUpdate) = {}
<1> DEFINE S == {j \in Jobs : /\ Present("job", j)
                             /\ Due(rows["job"][j], now)
                             /\ Conflicting(x, "job", j, ForUpdate) = {}}
<1>1. due \in [1..Cardinality(S) -> S]
  BY DEF DueGenericJobRows
<1>2. IsFiniteSet(S) /\ Cardinality(S) \in Nat
  BY FS_Subset, FS_CardinalityType, JobsAssumption
<1>3. S \subseteq Jobs
  OBVIOUS
<1>4. \A j \in S : Present("job", j) /\ Due(rows["job"][j], now) /\ Conflicting(x, "job", j, ForUpdate) = {}
  OBVIOUS
<1> HIDE DEF S
<1>5. due \in Seq(Jobs) /\ Len(due) = Cardinality(S)
  BY <1>1, <1>2, <1>3
<1>6. \A i \in 1..Len(due) : due[i] \in S
  BY <1>1, <1>5
<1>7. QED
  BY <1>4, <1>5, <1>6

\* A pass selects the due jobs and locks them.
LEMMA SelectDueKeeps ==
    ASSUME SchedInv, NEW x \in Procs, SelectDue(x)
    PROVE  SchedInv'
<1>1. SchedTypes /\ LocksCompatible /\ tx[x].pc = "select" /\ Writes(x) /\ Paired(x)
  BY DEF SchedInv, PInv, SelectDue, At
<1>2. tx[x].op = "due" /\ Runs(x)
  BY <1>1, RunsOnly
<1>3. tx \in [Procs -> Tx] /\ tx[x] \in Tx /\ clock \in 0..MaxTime
  BY <1>1 DEF SchedTypes
<1>4. PICK now \in 0..MaxTime : now = IF x \in DueWorkers THEN clock ELSE tx[x].start
  BY <1>3, SMTT(40) DEF Tx
<1>5. PICK due \in DueGenericJobRows(x, now) :
        IF due = <<>> THEN Abort(x)
        ELSE /\ locks' = [locks EXCEPT ![x]["job"] =
                               [j \in Jobs |-> IF j \in Range(due) THEN ForUpdate ELSE @[j]]]
             /\ tx' = [tx EXCEPT ![x].todo = due, ![x].start = now, ![x].pc = "read"]
             /\ UNCHANGED <<advisory, buf>> /\ KeepsTables
  BY <1>4 DEF SelectDue
<1>6. CASE due = <<>>
  BY <1>5, <1>6, AbortKeeps
<1>7. CASE due # <<>>
  <2>1. /\ due \in Seq(Jobs)
        /\ \A i \in 1..Len(due) : /\ Present("job", due[i])
                                  /\ Due(rows["job"][due[i]], now)
                                  /\ Conflicting(x, "job", due[i], ForUpdate) = {}
    BY DueRows
  <2>2. /\ locks[x] \in [Tables -> [Jobs -> 0..3]] /\ locks \in [Procs -> [Tables -> [Jobs -> 0..3]]]
        /\ buf[x] \in [Tables -> [Jobs -> {Null, Dropped} \cup Row]]
    BY <1>1, ProcTypes DEF SchedTypes
  <2>3. \A y \in Procs, s \in Tables, j \in Jobs : locks[y][s][j] \in 0..3
    <3>1. \A y \in Procs : locks[y] \in [Tables -> [Jobs -> 0..3]]
      BY <2>2
    <3>2. \A y \in Procs, s \in Tables : locks[y][s] \in [Jobs -> 0..3]
      BY <3>1
    <3>3. QED
      BY <3>2
  <2> DEFINE R == Range(due)
             f == [j \in Jobs |-> IF j \in R THEN 3 ELSE locks[x]["job"][j]]
             l == [locks[x] EXCEPT !["job"] = f]
             t == [tx[x] EXCEPT !.todo = due, !.start = now, !.pc = "read"]
  <2>4. \A j : j \in R <=> \E i \in 1..Len(due) : due[i] = j
    BY <2>1 DEF Range
  <2> HIDE DEF R
  <2>5. f \in [Jobs -> 0..3]
    BY <2>3 DEF Tables
  <2>6. locks' = [locks EXCEPT ![x] = l]
    BY <1>5, <1>7, <2>2 DEF ForUpdate, R
  <2>7. \A j \in Jobs : f[j] = IF j \in R THEN 3 ELSE locks[x]["job"][j]
    OBVIOUS
  <2> HIDE DEF f
  <2>8. /\ l \in [Tables -> [Jobs -> 0..3]] /\ l["job"] = f
        /\ \A s \in Tables : s # "job" => l[s] = locks[x][s]
    BY <2>2, <2>5 DEF Tables
  <2> HIDE DEF l
  <2>9. \A s \in Tables, j \in Jobs : l[s][j] >= locks[x][s][j]
    BY <2>3, <2>7, <2>8
  <2>10. ASSUME NEW y \in Procs \ {x}, NEW s \in Tables, NEW j \in Jobs
         PROVE  l[s][j] + locks[y][s][j] <= 3
    <3>1. locks[x][s][j] + locks[y][s][j] <= 3
      BY <1>1 DEF LocksCompatible
    <3>2. CASE s = "job" /\ j \in R
      <4>1. Conflicting(x, "job", j, ForUpdate) = {}
        BY <2>1, <2>4, <3>2
      <4>2. ~(locks[y]["job"][j] + 3 > 3)
        BY <4>1 DEF Conflicting, ForUpdate
      <4>3. QED
        BY <2>3, <2>7, <2>8, <3>2, <4>2
    <3>3. CASE ~(s = "job" /\ j \in R)
      BY <2>7, <2>8, <3>1, <3>3
    <3>4. QED
      BY <3>2, <3>3
  <2>11. tx' = [tx EXCEPT ![x] = t]
    BY <1>3, <1>5, <1>7
  <2>12. "read" \in Pcs
    BY DEF Pcs, RunSteps
  <2>13. t \in Tx /\ t.op = "due" /\ t.todo = due /\ t.start = now /\ t.pc = "read"
    BY <1>2, <1>3, <2>1, <2>12 DEF Tx
  <2> HIDE DEF t
  <2>14. /\ buf' = buf /\ advisory' = advisory
         /\ rows' = rows /\ failures' = failures /\ clock' = clock
    BY <1>5, <1>7 DEF KeepsTables
  <2>15. tx'[x] = t /\ locks'[x] = l
    BY <1>3, <2>2, <2>6, <2>11
  <2>16. Shape(x)' /\ Applying(x)'
    BY <1>7, <2>13, <2>15 DEF Shape, Applying, At, Runs, RunSteps
  <2>17. Writes(x)'
    <3>1. ~(tx'[x] = Idle) /\ ~At(x, "delete")'
      BY <2>13, <2>15 DEF Idle, At
    <3>2. ASSUME NEW s \in Tables, NEW j \in Jobs, buf[x][s][j] # Null
          PROVE  /\ l[s][j] >= NoKeyUpdate /\ Present(s, j)
                 /\ buf[x][s][j] \in Row
                 /\ buf[x][s][j].enabled = rows[s][j].enabled
                 /\ buf[x][s][j].interval = rows[s][j].interval
      <4>1. locks[x][s][j] >= 2 /\ locks[x][s][j] \in 0..3 /\ l[s][j] >= locks[x][s][j] /\ l[s][j] \in 0..3
        <5>1. l[s] \in [Jobs -> 0..3]
          BY <2>8
        <5>2. QED
          BY <1>1, <2>3, <2>9, <3>2, <5>1 DEF Writes, NoKeyUpdate
      <4>2. QED
        BY <1>1, <1>2, <3>2, <4>1 DEF Writes, NoKeyUpdate
    <3>3. QED
      BY <2>14, <2>15, <3>1, <3>2 DEF Writes, Present
  <2>18. Paired(x)'
    <3>1. ~Half(x)' /\ ~Half(x) /\ ~At(x, "cascade")' /\ tx'[x].op # "remove"
      BY <1>1, <2>13, <2>15 DEF Half, At
    <3>2. QED
      BY <1>1, <2>14, <3>1 DEF Paired
  <2>19. DueHeld(x)'
    <3>1. ASSUME NEW i \in 1..Len(due)
          PROVE  /\ l["job"][due[i]] = ForUpdate
                 /\ Present("job", due[i])
                 /\ Due(rows["job"][due[i]], now)
      <4>1. due[i] \in Jobs /\ due[i] \in R
        BY <2>1, <2>4
      <4>2. QED
        BY <2>1, <2>7, <2>8, <4>1 DEF ForUpdate
    <3>2. QED
      BY <2>13, <2>14, <2>15, <3>1 DEF DueHeld, Present, Due
  <2>20. PInv(x)'
    BY <2>16, <2>17, <2>18, <2>19 DEF PInv
  <2>21. PICK w \in [Tables -> [Jobs -> {Null, Dropped} \cup Row]] : w = buf[x]
    BY <2>2
  <2>22. buf' = [buf EXCEPT ![x] = w] /\ advisory' \in [Jobs -> Procs \cup {Null}]
    BY <1>1, <2>14, <2>21 DEF SchedTypes
  <2>23. QED
    BY <2>6, <2>8, <2>10, <2>11, <2>13, <2>14, <2>20, <2>22, Quiet
<1>8. QED
  BY <1>6, <1>7

\* What is left of a list of two or more.
LEMMA TailSteps ==
    ASSUME NEW S, NEW q \in Seq(S), q # <<>>, Len(q) # 1
    PROVE  /\ Tail(q) \in Seq(S) /\ Tail(q) # <<>>
           /\ \A i \in 1..Len(Tail(q)) : i + 1 \in 1..Len(q) /\ Tail(q)[i] = q[i + 1]
<1>1. PICK n \in Nat \ {0} : n = Len(q)
  BY EmptySeq
<1>2. n # 1
  BY <1>1
<1>3. n > 1
  BY <1>2
<1>4. /\ Tail(q) \in Seq(S) /\ Len(Tail(q)) = n - 1
      /\ \A i \in 1..Len(Tail(q)) : Tail(q)[i] = q[i + 1]
  BY <1>1, HeadTailProperties
<1>5. Tail(q) # <<>>
  <2>1. Len(Tail(q)) # 0
    BY <1>3, <1>4
  <2>2. Len(<<>>) = 0
    BY EmptySeq
  <2>3. QED
    BY <2>1, <2>2, Zenon
<1>6. \A i \in 1..(n - 1) : i + 1 \in 1..n
  OBVIOUS
<1>7. QED
  BY <1>1, <1>4, <1>5, <1>6

\* The next job of a pass: the versions written so far come in pairs.
LEMMA NextJobKeeps ==
    ASSUME SchedInv, NEW x \in Procs, NextJob(x)
    PROVE  SchedInv'
<1>1. SchedTypes /\ tx[x].pc = "next" /\ Shape(x) /\ Writes(x) /\ Paired(x) /\ DueHeld(x)
  BY DEF SchedInv, PInv, NextJob, At
<1>2. CASE tx[x].out \in Failed \/ Len(tx[x].todo) = 1
  BY <1>1, <1>2, RunEnds DEF NextJob
<1>3. CASE ~(tx[x].out \in Failed \/ Len(tx[x].todo) = 1)
  <2>1. Runs(x) /\ tx[x].todo # <<>> /\ Len(tx[x].todo) # 1
    BY <1>1, <1>3, RunsOnly
  <2>2. tx \in [Procs -> Tx] /\ tx[x] \in Tx /\ tx[x].todo \in Seq(Jobs)
    BY <1>1 DEF SchedTypes, Tx
  <2>3. PICK todo \in Seq(Jobs) : todo = tx[x].todo /\ todo # <<>> /\ Len(todo) # 1
    BY <2>1, <2>2
  <2>4. PICK rest \in Seq(Jobs) :
            /\ rest = Tail(todo) /\ rest # <<>>
            /\ \A i \in 1..Len(rest) : i + 1 \in 1..Len(todo) /\ rest[i] = todo[i + 1]
    <3>1. /\ Tail(todo) \in Seq(Jobs) /\ Tail(todo) # <<>>
          /\ \A i \in 1..Len(Tail(todo)) : i + 1 \in 1..Len(todo) /\ Tail(todo)[i] = todo[i + 1]
      BY <2>3, TailSteps, Zenon
    <3>2. QED
      BY <3>1, Zenon
  <2>5. rest # <<>> /\ \A i \in 1..Len(rest) : i + 1 \in 1..Len(todo) /\ rest[i] = todo[i + 1]
    BY <2>4
  <2>6. /\ tx' = [tx EXCEPT ![x].todo = Tail(@), ![x].pc = "read"]
        /\ buf' = buf /\ locks' = locks /\ advisory' = advisory
        /\ rows' = rows /\ failures' = failures /\ clock' = clock
    BY <1>3 DEF NextJob, KeepsTables
  <2> DEFINE t == [tx[x] EXCEPT !.todo = rest, !.pc = "read"]
  <2>7. tx' = [tx EXCEPT ![x] = t]
    BY <2>2, <2>3, <2>4, <2>6
  <2>8. "read" \in Pcs
    BY DEF Pcs, RunSteps
  <2>9. t \in Tx /\ t.op = tx[x].op /\ t.todo = rest /\ t.start = tx[x].start /\ t.pc = "read"
    BY <2>2, <2>8 DEF Tx
  <2> HIDE DEF t
  <2>10. tx'[x] = t
    BY <2>2, <2>7
  <2>11. Shape(x)' /\ Applying(x)'
    BY <2>1, <2>5, <2>9, <2>10 DEF Shape, Applying, At, Runs, RunSteps
  <2>12. Writes(x)'
    <3>1. ~(tx'[x] = Idle) /\ ~At(x, "delete")' /\ Runs(x)'
      BY <2>1, <2>9, <2>10 DEF Idle, At, Runs
    <3>2. QED
      BY <1>1, <2>1, <2>6, <3>1 DEF Writes, Present
  <2>13. Paired(x)'
    <3>1. ~Half(x)' /\ ~Half(x) /\ ~At(x, "cascade")' /\ tx'[x].op # "remove"
      BY <1>1, <2>1, <2>9, <2>10 DEF Half, At, Runs
    <3>2. QED
      BY <1>1, <2>6, <3>1 DEF Paired
  <2>14. DueHeld(x)'
    <3>1. ASSUME tx[x].op = "due", NEW i \in 1..Len(rest)
          PROVE  /\ locks[x]["job"][rest[i]] = ForUpdate
                 /\ Present("job", rest[i])
                 /\ Due(rows["job"][rest[i]], tx[x].start)
      BY <1>1, <2>3, <2>5, <3>1 DEF DueHeld, At
    <3>2. QED
      BY <2>6, <2>9, <2>10, <3>1 DEF DueHeld, Present, Due
  <2>15. PInv(x)' /\ advisory' \in [Jobs -> Procs \cup {Null}]
    BY <1>1, <2>6, <2>11, <2>12, <2>13, <2>14 DEF PInv, SchedTypes
  <2>16. QED
    BY <2>6, <2>7, <2>9, <2>15, Silent
<1>4. QED
  BY <1>2, <1>3

-------------------------------------------------------------------------------
\* Process x locks the current job's row k of table s, writes version v and goes
\* on with statement c; t, w and l are its new state, versions and locks.
Wrote(x, s, v, c, k, t, w, l) ==
    /\ k = Current(x)
    /\ tx' = [tx EXCEPT ![x] = t] /\ buf' = [buf EXCEPT ![x] = w]
    /\ locks' = [locks EXCEPT ![x] = l]
    /\ \A u \in Tables, j \in Jobs : l[u][j] >= locks[x][u][j]
    /\ l[s][k] >= NoKeyUpdate
    /\ \A y \in Procs \ {x}, u \in Tables, j \in Jobs : l[u][j] + locks[y][u][j] <= 3
    /\ w[s][k] = v
    /\ \A u \in Tables, j \in Jobs : u # s \/ j # k => w[u][j] = buf[x][u][j]
    /\ t.op = tx[x].op /\ t.todo = tx[x].todo /\ t.start = tx[x].start
    /\ t.policy = tx[x].policy /\ t.out = tx[x].out
    /\ t.enabled = tx[x].enabled /\ t.interval = tx[x].interval /\ t.pc = c

\* A process that has locked and written the current job's row of one table
\* goes on with its call.
LEMMA Written ==
    ASSUME SchedInv, NEW x \in Procs, NEW s \in Tables, NEW k \in Jobs, NEW t \in Tx,
           NEW w \in [Tables -> [Jobs -> {Null, Dropped} \cup Row]],
           NEW l \in [Tables -> [Jobs -> 0..3]], NEW v, NEW c, Wrote(x, s, v, c, k, t, w, l),
           advisory' = advisory, rows' = rows, failures' = failures, clock' = clock,
           v # Null => /\ Present(s, k)
                       /\ Runs(x) => /\ v \in Row
                                     /\ v.enabled = rows[s][k].enabled
                                     /\ v.interval = rows[s][k].interval,
           tx[x].pc \in {"job", "policy", "delete", "cascade"},
           c \in {"job", "policy", "next", "commit", "cascade"},
           tx[x].op = "run" \/ tx[x].op = "due" => c \in RunSteps,
           tx[x].op \in {"alter_policy", "alter_job"} => c \in {"policy", "job", "commit"},
           tx[x].op = "remove" => c \in {"cascade", "commit"},
           Paired(x)'
    PROVE  SchedInv'
<1>0. /\ tx' = [tx EXCEPT ![x] = t] /\ buf' = [buf EXCEPT ![x] = w]
      /\ locks' = [locks EXCEPT ![x] = l]
      /\ \A u \in Tables, j \in Jobs : l[u][j] >= locks[x][u][j]
      /\ l[s][k] >= NoKeyUpdate
      /\ \A y \in Procs \ {x}, u \in Tables, j \in Jobs : l[u][j] + locks[y][u][j] <= 3
      /\ w[s][k] = v
      /\ \A u \in Tables, j \in Jobs : u # s \/ j # k => w[u][j] = buf[x][u][j]
      /\ t.op = tx[x].op /\ t.todo = tx[x].todo /\ t.start = tx[x].start
      /\ t.policy = tx[x].policy /\ t.pc = c
  BY DEF Wrote
<1>1. SchedTypes /\ Shape(x) /\ Writes(x) /\ DueHeld(x)
  BY DEF SchedInv, PInv
<1>2. tx[x] \in Tx /\ locks[x] \in [Tables -> [Jobs -> 0..3]]
  BY <1>1, ProcTypes
<1>3. \A u \in Tables, j \in Jobs : l[u][j] \in 0..3 /\ locks[x][u][j] \in 0..3
  <2>1. \A u \in Tables : l[u] \in [Jobs -> 0..3] /\ locks[x][u] \in [Jobs -> 0..3]
    BY <1>2
  <2>2. QED
    BY <2>1
<1>4. tx'[x] = t /\ buf'[x] = w /\ locks'[x] = l
  BY <1>1, <1>0 DEF SchedTypes
<1>5. Shape(x)'
  BY <1>1, <1>2, <1>4, <1>0 DEF Shape, Runs, Idle, Tx, Ops
<1>6. Applying(x)'
  BY <1>4, <1>0 DEF Applying, At
<1>7. Writes(x)'
  <2>1. ~(tx'[x] = Idle) /\ ~At(x, "delete")' /\ (Runs(x)' <=> Runs(x))
    BY <1>4, <1>0 DEF Idle, At, Runs
  <2>2. ASSUME NEW u \in Tables, NEW j \in Jobs, w[u][j] # Null
        PROVE  /\ l[u][j] >= NoKeyUpdate
               /\ Present(u, j)
               /\ Runs(x) => /\ w[u][j] \in Row
                             /\ w[u][j].enabled = rows[u][j].enabled
                             /\ w[u][j].interval = rows[u][j].interval
    <3>1. CASE u = s /\ j = k
      BY <1>0, <2>2, <3>1
    <3>2. CASE u # s \/ j # k
      <4>1. w[u][j] = buf[x][u][j]
        BY <1>0, <3>2
      <4>2. locks[x][u][j] >= NoKeyUpdate /\ l[u][j] >= locks[x][u][j]
        BY <1>1, <1>0, <2>2, <4>1 DEF Writes
      <4>3. l[u][j] >= NoKeyUpdate
        <5>1. PICK m \in 0..3, n \in 0..3 : m = l[u][j] /\ n = locks[x][u][j]
          BY <1>3
        <5>2. m >= n /\ n >= 2
          BY <4>2, <5>1 DEF NoKeyUpdate
        <5>3. m >= 2
          BY <5>2
        <5>4. QED
          BY <5>1, <5>3 DEF NoKeyUpdate
      <4>4. QED
        BY <1>1, <2>2, <4>1, <4>3 DEF Writes
    <3>3. QED
      BY <3>1, <3>2
  <2>3. QED
    BY <1>4, <1>0, <2>1, <2>2 DEF Writes, Present
<1>8. DueHeld(x)'
  <2>1. ASSUME tx[x].op = "due", NEW i \in 1..Len(tx[x].todo)
        PROVE  /\ l["job"][tx[x].todo[i]] = ForUpdate
               /\ Present("job", tx[x].todo[i])
               /\ Due(rows["job"][tx[x].todo[i]], tx[x].start)
    <3>1. tx[x].todo[i] \in Jobs /\ "job" \in Tables
      <4>1. tx[x].todo \in Seq(Jobs)
        BY <1>2 DEF Tx
      <4>2. QED
        BY <2>1, <4>1 DEF Tables
    <3>2. /\ locks[x]["job"][tx[x].todo[i]] = ForUpdate
          /\ Present("job", tx[x].todo[i])
          /\ Due(rows["job"][tx[x].todo[i]], tx[x].start)
      BY <1>1, <2>1 DEF DueHeld, At
    <3>3. l["job"][tx[x].todo[i]] >= locks[x]["job"][tx[x].todo[i]] /\ l["job"][tx[x].todo[i]] \in 0..3
      BY <1>3, <1>0, <3>1
    <3>4. QED
      BY <3>2, <3>3 DEF ForUpdate
  <2>2. QED
    BY <1>4, <1>0, <2>1 DEF DueHeld, Present, Due
<1>9. PInv(x)' /\ advisory' \in [Jobs -> Procs \cup {Null}]
  BY <1>1, <1>5, <1>6, <1>7, <1>8 DEF PInv, SchedTypes
<1>10. QED
  BY <1>9, <1>0, Quiet

\* Every statement that locks and writes a row has that effect.
LEMMA WriteEffect ==
    ASSUME SchedInv, NEW x \in Procs, NEW s \in Tables, NEW v \in {Null, Dropped} \cup Row, NEW c \in Pcs,
           tx[x].pc \in {"job", "policy", "delete", "cascade"},
           Request(x).table = s, Granted(x),
           buf' = [buf EXCEPT ![x][s][Current(x)] = v], tx' = [tx EXCEPT ![x].pc = c]
    PROVE  \E k \in Jobs, t \in Tx, w \in [Tables -> [Jobs -> {Null, Dropped} \cup Row]],
              l \in [Tables -> [Jobs -> 0..3]] : Wrote(x, s, v, c, k, t, w, l)
<1>1. SchedTypes
  BY DEF SchedInv
<1>2. /\ Current(x) \in Jobs
      /\ \E l \in [Tables -> [Jobs -> 0..3]] :
                /\ locks' = [locks EXCEPT ![x] = l]
                /\ \A u \in Tables, j \in Jobs : l[u][j] >= locks[x][u][j]
                /\ l[Request(x).table][Current(x)] >= Request(x).lock
                /\ \A y \in Procs \ {x}, u \in Tables, j \in Jobs : l[u][j] + locks[y][u][j] <= 3
  BY GrantedLocks
<1>3. PICK k \in Jobs : k = Current(x)
  BY <1>2
<1>4. PICK l \in [Tables -> [Jobs -> 0..3]] :
                /\ locks' = [locks EXCEPT ![x] = l]
                /\ \A u \in Tables, j \in Jobs : l[u][j] >= locks[x][u][j]
                /\ l[s][k] >= Request(x).lock
                /\ \A y \in Procs \ {x}, u \in Tables, j \in Jobs : l[u][j] + locks[y][u][j] <= 3
  BY <1>2, <1>3
<1>5. /\ tx \in [Procs -> Tx] /\ tx[x] \in Tx
      /\ buf \in [Procs -> [Tables -> [Jobs -> {Null, Dropped} \cup Row]]]
      /\ buf[x] \in [Tables -> [Jobs -> {Null, Dropped} \cup Row]]
  BY <1>1, ProcTypes DEF SchedTypes
<1>6. l[s][k] >= NoKeyUpdate
  <2>1. Request(x).lock = 2 \/ Request(x).lock = 3
    BY Requests DEF At, NoKeyUpdate, ForUpdate
  <2>2. l[s] \in [Jobs -> 0..3]
    OBVIOUS
  <2>3. PICK n \in 0..3 : n = l[s][k]
    BY <2>2
  <2>4. n >= 2
    BY <1>4, <2>1, <2>3
  <2>5. QED
    BY <2>3, <2>4 DEF NoKeyUpdate
<1> DEFINE t == [tx[x] EXCEPT !.pc = c]
           w == [buf[x] EXCEPT ![s] = [buf[x][s] EXCEPT ![k] = v]]
<1>7. tx' = [tx EXCEPT ![x] = t] /\ buf' = [buf EXCEPT ![x] = w]
  BY <1>3, <1>5
<1>8. /\ t \in Tx /\ t.op = tx[x].op /\ t.pc = c /\ t.todo = tx[x].todo /\ t.start = tx[x].start
      /\ t.policy = tx[x].policy /\ t.out = tx[x].out
      /\ t.enabled = tx[x].enabled /\ t.interval = tx[x].interval
  BY <1>5 DEF Tx
<1>9. /\ w \in [Tables -> [Jobs -> {Null, Dropped} \cup Row]]
      /\ w[s][k] = v
      /\ \A u \in Tables, j \in Jobs : u # s \/ j # k => w[u][j] = buf[x][u][j]
  BY <1>5
<1> HIDE DEF t, w
<1>10. Wrote(x, s, v, c, k, t, w, l)
  BY <1>3, <1>4, <1>6, <1>7, <1>8, <1>9 DEF Wrote
<1>11. QED
  BY <1>8, <1>9, <1>10

\* An UPDATE: the first writes one row of the pair, the second makes the other
\* the same, whichever order the call goes in.
LEMMA UpdateKeeps ==
    ASSUME SchedInv, NEW x \in Procs, NEW s \in Tables, Update(x, s)
    PROVE  SchedInv'
<1>1. /\ SchedTypes /\ PolicyMirrorsJob /\ Shape(x) /\ Writes(x) /\ Paired(x) /\ tx[x].pc = s
      /\ tx[x] \in Tx
  BY ProcTypes DEF SchedInv, PInv, Update, At
<1>2. s = "job" \/ s = "policy"
  BY DEF Tables
<1>3. CASE ~Present(s, Current(x))
  BY <1>3, AbortKeeps DEF Update
<1>4. CASE Present(s, Current(x))
  <2>1. Current(x) \in Jobs /\ tx[x].op \in {"run", "due", "alter_policy", "alter_job"}
    BY <1>1, <1>2, CurrentIsJob DEF Shape, Tx, Ops, Idle
  <2>2. rows[s][Current(x)] \in Row
    BY <1>1, <1>4, <2>1 DEF SchedTypes, Present
  <2>3. Runs(x) => tx[x].policy \in Row
    BY <1>1, <1>2 DEF Shape
  <2> DEFINE v == NewVersion(x, s, rows[s][Current(x)])
             c == AfterUpdate(x, s)
  <2>4. v \in Row /\ (Runs(x) => /\ v.enabled = rows[s][Current(x)].enabled
                                 /\ v.interval = rows[s][Current(x)].interval)
    BY <1>1, <2>2, <2>3, NewVersionIsRow
  <2>5. /\ tx[x].op = "alter_policy" /\ s = "policy" => c = "job"
        /\ tx[x].op = "alter_policy" /\ s = "job" => c = "commit"
        /\ tx[x].op # "alter_policy" /\ s = "job" => c = "policy"
        /\ tx[x].op = "alter_job" /\ s = "policy" => c = "commit"
        /\ Runs(x) /\ s = "policy" => c = "next"
    BY DEF AfterUpdate, Runs
  <2>6. Granted(x) /\ buf' = [buf EXCEPT ![x][s][Current(x)] = v] /\ tx' = [tx EXCEPT ![x].pc = c]
    BY <1>4 DEF Update, Advance
  <2> HIDE DEF v, c
  <2>7. c \in Pcs
    BY <1>2, <2>1, <2>5 DEF Runs, Pcs, RunSteps
  <2>8. v \in {Null, Dropped} \cup Row
    BY <2>4
  <2>9. advisory' = advisory /\ rows' = rows /\ failures' = failures /\ clock' = clock
    BY <1>4 DEF Update, KeepsTables
  <2>10. Request(x).table = s /\ tx[x].pc \in {"job", "policy", "delete", "cascade"}
    BY <1>1, <1>2, Requests DEF At
  <2>11. PICK k \in Jobs, t \in Tx, w \in [Tables -> [Jobs -> {Null, Dropped} \cup Row]],
              l \in [Tables -> [Jobs -> 0..3]] : Wrote(x, s, v, c, k, t, w, l)
    BY <2>6, <2>7, <2>8, <2>10, WriteEffect
  <2>12. tx'[x] = t /\ buf'[x] = w
    BY <1>1, <2>11 DEF SchedTypes, Wrote
  <2>13. /\ k = Current(x) /\ w[s][k] = v
         /\ \A u \in Tables, j \in Jobs : u # s \/ j # k => w[u][j] = buf[x][u][j]
         /\ t.op = tx[x].op /\ t.todo = tx[x].todo /\ t.start = tx[x].start
         /\ t.policy = tx[x].policy /\ t.out = tx[x].out
         /\ t.enabled = tx[x].enabled /\ t.interval = tx[x].interval /\ t.pc = c
    BY <2>11 DEF Wrote
  <2>14. Paired(x)'
    <3>1. /\ Current(x)' = k /\ "job" \in Tables /\ "policy" \in Tables
          /\ ~At(x, "cascade")' /\ tx'[x].op # "remove"
      BY <1>2, <2>1, <2>5, <2>12, <2>13 DEF Current, At, Tables, Runs
    <3>2. ASSUME NEW u \in Tables, NEW r PROVE NewVersion(x, u, r)' = NewVersion(x, s, r)
      BY <2>12, <2>13 DEF NewVersion
    <3>3. v = NewVersion(x, s, rows[s][k])
      BY <2>13 DEF v
    <3>4. rows["policy"][k] = rows["job"][k]
      BY <1>1 DEF PolicyMirrorsJob
    <3>5. CASE (tx[x].op = "alter_policy" /\ s = "policy") \/ (tx[x].op # "alter_policy" /\ s = "job")
      <4>1. Half(x)' /\ Other(x)' = s
        BY <2>5, <2>12, <2>13, <3>5 DEF Half, Other, At
      <4>2. ~Half(x)
        BY <1>1, <3>5 DEF Half, At
      <4>3. \A j \in Jobs : w["policy"][j] = w["job"][j] \/ j = k
        BY <1>1, <2>13, <3>1, <4>2 DEF Paired
      <4>4. Present(s, k)' /\ NewVersion(x, s, rows[s][k])' = v
        <5>1. rows'[s][k] = rows[s][k]
          BY <2>9
        <5>2. QED
          BY <1>4, <2>13, <3>2, <3>3, <5>1 DEF Present
      <4>5. QED
        BY <2>12, <2>13, <3>1, <4>1, <4>3, <4>4 DEF Paired
    <3>6. CASE (tx[x].op = "alter_policy" /\ s = "job") \/ (tx[x].op # "alter_policy" /\ s = "policy")
      <4>1. ~Half(x)'
        BY <2>1, <2>5, <2>12, <2>13, <3>6 DEF Half, At, Runs
      <4>2. PICK o \in Tables : o = Other(x) /\ o # s /\ Half(x) /\ ~At(x, "cascade")
        BY <1>1, <3>6 DEF Half, Other, At, Tables
      <4>3. buf[x][o][k] = NewVersion(x, o, rows[o][k])
        BY <1>1, <2>13, <4>2 DEF Paired
      <4>4. NewVersion(x, o, rows[o][k]) = NewVersion(x, s, rows[s][k])
        <5>1. rows[o][k] = rows[s][k]
          BY <3>4, <4>2 DEF Tables
        <5>2. QED
          BY <5>1 DEF NewVersion
      <4>5. w["policy"][k] = w["job"][k]
        BY <2>13, <3>3, <4>2, <4>3, <4>4 DEF Tables
      <4>6. \A j \in Jobs : w["policy"][j] = w["job"][j]
        BY <1>1, <2>13, <3>1, <4>5 DEF Paired
      <4>7. QED
        BY <2>12, <3>1, <4>1, <4>6 DEF Paired
    <3>7. QED
      BY <1>2, <3>5, <3>6
  <2>15. Present(s, k) /\ (Runs(x) => /\ v \in Row
                                     /\ v.enabled = rows[s][k].enabled
                                     /\ v.interval = rows[s][k].interval)
    BY <1>4, <2>4, <2>13
  <2>16. /\ c \in {"job", "policy", "next", "commit", "cascade"}
         /\ tx[x].op = "run" \/ tx[x].op = "due" => c \in RunSteps
         /\ tx[x].op \in {"alter_policy", "alter_job"} => c \in {"policy", "job", "commit"}
         /\ tx[x].op # "remove"
    BY <1>2, <2>1, <2>5 DEF Runs, RunSteps
  <2>17. QED
    BY <2>9, <2>10, <2>11, <2>14, <2>15, <2>16, Written
<1>5. QED
  BY <1>3, <1>4

\* A DELETE of the job row, then of the policy row.
LEMMA DeleteKeeps ==
    ASSUME SchedInv, NEW x \in Procs, Delete(x)
    PROVE  SchedInv'
<1>1. /\ SchedTypes /\ PolicyMirrorsJob /\ Shape(x) /\ Writes(x) /\ Paired(x)
      /\ tx[x].pc \in {"delete", "cascade"} /\ tx[x] \in Tx
  BY ProcTypes DEF SchedInv, PInv, Delete
<1>2. Current(x) \in Jobs /\ tx[x].op = "remove"
  BY <1>1, CurrentIsJob DEF Shape, Tx, Ops, Idle, RunSteps
<1>3. PICK s \in Tables : s = Request(x).table /\ s = IF At(x, "delete") THEN "job" ELSE "policy"
  BY <1>1, Requests DEF At, Tables
<1>4. \A u \in Tables, j \in Jobs : buf[x][u][j] \in {Null, Dropped} \cup Row
  <2>1. buf[x] \in [Tables -> [Jobs -> {Null, Dropped} \cup Row]]
    BY <1>1, ProcTypes
  <2>2. \A u \in Tables : buf[x][u] \in [Jobs -> {Null, Dropped} \cup Row]
    BY <2>1
  <2>3. QED
    BY <2>2
<1>5. buf[x][s][Current(x)] = Null
  BY <1>1, <1>2, <1>3 DEF Writes, NoWrites, Paired, At
<1> DEFINE v == IF Present(s, Current(x)) THEN Dropped ELSE buf[x][s][Current(x)]
           c == IF At(x, "delete") THEN "cascade" ELSE "commit"
<1>6. v = IF Present(s, Current(x)) THEN Dropped ELSE Null
  BY <1>5
<1>7. c \in Pcs /\ c \in {"cascade", "commit"} /\ (At(x, "delete") => c = "cascade") /\ (~At(x, "delete") => c = "commit")
  BY DEF Pcs
<1>8. /\ Granted(x) /\ buf' = [buf EXCEPT ![x][s][Current(x)] = v] /\ tx' = [tx EXCEPT ![x].pc = c]
      /\ advisory' = advisory /\ rows' = rows /\ failures' = failures /\ clock' = clock
  BY <1>3 DEF Delete, Advance, KeepsTables
<1> HIDE DEF v, c
<1>9. v \in {Null, Dropped} \cup Row /\ tx[x].pc \in {"job", "policy", "delete", "cascade"}
  BY <1>1, <1>6
<1>10. PICK k \in Jobs, t \in Tx, w \in [Tables -> [Jobs -> {Null, Dropped} \cup Row]],
            l \in [Tables -> [Jobs -> 0..3]] : Wrote(x, s, v, c, k, t, w, l)
  BY <1>3, <1>7, <1>8, <1>9, WriteEffect
<1>11. tx'[x] = t /\ buf'[x] = w
  BY <1>1, <1>10 DEF SchedTypes, Wrote
<1>12. /\ k = Current(x) /\ w[s][k] = v
       /\ \A u \in Tables, j \in Jobs : u # s \/ j # k => w[u][j] = buf[x][u][j]
       /\ t.op = tx[x].op /\ t.todo = tx[x].todo /\ t.pc = c
  BY <1>10 DEF Wrote
<1>13. Paired(x)'
  <2>1. /\ Current(x)' = k /\ "job" \in Tables /\ "policy" \in Tables /\ tx'[x].op = "remove"
        /\ rows["policy"][k] = rows["job"][k] /\ rows["job"][k] # NoRow
    BY <1>1, <1>2, <1>11, <1>12 DEF Current, Tables, PolicyMirrorsJob, Paired
  <2>2. Present("policy", k) <=> Present("job", k)
    BY <2>1 DEF Present
  <2>3. (Present("job", k)' <=> Present("job", k)) /\ rows'["job"][k] # NoRow
    BY <1>8, <2>1 DEF Present
  <2>4. CASE At(x, "delete")
    <3>1. s = "job" /\ c = "cascade"
      BY <1>3, <1>7, <2>4
    <3>2. At(x, "cascade")' /\ Half(x)'
      BY <1>11, <1>12, <3>1 DEF At, Half
    <3>3. \A j \in Jobs : buf[x]["policy"][j] = Null /\ buf[x]["job"][j] = Null
      BY <1>1, <2>4 DEF Writes, NoWrites, Tables
    <3>4. /\ w["job"][k] = IF Present("job", k) THEN Dropped ELSE Null
          /\ w["policy"][k] = Null
          /\ \A j \in Jobs : w["policy"][j] = w["job"][j] \/ j = k
      BY <1>6, <1>12, <2>1, <3>1, <3>3
    <3>5. QED
      BY <1>11, <2>1, <2>3, <3>2, <3>4 DEF Paired
  <2>5. CASE ~At(x, "delete")
    <3>1. s = "policy" /\ c = "commit" /\ At(x, "cascade")
      BY <1>1, <1>3, <1>7, <2>5 DEF At
    <3>2. ~At(x, "cascade")' /\ ~Half(x)'
      BY <1>11, <1>12, <3>1 DEF At, Half
    <3>3. buf[x]["job"][k] = IF Present("job", k) THEN Dropped ELSE Null
      BY <1>1, <1>12, <3>1 DEF Paired
    <3>4. w["policy"][k] = w["job"][k]
      BY <1>6, <1>12, <2>1, <2>2, <3>1, <3>3
    <3>5. \A j \in Jobs : w["policy"][j] = w["job"][j]
      BY <1>1, <1>12, <2>1, <3>1, <3>4 DEF Paired
    <3>6. QED
      BY <1>11, <2>1, <2>3, <3>2, <3>5 DEF Paired
  <2>6. QED
    BY <2>4, <2>5
<1>14. v # Null => Present(s, k)
  BY <1>6, <1>12
<1>15. ~Runs(x)
  BY <1>2 DEF Runs
<1>16. QED
  BY <1>2, <1>7, <1>8, <1>9, <1>10, <1>13, <1>14, <1>15, Written

-------------------------------------------------------------------------------
\* Every statement of a process keeps the scheduler's invariant.
LEMMA StatementKeeps ==
    ASSUME SchedInv, NEW x \in Procs, Statement(x) \/ Cancel(x) \/ DeadlockAbort(x)
    PROVE  SchedInv'
<1>1. ASSUME CommitStatement(x) PROVE SchedInv'
  <2>1. tx[x].pc = "commit" /\ Commit(x) /\ Shape(x)
    BY <1>1 DEF CommitStatement, At, SchedInv, PInv
  <2>2. ~Half(x) /\ tx[x].todo # <<>>
    BY <2>1 DEF Half, At, Shape
  <2>3. QED
    BY <2>1, <2>2, CommitKeeps
<1>2. ASSUME Cancel(x) \/ DeadlockAbort(x) PROVE SchedInv'
  BY <1>2, AbortKeeps DEF Cancel, DeadlockAbort
<1>3. QED
  BY <1>1, <1>2, SelectDueKeeps, ReadPolicyKeeps, TryAcquireJobLockKeeps, InsertJobRunKeeps,
     ApplySyncKeeps, DeleteKeeps, NextJobKeeps, UpdateKeeps DEF Statement

\* Every step of the scheduler does.
LEMMA SchedStep ==
    ASSUME SchedInv, SchedNext
    PROVE  SchedInv'
<1>1. ASSUME NEW x \in Sessions, UserCall(x) PROVE SchedInv'
  <2>1. x \in Procs
    BY DEF Procs
  <2>2. ASSUME NEW j \in Jobs, AddSyncPolicy(x, j) PROVE SchedInv'
    BY <2>1, <2>2, AddSyncPolicyKeeps
  <2>3. QED
    BY <1>1, <2>1, <2>2, CallsKeep DEF UserCall
<1>2. ASSUME NEW x \in DueWorkers, RunDueJobsAsync(x) PROVE SchedInv'
  BY <1>2, CallsKeep DEF Procs
<1>3. QED
  BY <1>1, <1>2, TickKeeps, StatementKeeps DEF SchedNext

-------------------------------------------------------------------------------
\* A statement ends its transaction or goes on with the same call, and keeps the
\* committed rows and the worker's slot.
Continues(x) ==
    /\ rows' = rows /\ slots' = slots /\ calls' = calls
    /\ tx'[x].op = tx[x].op
    /\ \A y \in Procs \ {x} : tx'[y] = tx[y]

\* There is no third possibility.
LEMMA StatementKind ==
    ASSUME SchedInv, NEW x \in Procs, Statement(x)
    PROVE  Abort(x) \/ Commit(x) \/ Continues(x)
<1>1. tx \in [Procs -> Tx] /\ tx[x] \in Tx
  BY DEF SchedInv, SchedTypes
<1>2. \A c : Advance(x, c) /\ KeepsTables => Continues(x)
  BY <1>1 DEF Advance, KeepsTables, slotVars, Continues, Tx
<1>3. CASE SelectDue(x)
  BY <1>1, <1>3 DEF SelectDue, KeepsTables, slotVars, Continues, Tx
<1>4. CASE ReadPolicy(x)
  BY <1>1, <1>4 DEF ReadPolicy, EndsWithErr, KeepsTables, slotVars, Continues, Tx
<1>5. CASE TryAcquireJobLock(x)
  BY <1>1, <1>5 DEF TryAcquireJobLock, KeepsTables, slotVars, Continues, Tx
<1>6. CASE InsertJobRun(x)
  BY <1>2, <1>6 DEF InsertJobRun
<1>7. CASE ApplySync(x)
  BY <1>1, <1>7 DEF ApplySync, KeepsTables, slotVars, Continues, Tx
<1>8. CASE Delete(x)
  BY <1>2, <1>8 DEF Delete
<1>9. CASE NextJob(x)
  BY <1>1, <1>9 DEF NextJob, EndsWithErr, KeepsTables, slotVars, Continues, Tx
<1>10. CASE CommitStatement(x)
  BY <1>10 DEF CommitStatement
<1>11. ASSUME NEW t \in Tables, Update(x, t) PROVE Abort(x) \/ Continues(x)
  BY <1>2, <1>11 DEF Update
<1>12. QED
  BY <1>3, <1>4, <1>5, <1>6, <1>7, <1>8, <1>9, <1>10, <1>11 DEF Statement

\* Only a process inside a call executes statements or waits.
LEMMA Busy ==
    ASSUME SchedInv, NEW x \in Procs, Statement(x) \/ Cancel(x) \/ DeadlockAbort(x)
    PROVE  tx[x] # Idle /\ tx[x].op # "idle"
<1>1. Shape(x)
  BY SMTT(40) DEF SchedInv, PInv
<1>2. ASSUME Statement(x) PROVE tx[x].pc # "idle"
  BY <1>2 DEF Statement, SelectDue, ReadPolicy, TryAcquireJobLock, InsertJobRun, ApplySync, Delete,
              NextJob, CommitStatement, Update, At, Tables
<1>3. ASSUME DeadlockAbort(x) PROVE tx[x].pc # "idle"
  <2>1. Blockers(x) # {}
    BY <1>3 DEF DeadlockAbort
  <2>2. ASSUME tx[x].pc = "idle" PROVE FALSE
    <3>1. Request(x).lock = 0
      BY <2>2 DEF Request, At
    <3>2. QED
      BY <2>1, <3>1 DEF Blockers
  <2>3. QED
    BY <2>2
<1>4. tx[x] # Idle
  BY <1>2, <1>3 DEF Cancel, Idle
<1>5. QED
  BY <1>1, <1>4 DEF Shape

-------------------------------------------------------------------------------
\* One worker more or less, one slot less or more.
LEMMA SlotCount ==
    ASSUME SlotInv, calls' \in 0..MaxCalls,
           \/ slots' = slots /\ Building' = Building /\ Passing' = Passing
           \/ /\ slots > 0 /\ slots' = slots - 1
              /\ \/ /\ Passing' = Passing
                    /\ \E b : b \notin Building /\ Building' = Building \cup {b}
                 \/ /\ Building' = Building
                    /\ \E x : x \notin Passing /\ Passing' = Passing \cup {x}
           \/ /\ slots' = slots + 1
              /\ \/ Passing' = Passing /\ \E b \in Building : Building' = Building \ {b}
                 \/ Building' = Building /\ \E x \in Passing : Passing' = Passing \ {x}
    PROVE  SlotInv'
<1>1. /\ IsFiniteSet(Building) /\ IsFiniteSet(Passing)
      /\ slots \in 0..MaxWorkers /\ MaxWorkers \in Nat
      /\ slots + Cardinality(Building) + Cardinality(Passing) = MaxWorkers
  BY BoundsAssumption DEF SlotInv, SlotsTypeOK, SlotsConserved
<1>2. PICK m \in Nat, n \in Nat : m = Cardinality(Building) /\ n = Cardinality(Passing)
  BY <1>1, FS_CardinalityType
<1>3. IsFiniteSet(Building') /\ IsFiniteSet(Passing')
  BY <1>1, FS_AddElement, FS_RemoveElement
<1>4. PICK p \in Nat, q \in Nat : p = Cardinality(Building') /\ q = Cardinality(Passing')
  BY <1>3, FS_CardinalityType
<1>5. slots + m + n = MaxWorkers
  BY <1>1, <1>2
<1>6. slots' + p + q = MaxWorkers /\ slots' \in Int
  <2>1. CASE slots' = slots /\ Building' = Building /\ Passing' = Passing
    BY <1>1, <1>2, <1>4, <1>5, <2>1
  <2>2. ASSUME slots' = slots - 1, Passing' = Passing,
               NEW b, b \notin Building, Building' = Building \cup {b}
        PROVE  slots' + p + q = MaxWorkers /\ slots' \in Int
    <3>1. p = m + 1 /\ q = n
      BY <1>1, <1>2, <1>4, <2>2, FS_AddElement
    <3>2. QED
      BY <1>1, <1>5, <2>2, <3>1
  <2>3. ASSUME slots' = slots - 1, Building' = Building,
               NEW x, x \notin Passing, Passing' = Passing \cup {x}
        PROVE  slots' + p + q = MaxWorkers /\ slots' \in Int
    <3>1. p = m /\ q = n + 1
      BY <1>1, <1>2, <1>4, <2>3, FS_AddElement
    <3>2. QED
      BY <1>1, <1>5, <2>3, <3>1
  <2>4. ASSUME slots' = slots + 1, Passing' = Passing,
               NEW b \in Building, Building' = Building \ {b}
        PROVE  slots' + p + q = MaxWorkers /\ slots' \in Int
    <3>1. p = m - 1 /\ q = n
      BY <1>1, <1>2, <1>4, <2>4, FS_RemoveElement
    <3>2. QED
      BY <1>1, <1>5, <2>4, <3>1
  <2>5. ASSUME slots' = slots + 1, Building' = Building,
               NEW x \in Passing, Passing' = Passing \ {x}
        PROVE  slots' + p + q = MaxWorkers /\ slots' \in Int
    <3>1. p = m /\ q = n - 1
      BY <1>1, <1>2, <1>4, <2>5, FS_RemoveElement
    <3>2. QED
      BY <1>1, <1>5, <2>5, <3>1
  <2>6. QED
    BY <2>1, <2>2, <2>3, <2>4, <2>5
<1>7. slots' \in 0..MaxWorkers
  <2>1. CASE slots' = slots
    BY <1>1, <2>1
  <2>2. CASE slots > 0 /\ slots' = slots - 1
    BY <1>1, <2>2
  <2>3. CASE slots' = slots + 1
    BY <1>1, <1>6, <2>3
  <2>4. QED
    BY <2>1, <2>2, <2>3
<1>8. QED
  BY <1>3, <1>4, <1>6, <1>7 DEF SlotInv, SlotsTypeOK, SlotsConserved

\* A build worker takes a slot when it is registered and gives it back when its
\* process ends, however it ends.
LEMMA BuildSlots ==
    ASSUME BuildInv, SlotInv, NEW b \in Builds, tx' = tx,
           \/ Launch(b) \/ LaunchFails(b) \/ CallerCommits(b) \/ CallerAborts(b)
           \/ WorkerStep(b) \/ Terminate(b) \/ KillWorker(b)
    PROVE  SlotInv'
<1>1. /\ worker \in [Builds -> [pc : WorkerPc, polls : 0..MaxPolls]]
      /\ BuildOk(row[b], caller[b], worker[b])
  BY DEF BuildInv, BuildTypeOK
<1>2. slots \in 0..MaxWorkers /\ calls \in 0..MaxCalls /\ MaxCalls \in Nat
  BY BoundsAssumption DEF SlotInv, SlotsTypeOK, SlotsConserved
<1>3. Passing' = Passing
  BY DEF Passing
<1>4. CASE Launch(b)
  <2>1. worker[b].pc = "none" /\ worker' = [worker EXCEPT ![b].pc = "poll"]
    BY <1>1, <1>4 DEF Launch, Goes, BuildOk
  <2>2. b \notin Building /\ Building' = Building \cup {b}
    BY <1>1, <2>1 DEF Building, Alive
  <2>3. slots > 0 /\ slots' = slots - 1 /\ calls' \in 0..MaxCalls
    BY <1>2, <1>4 DEF Launch, Called, load_dynamic
  <2>4. QED
    BY <1>3, <2>2, <2>3, SlotCount
<1>5. CASE \/ Expire(b) \/ Terminate(b) \/ CompleteBuild(b) \/ RecordFailure(b) \/ KillWorker(b)
  <2>1. PICK c \in {"gone", "killed"} : Leaves(b, c) /\ Alive(b)
    BY <1>5 DEF Expire, Terminate, CompleteBuild, RecordFailure, KillWorker, Alive
  <2>2. b \in Building /\ Building' = Building \ {b}
    BY <1>1, <2>1 DEF Building, Alive, Leaves
  <2>3. slots' = slots + 1 /\ calls' \in 0..MaxCalls
    BY <1>2, <2>1 DEF Leaves, WorkerExits
  <2>4. QED
    BY <1>3, <2>2, <2>3, SlotCount
<1>6. CASE Poll(b) \/ RunBuildJob(b) \/ PublishBuild(b) \/ ReturnErr(b)
  <2>1. slots' = slots /\ calls' = calls
    BY <1>6 DEF Poll, RunBuildJob, PublishBuild, ReturnErr, slotVars
  <2>2. Alive(b) /\ Alive(b)' /\ \A o \in Builds \ {b} : worker'[o] = worker[o]
    <3>1. CASE Poll(b)
      BY <1>1, <3>1 DEF Poll, Goes, Alive
    <3>2. CASE RunBuildJob(b) \/ PublishBuild(b) \/ ReturnErr(b)
      BY <1>1, <3>2 DEF RunBuildJob, PublishBuild, ReturnErr, Goes, Alive
    <3>3. QED
      BY <1>6, <3>1, <3>2
  <2>3. Building' = Building
    BY <2>2 DEF Building, Alive
  <2>4. QED
    BY <1>2, <1>3, <2>1, <2>3, SlotCount
<1>7. CASE LaunchFails(b) \/ CallerCommits(b) \/ CallerAborts(b)
  <2>1. slots' = slots /\ calls' \in 0..MaxCalls /\ worker' = worker
    BY <1>2, <1>7 DEF LaunchFails, CallerCommits, CallerAborts, Called, slotVars
  <2>2. Building' = Building
    BY <2>1 DEF Building, Alive
  <2>3. QED
    BY <1>3, <2>1, <2>2, SlotCount
<1>8. QED
  BY <1>4, <1>5, <1>6, <1>7 DEF WorkerStep

\* A due-job worker has a slot as long as its pass lasts; sessions have none.
LEMMA SchedSlots ==
    ASSUME SchedInv, SlotInv, SchedNext, worker' = worker
    PROVE  SlotInv'
<1>1. tx \in [Procs -> Tx]
  BY DEF SchedInv, SchedTypes
<1>2. slots \in 0..MaxWorkers /\ calls \in 0..MaxCalls /\ MaxCalls \in Nat
  BY BoundsAssumption DEF SlotInv, SlotsTypeOK, SlotsConserved
<1>3. Building' = Building
  BY DEF Building, Alive
<1>4. Sessions \subseteq Procs /\ DueWorkers \subseteq Procs /\ Sessions \cap DueWorkers = {}
  BY JobsAssumption DEF Procs
<1>5. ASSUME slots' = slots, calls' \in 0..MaxCalls, Passing' = Passing PROVE SlotInv'
  BY <1>3, <1>5, SlotCount
<1>6. CASE Tick
  BY <1>2, <1>5, <1>6 DEF Tick, slotVars, Passing
<1>7. ASSUME NEW x \in Sessions, UserCall(x) PROVE SlotInv'
  <2>1. slots' = slots /\ calls' \in 0..MaxCalls
    <3>1. slots' = slots /\ (calls' = calls \/ \E t : Calls(x, t))
      BY <1>7 DEF UserCall, RunDueJobs, AddSyncPolicy, RunSyncPolicy, RemoveJob, AlterSyncPolicy,
                  AlterJob, slotVars
    <3>2. calls' = calls \/ (calls < MaxCalls /\ calls' = calls + 1)
      BY <3>1 DEF Calls, Called
    <3>3. QED
      BY <1>2, <3>1, <3>2
  <2>2. \A y \in DueWorkers : tx'[y] = tx[y]
    <3>1. tx' = tx \/ \E t : Calls(x, t)
      BY <1>7 DEF UserCall, RunDueJobs, AddSyncPolicy, RunSyncPolicy, RemoveJob, AlterSyncPolicy, AlterJob
    <3>2. tx' = tx \/ \E t : tx' = [tx EXCEPT ![x] = t]
      BY <3>1 DEF Calls
    <3>3. QED
      BY <1>1, <1>4, <3>2
  <2>3. Passing' = Passing
    BY <2>2 DEF Passing
  <2>4. QED
    BY <1>5, <2>1, <2>3
<1>8. ASSUME NEW x \in DueWorkers, RunDueJobsAsync(x) PROVE SlotInv'
  <2>1. /\ tx[x] = Idle /\ tx' = [tx EXCEPT ![x] = Begin(x, "due", "select", <<>>)]
        /\ slots > 0 /\ slots' = slots - 1 /\ calls' \in 0..MaxCalls
    BY <1>2, <1>8 DEF RunDueJobsAsync, Calls, Called, load_dynamic
  <2>2. Begin(x, "due", "select", <<>>) # Idle
    BY DEF Begin, Idle
  <2>3. x \notin Passing /\ Passing' = Passing \cup {x}
    BY <1>1, <1>4, <2>1, <2>2 DEF Passing
  <2>4. QED
    BY <1>3, <2>1, <2>3, SlotCount
<1>9. ASSUME NEW x \in Procs, Statement(x) \/ Cancel(x) \/ DeadlockAbort(x) PROVE SlotInv'
  <2>1. tx[x] # Idle /\ tx[x].op # "idle"
    BY <1>9, Busy
  <2>2. Ends(x) \/ Continues(x)
    BY <1>9, StatementKind DEF Cancel, DeadlockAbort, Abort, Commit
  <2>3. CASE Continues(x)
    <3>1. tx'[x] # Idle
      BY <2>1, <2>3 DEF Continues, Idle
    <3>2. Passing' = Passing
      BY <1>4, <2>1, <2>3, <3>1 DEF Continues, Passing
    <3>3. QED
      BY <1>2, <1>5, <2>3, <3>2 DEF Continues
  <2>4. CASE Ends(x)
    <3>1. /\ tx' = [tx EXCEPT ![x] = Idle] /\ calls' = calls
          /\ slots' = IF x \in DueWorkers THEN slots + 1 ELSE slots
      BY <2>4 DEF Ends, WorkerExits
    <3>2. CASE x \in DueWorkers
      <4>1. x \in Passing /\ Passing' = Passing \ {x}
        BY <1>1, <1>4, <2>1, <3>1, <3>2 DEF Passing
      <4>2. QED
        BY <1>2, <1>3, <3>1, <3>2, <4>1, SlotCount
    <3>3. CASE x \notin DueWorkers
      <4>1. Passing' = Passing
        BY <1>1, <1>4, <3>1, <3>3 DEF Passing
      <4>2. QED
        BY <1>2, <1>5, <3>1, <3>3, <4>1
    <3>4. QED
      BY <3>2, <3>3
  <2>5. QED
    BY <2>2, <2>3, <2>4
<1>10. QED
  BY <1>6, <1>7, <1>8, <1>9 DEF SchedNext

-------------------------------------------------------------------------------
\* Before the first call.
LEMMA InitInv ==
    ASSUME Init
    PROVE  IInv
<1>1. SchedTypes
  BY JobsAssumption, IdleTyped DEF Init, SchedInit, SchedTypes
<1>2. LocksCompatible
  BY DEF Init, SchedInit, LocksCompatible, NoLocks
<1>3. PolicyMirrorsJob
  BY DEF Init, SchedInit, PolicyMirrorsJob, Tables
<1>4. ASSUME NEW x \in Procs PROVE PInv(x)
  <2>1. tx[x] = Idle /\ buf[x] = NoWrites
    BY DEF Init, SchedInit
  <2>2. Shape(x) /\ Applying(x) /\ DueHeld(x)
    BY <2>1 DEF Shape, Applying, DueHeld, At, Runs, Idle
  <2>3. \A t \in Tables, j \in Jobs : buf[x][t][j] = Null
    BY <2>1 DEF NoWrites
  <2>4. Writes(x)
    BY <2>1, <2>3 DEF Writes
  <2>5. ~Half(x) /\ ~At(x, "cascade") /\ tx[x].op # "remove"
    BY <2>1 DEF Half, At, Idle
  <2>6. Paired(x)
    BY <2>3, <2>5 DEF Paired, Tables
  <2>7. QED
    BY <2>2, <2>4, <2>6 DEF PInv
<1>5. BuildInv
  BY PollsAssumption DEF Init, BuildInit, BuildInv, BuildTypeOK, BuildOk, JobStatus, WorkerPc
<1>6. SlotInv
  <2>1. Building = {} /\ Passing = {}
    BY DEF Init, BuildInit, SchedInit, Building, Alive, Passing, Procs
  <2>2. slots = MaxWorkers /\ calls = 0
    BY DEF Init, SlotsInit
  <2>3. IsFiniteSet({}) /\ Cardinality({}) = 0
    BY FS_EmptySet
  <2>4. QED
    BY <2>1, <2>2, <2>3, BoundsAssumption DEF SlotInv, SlotsTypeOK, SlotsConserved
<1>7. QED
  BY <1>1, <1>2, <1>3, <1>4, <1>5, <1>6 DEF IInv, SchedInv

\* Steps that change nothing.
LEMMA StutterInv ==
    ASSUME IInv, UNCHANGED vars
    PROVE  IInv'
<1>1. UNCHANGED <<clock, rows, failures, advisory, locks, buf, tx>> /\ UNCHANGED <<slots, calls>>
      /\ UNCHANGED <<row, caller, worker>>
  BY DEF vars, slotVars, buildVars, schedVars
<1>2. SchedInv'
  BY <1>1, OutsideKeeps DEF IInv, SchedInv, SchedTypes, PolicyMirrorsJob
<1>3. BuildInv'
  BY <1>1 DEF IInv, BuildInv, BuildTypeOK
<1>4. SlotInv'
  <2>1. Building' = Building /\ Passing' = Passing
    BY <1>1 DEF Building, Alive, Passing
  <2>2. QED
    BY <1>1, <2>1 DEF IInv, SlotInv, SlotsTypeOK, SlotsConserved
<1>5. QED
  BY <1>2, <1>3, <1>4 DEF IInv

\* Every step of the two subsystems keeps the invariant.
LEMMA NextInv ==
    ASSUME IInv, [Next]_vars
    PROVE  IInv'
<1>1. SchedInv /\ BuildInv /\ SlotInv
  BY DEF IInv
<1>2. CASE BuildNext /\ UNCHANGED schedVars
  <2>1. UNCHANGED <<clock, rows, failures, advisory, locks, buf, tx>>
    BY <1>2 DEF schedVars
  <2>2. SchedInv'
    BY <1>1, <2>1, OutsideKeeps DEF SchedInv, SchedTypes, PolicyMirrorsJob
  <2>3. BuildInv' /\ SlotInv'
    BY <1>1, <1>2, <2>1, BuildStep, BuildSlots DEF BuildNext
  <2>4. QED
    BY <2>2, <2>3 DEF IInv
<1>3. CASE SchedNext /\ UNCHANGED buildVars
  <2>1. UNCHANGED <<row, caller, worker>>
    BY <1>3 DEF buildVars
  <2>2. BuildInv'
    BY <1>1, <2>1 DEF BuildInv, BuildTypeOK
  <2>3. SchedInv' /\ SlotInv'
    BY <1>1, <1>3, <2>1, SchedStep, SchedSlots
  <2>4. QED
    BY <2>2, <2>3 DEF IInv
<1>4. QED
  BY <1>2, <1>3, StutterInv DEF Next

\* The inductive invariant holds in every reachable state.
LEMMA IInvAlways == Spec => []IInv
<1>1. Init => IInv
  BY InitInv
<1>2. IInv /\ [Next]_vars => IInv'
  BY NextInv
<1>3. QED
  BY <1>1, <1>2, PTL DEF Spec

-------------------------------------------------------------------------------
\* Slots, build jobs and scheduler state have their types in every reachable
\* state, for any number of jobs, processes and worker slots.
THEOREM JobTypes == Spec => []TypeOK
<1>1. ASSUME IInv PROVE TypeOK
  <2>1. SlotsTypeOK /\ BuildTypeOK /\ SchedTypes
    BY <1>1 DEF IInv, SlotInv, BuildInv, SchedInv
  <2>2. ASSUME NEW x \in Procs PROVE Range(tx[x].todo) \subseteq Jobs /\ (tx[x].op = "idle" => tx[x] = Idle)
    <3>1. tx[x].todo \in Seq(Jobs)
      BY <2>1, ProcTypes DEF Tx
    <3>2. QED
      BY <1>1, <3>1 DEF IInv, SchedInv, PInv, Shape, Range
  <2>3. SchedTypeOK
    BY <2>1, <2>2 DEF SchedTypes, SchedTypeOK
  <2>4. QED
    BY <2>1, <2>3 DEF TypeOK
<1>2. IInv => TypeOK
  BY <1>1
<1>3. QED
  BY <1>2, IInvAlways, PTL

\* No worker slot is lost or given back twice, whatever launches fail, callers
\* abort and workers are killed (load_dynamic, and the exit of a worker without a
\* restart time); with JobTypes, never more workers run than there are slots.
THEOREM SlotsNeverLost == Spec => []SlotsConserved
<1>1. IInv => SlotsConserved
  BY DEF IInv, SlotInv
<1>2. QED
  BY <1>1, IInvAlways, PTL

\* A build's row agrees with what the build has published, through every crash
\* of its worker (update_build_job_completed, update_build_job_failed).
THEOREM BuildRowsTruthful == Spec => []JobRowMatchesPublication
<1>1. IInv => JobRowMatchesPublication
  BY DEF IInv, BuildInv, BuildOk, JobRowMatchesPublication
<1>2. QED
  BY <1>1, IInvAlways, PTL

\* _jobs and _sync_policies agree, whatever runs, alterations and removals are
\* interleaved, in which of them two transactions lock the pair in opposite
\* orders.
THEOREM PoliciesMirrorJobs == Spec => []PolicyMirrorsJob
<1>1. IInv => PolicyMirrorsJob
  BY DEF IInv, SchedInv
<1>2. QED
  BY <1>1, IInvAlways, PTL

\* A job is replayed by one process at a time, and a pass replays it only while
\* it is still enabled and due (try_acquire_job_lock, FOR UPDATE SKIP LOCKED).
THEOREM OneRun == Spec => []OneRunPerDueDate
<1>1. ASSUME IInv PROVE OneRunPerDueDate
  <2>1. SchedInv
    BY <1>1 DEF IInv
  <2>2. OneApplier
    BY <2>1 DEF SchedInv, PInv, Applying, OneApplier
  <2>3. DueWhenApplied
    <3>1. SUFFICES ASSUME NEW x \in Procs, tx[x].op = "due", At(x, "apply")
                   PROVE  /\ Present("job", Current(x))
                          /\ Due(rows["job"][Current(x)], tx[x].start)
      BY DEF DueWhenApplied
    <3>2. SchedTypes /\ tx[x].todo # <<>> /\ DueHeld(x)
      BY <2>1, <3>1, RunsOnly DEF SchedInv, PInv, At
    <3>3. Current(x) = tx[x].todo[1] /\ 1 \in 1..Len(tx[x].todo)
      BY <3>2, CurrentIsJob
    <3>4. QED
      BY <3>1, <3>2, <3>3 DEF DueHeld, At
  <2>4. QED
    BY <2>2, <2>3 DEF OneRunPerDueDate
<1>2. IInv => OneRunPerDueDate
  BY <1>1
<1>3. QED
  BY <1>2, IInvAlways, PTL

\* A run that commits leaves enabled and interval as the last alteration to
\* commit has set them, also one that committed while the run was going on.
THEOREM RunsNeverUndoAlterations == Spec => RunsKeepSettings
<1> DEFINE Keeps == \A x \in Procs, j \in Jobs, t \in Tables :
                        tx[x].op \in {"run", "due"} /\ tx'[x].op = "idle" /\ Present(t, j)
                            => /\ rows'[t][j].enabled = rows[t][j].enabled
                               /\ rows'[t][j].interval = rows[t][j].interval
<1>1. ASSUME IInv, [Next]_vars PROVE [Keeps]_vars
  <2>1. SchedInv
    BY <1>1 DEF IInv
  <2>2. CASE rows' = rows
    BY <2>2
  <2>3. CASE UNCHANGED vars
    BY <2>3
  <2>4. CASE BuildNext /\ UNCHANGED schedVars
    BY <2>2, <2>4 DEF schedVars
  <2>5. CASE Tick
    BY <2>2, <2>5 DEF Tick
  <2>6. ASSUME tx' = tx PROVE Keeps
    BY <2>6
  <2>7. ASSUME NEW x \in Sessions, UserCall(x) PROVE Keeps
    <3>1. rows' = rows \/ tx' = tx
      BY <2>7 DEF UserCall, RunDueJobs, AddSyncPolicy, RunSyncPolicy, RemoveJob, AlterSyncPolicy, AlterJob, Calls
    <3>2. QED
      BY <2>6, <3>1
  <2>8. ASSUME NEW x \in DueWorkers, RunDueJobsAsync(x) PROVE Keeps
    BY <2>8 DEF RunDueJobsAsync, Calls
  <2>9. ASSUME NEW x \in Procs, Statement(x) \/ Cancel(x) \/ DeadlockAbort(x) PROVE Keeps
    <3>1. rows' = rows \/ Commit(x)
      BY <2>1, <2>9, StatementKind DEF Cancel, DeadlockAbort, Abort, Continues
    <3>2. CASE Commit(x)
      <4>1. SUFFICES ASSUME NEW y \in Procs, NEW j \in Jobs, NEW t \in Tables,
                            tx[y].op \in {"run", "due"}, tx'[y].op = "idle", Present(t, j)
                     PROVE  /\ rows'[t][j].enabled = rows[t][j].enabled
                            /\ rows'[t][j].interval = rows[t][j].interval
        OBVIOUS
      <4>2. tx' = [tx EXCEPT ![x] = Idle] /\ tx \in [Procs -> Tx]
        BY <2>1, <3>2 DEF Commit, Ends, SchedInv, SchedTypes
      <4>3. y = x
        BY <4>1, <4>2
      <4>4. rows'[t][j] = IF buf[x][t][j] = Null THEN rows[t][j] ELSE buf[x][t][j]
        BY <3>2 DEF Commit
      <4>5. Writes(x) /\ Runs(x)
        BY <2>1, <4>1, <4>3 DEF SchedInv, PInv, Runs
      <4>6. QED
        BY <4>4, <4>5 DEF Writes
    <3>3. QED
      BY <3>1, <3>2
  <2>10. QED
    BY <1>1, <2>3, <2>4, <2>5, <2>7, <2>8, <2>9 DEF Next, SchedNext
<1>2. IInv /\ [Next]_vars => [Keeps]_vars
  BY <1>1
<1>3. [][Keeps]_vars => RunsKeepSettings
  BY DEF RunsKeepSettings
<1>4. QED
  BY <1>2, <1>3, IInvAlways, PTL DEF Spec
==============================================================================
