# pgGraph: TLA+ models, checks and proofs

pgGraph is a PostgreSQL extension (Rust, `graph/src`) that keeps a graph projection of ordinary
tables. Each PostgreSQL backend holds its own copy of the graph; the copies follow the source tables
through a trigger-written log, durable generations of files, and a per-transaction overlay. These
modules model the parts of that machinery whose correctness depends on the order of steps of several
backends, on transactions and savepoints rolling back, on crashes between two file operations, on
searches suspended while PostgreSQL decides what the caller may see, and on background workers.

`PROJECT.json` holds the exact correspondence: every definition with the source lines it stands for,
the runs, one mutant per checked property, the hazards and the theorems.

## Inventory

| component | state | operations | what makes it correct |
|---|---|---|---|
| Backend cache provenance (`sql_sync.rs`, callbacks in `projection/tx_delta.rs`) | resident engine; stamp, fixed-snapshot flag, abort flag, marked savepoint levels | recover at every SQL entry, mark before every change of the base, finish a savepoint, finish a transaction | a base with rolled-back, prepared or fixed-snapshot changes is never served |
| Trigger sync (`sync.rs`, `sync_capture.rs`, `sql_sync.rs`, `build_snapshot.rs`) | `graph._sync_log`, watermark of each engine, pruned floor, writer lock, capture fence | trigger write, `apply_sync`, durable ingest, build, prune | no visible change below the watermark is missing, nothing invisible is present, nothing is applied twice |
| Publication (`projection/{publication,manifest,gc,recovery}.rs`, `runtime_state.rs`, `sql_facade/runtime.rs`, `sql_build.rs`) | artifact and manifest files, pointer file, head row `graph._projection_heads`, recovery marker, build lock | ingest, compaction, rebuild, reset, collection, reconciliation of interrupted work | whatever a snapshot sees published can be loaded; publications neither collide nor get lost |
| Transaction delta (`projection/tx_delta.rs`) | delta, savepoint snapshots, depth, topology revision | record, reserve, savepoint callbacks, clear | savepoint semantics; the revision betrays every change |
| Mapped GQL writes (`sql_facade/gql.rs`, `engine.rs`, `projection/layered.rs`) | rows, base projection, delta with temporary indexes and identities | CREATE, DELETE, DETACH DELETE, savepoints | a transaction reads exactly its own rows |
| Durable ingest (`projection/{ingest,normalize,segment,identity,edge_type_dictionary}.rs`) | segments and dictionaries | normalise, write, publish | the reduced batch has the effect of the batch |
| Layered reads, compaction, chunks (`projection/{layered,neighbors,compact,chunk}.rs`) | base, chunks, segments | merge on read, merge into fewer files | a merge changes nothing that can be read |
| Search (`bfs.rs`, `path_finder.rs`, `sql_traversal.rs`, `sql_visibility.rs`) | frontier, parents, distances, suspended batch, epoch, verdicts | cut a batch, suspend for visibility, resume | shortest visible paths; a suspended search returns what an uninterrupted one does |
| Resource governor (`resource.rs`, `safety.rs`) | reservations per statement | reserve, resize, release | limits hold, nothing leaks |
| Background builds and maintenance (`sql_jobs.rs`, `sql_build.rs`, workers in `sql_facade/admin.rs`) | job rows, workers and their slots | queue, launch, poll, build, record a failure | a job ends, and its row says truly how |
| Durable job scheduler (`sql_facade/admin.rs`) | `_jobs`, its mirror `_sync_policies`, `_job_runs`, row and advisory locks | add, alter, remove, run, due pass | the tables agree; one run per due date; no run undoes an alteration |
| Engine stores, external sort, file format, connected components | CSR, indexes, runs, bytes | build, merge, map | pure algorithms against their definitions |
| Catalog, configuration, row security, SQL facade, GQL/Cypher front end | PostgreSQL rows; none | validation, parsing, formatting | sequential; unit tests and fuzzing reach them |

Interaction: triggers write the log; `apply_sync` and ingest read it behind a capture fence; ingest,
compaction and builds publish a generation under one build lock; queries load what their snapshot
sees published; GQL writes lay a delta over the loaded base; PostgreSQL's transaction and
subtransaction callbacks tell the cache and the delta what became of a change. Searches borrow the
loaded engine only between two visibility queries. Background workers run builds and replay in
transactions of their own, after the caller that started them may have aborted.

The hard parts are listed with their lines under `hazards` in `PROJECT.json`: ids that commit out of
order, snapshots that are older than files and rows, file operations that no abort undoes, and
backend-local state that survives a rolled-back savepoint.

## Modules

| module | models | remarks |
|---|---|---|
| `PgXid`, `PgTransactions` | PostgreSQL transactions (external) | READ COMMITTED and REPEATABLE READ views, xids assigned at the first write, the removal horizon, transaction locks. Modelled from how the extension uses them |
| `BackendCache` | the provenance operators | one operator per function of `sql_sync.rs` lines 28-259; the engine is the set of source changes it contains |
| `CacheProvenance` | one backend, nested transactions | `fate` and `level` are history variables: what became of the (sub)transaction that made a change |
| `SyncReplay` | log, replay, ingest, build, prune over several backends | composes `BackendCache` and `PgTransactions` |
| `SavepointStack` | abstract savepoints: copy at SAVEPOINT | what `TxSavepoints` implements |
| `TxSnapshots` | snapshot, depth and revision of `tx_delta.rs` | shared by the next two |
| `TxSavepoints` | the same, for deltas of any kind | refinement of `SavepointStack` |
| `TxDelta` | record calls, temporary indexes, tombstones, limits, reads | extends `TxSnapshots` with PostgreSQL's own rows |
| `TxOverlayReload` | `TxDelta` beside a backend that ingests | for one finding |
| `Publication` | files, pointer, head row, marker, collection, reset | composes `PgTransactions`; a crash or error is possible between any two file operations |
| `LayeredProjection` | normalization of a batch into an edge segment, the layered read, compaction and chunk rewrite | one mapped relationship table; a publication is one step (`Publication` has its inside) |
| `SearchGraph` | the graph as a search sees it | candidates in index order, reference definitions: hops, costs, eager searches |
| `TraversalMachine` | `ResumableBfs`, `ResumableDfs` | frontier as queue or stack, batches, circuit breakers |
| `PathMachines` | single-direction and bidirectional BFS, Dijkstra | endpoint batch, then candidate batches |
| `ResumableSearch` | the SQL statement around a machine | composes the two; verdicts, epochs, errors |
| `WorkerSlots` | `max_worker_processes` and the calls of users | shared by the next two |
| `BuildJobs` | build and maintenance jobs | one row, caller and worker per job |
| `JobScheduler` | sync-policy jobs | one transaction per process, statement by statement |
| `JobSystem` | both, competing for worker slots | fairness and properties |
| `SetLemmas` | extrema and prefixes of finite sets of numbers | lemmas that several proofs cite |
| `CacheProvenance_proofs`, `ResumableSearch_proofs`, `SyncReplay_proofs`, `Publication_proofs`, `LayeredProjection_proofs`, `TxDelta_proofs`, `JobSystem_proofs` | theorems | see Proofs |
| `MCCacheProvenance`, `MCTxDelta`, `MCSearch` | symmetry sets; the graph and the requests of the search | |

How state and actions correspond to the code:

* `SyncReplay`. `pc` says where a backend's statement is: `ApplyBegin` is the load, `ApplyTarget` the
  single read of the target with the second generation and floor check, `AcquireFence` the session
  lock, `ApplyBatch` the read under the new snapshot, the release and the replay of the batch; the
  batch is one step because the fence is already released and the engine is backend-local. An error
  (lock busy, pruned log, cancellation) is `EndTransaction(b, "abort")` from any `pc`. `heads`,
  `floors` and the `own`/`del` xids of log rows are row versions, so each snapshot reads its own.
  A reader's heartbeats lag and expire, hence `Prune` may choose any floor up to the durable
  watermark.
* `Publication`. `job.step` runs through planned, written, staged, switched, published. `Fail` is an
  ordinary Rust error with its cleanup, `End(b, "abort")` a PostgreSQL error that bypasses it, `Exit`
  the end of the backend, which also loses the marker. File contents are attempt numbers, so two
  files of the same name are told apart as checksums would. One artifact stands for the private
  files of a generation. The file lock around pointer and collection is subsumed by the build lock.
  Collection removes all it may in one step; `active` is any set of generations that heartbeats name.
* `TxDelta`. PostgreSQL's rows are `nodes` and `edges`, restored by `saved`. A statement does its DML
  and then its record calls one by one; any of them may fail, and the statement's error leaves those
  before it in the delta until the rollback (`failed`).
* `LayeredProjection`. `rows` is the source table, `log` the committed entries above the manifest's
  watermark; `base`, `chunks` and `segments` are the artifacts the manifest names, each giving edges
  their stored weight. `Ingest` is `ingest_committed_rows_locked`: `EdgeRows`, `Normalize`,
  `SegmentOf`. A read is `OutView` or `InView` of one edge: `Durable` (what `LayeredBuilder` has after
  all segments), `Replaced` (base or covering chunk) and `Layered` (`finish_direction` and the merge).
  `CompactSegments` is the one branch of `compact_generation`, and a failure of it changes nothing. The
  other one is a chunk rewrite: `StartRewrite` chooses the ranges (`DirtyRanges`), `WidenRange` is one turn of
  the loop of `expand_dirty_ranges`, with the ranges so far in `expanding`, and `FinishRewrite` writes and
  publishes the chunks. `Unsettled` are the chunks that the loop does not pass over; it takes the first
  of them, as the manifest lists chunks by their start. Writers go on meanwhile, whoever needs the build
  lock does not (`BuildLockFree`). `AbandonRewrite` is an error or a kill. `RowWeights` includes NULL: such an
  edge is built with weight 1, replayed without one, and gets the 1 when a chunk is written
  (`WeightInChunk`). The relationship identity of a row is part of its edge, as in `EdgeKey`.
* `CacheProvenance`. `Enter` is `with_panic_boundary`; `ChangeBase` stands for each place that calls
  `prepare_backend_replay` and `mark_backend_replay`; whether PostgreSQL finds a stamp visible to a
  fixed snapshot is an input. A savepoint starts between entry points here, not inside one as PL/pgSQL
  or SPI could have it; the marks are by level either way.
* `ResumableSearch`. `machine` is the Rust state machine, `machine.state` its enum. `Materialize` cuts
  the next batch of candidates, up to a page of rows and a number of distinct keys, and suspends;
  `Admit` resolves the keys that the statement has not asked about before and applies the verdicts.
  Both check the epoch first, and so does `Finish`; `Reject` is that check failing. The
  epoch of the model moves with every change; that of the code is a tuple of counters, ids and counts, which
  could only coincide by accident. Which items are
  hidden is chosen by PostgreSQL as they are asked for, once per statement. A hidden node also stands
  for one skipped as tombstoned, of another tenant or filtered out. A node at the depth limit never
  enters the frontier; stale heap entries of Dijkstra are skipped inside the step that meets them.
  The sequence numbers that pair a verdict with its batch are abstracted: `machine.batch` is the batch
  the verdicts are for. `with_source_policy_guard` already refuses graph calls from inside a
  policy, so `ChangeProjection` exercises the second line of defence.
* `BuildJobs`. `row` is the committed job row with whether its generation is published, `caller` the
  transaction that inserted it, `worker.pc` the place in the worker's main function. `run`, `build` and
  `published` are one transaction: its updates of the row appear when it ends. A Rust `Err` still
  commits that transaction (`ReturnErr`), and the failure is recorded in the next (`RecordFailure`); a
  PostgreSQL ERROR or a crash is `KillWorker`, and so is an `Err` from recording the failure
  (`admin.rs:2551`), which leaves the same running row.
* `JobScheduler`. `tx[x].pc` is the next SQL statement of a process, `buf` its uncommitted row versions,
  `locks` its row locks with strengths 1 to 3 for KEY SHARE, NO KEY UPDATE and UPDATE, of which two
  conflict when they add up to more than 3. An UPDATE that waited sees the newest committed version.
  `EndsWithErr` has the difference between the runners: `err.report()` aborts a session's transaction,
  a background worker commits. The detector of PostgreSQL resolves wait cycles (`DeadlockAbort`), any
  statement may be cancelled. Each alteration changes one setting; a policy is added with its
  defaults; of several idle sessions the first makes the call.

## Runs

Deadlock is checked in all of them except `jobs`, where users may stop calling: a backend can always
begin or end a transaction, or rebuild, and a search that can take no step before it has returned is
an error.

| run | bounds | what it shows |
|---|---|---|
| `cache_provenance` | 3 changes, 2 nested savepoints | `RolledBackNeverServed`, `FixedChangesDoNotEscape`, `TrustedBaseCommitted`, and the inductive invariant that is proved |
| `sync_replay` | 2 backends that both write, 3 log rows, 3 xids, 2 publications, batches of 1 row; one backend publishes and prunes, the other reads, also under fixed snapshots | out-of-order commits, own uncommitted rows, rollback, a generation swapped under the reader, pruning against its old snapshot: `NoGap`, `NothingInvisible`, `NoReplayTwice`, `PublishedComplete`, `PrunedRowsCovered`; replay makes for the target it read once, and no further, although both go on writing (`ReplayReachesTarget`) |
| `tx_savepoints` | 3 deltas, 4 savepoints, a one-bit revision | `ImplementsStack`, `RevisionMovesWithDelta` |
| `tx_delta` | 2 node keys, 2 relationship rows, 2 savepoints, limits 3 and 4, bidirectional | `OverlayMatchesSource` from every projection of every consistent set of rows; a limit is reached by net-neutral pairs |
| `publication` | 2 publishers, of which one collects and the other resets, a third backend with fixed snapshots, 3 attempts, 3 xids | `VisibleHeadsLoadable` up to a reset and `ResetKeepsFiles` after it, `CandidateUnreserved`, `NoLostPublication` |
| `layered_projection` | 2 nodes, rows from both to the second, 2 rows, weight 0 and NULL, 3 changes, batches of up to 3, thresholds 0 and 1 | `NoLostEdge` with duplicates that are suppressed, `LayersOrdered` through rewrites turn by turn; `CompactionKeepsView` for merged segments and first chunks; a batch that changes no row twice keeps the layered read equal to the source table (`IngestStaysExact`) |
| `resumable_search` | every subset of 8 relationships among 4 nodes, 36 requests, 3 items that may be hidden, one change of the projection | a paged traversal returns what the eager one does (`SearchMatchesEager`) and what the definition of distance says (`SearchIsExact`, of `TraversalComplete` and `PathIsShortest`); `OnlyVisibleExpanded`; `SearchTerminates` |
| `jobs` | 2 builds, 2 policies, 2 sessions, 1 background pass, 2 worker slots, 2 calls, 2 polls, a clock of 2 ticks | `JobRowMatchesPublication`, `PolicyMirrorsJob`, `OneRunPerDueDate` (of `OneApplier` and `DueWhenApplied`), `RunsKeepSettings`, `VisibleJobSettles`, `EverythingEnds`, `SlotsConserved` |
| `publication_fixed_recovery`, `tx_overlay_reload`, `layered_deletes`, `rewrite_ends` | as small as the trace allows | the findings |

The bounds are enough for the hazards: one log row out of order needs two writers, one of which may be
the reader; a batch limit needs two rows for batches of one, and a replay that chases the log an id
above the target; a build beside an open writer needs two writers and itself. An ingest past an open writer
takes a fourth xid, for the generation it starts from; `SyncReplay.cfg` with 4 xids and 2 log rows has 4 million
states and passes as well, and `GenerationsComplete` proves the case; a pruned row that matters needs a generation, a later
generation and an older snapshot; a reused generation id needs an interrupted attempt and two more;
a superseded segment needs a build, an ingest and a compaction. In `LayeredProjection` an edge's state
depends on one row and its two endpoints, so two nodes distinguish all cases of direction and let
a chunk cover more than a segment does; three changes delete, insert and redirect a row. Rows to one
target only (`Targets`) lose no case of these: a redirected row changes its source, and the incoming probe of
an edge between different nodes and of a loop differ.

The graph of `resumable_search` has two routes of different length and of different cost between the
endpoints, a shortcut that loses by cost, a cycle, parallel relationships and one that the filter
excludes; pages of one and two rows suspend in the middle of a node's relationships, key budgets of one
and two in the middle of a page, and the requests let each of the limits on depth, nodes and frontier
bind. In `jobs` two calls are enough for every race of two statements on one policy, because adding
the policies is not counted, and a background pass beside a session covers both
runners; two builds compete for the build lock and, with the pass, for two slots; two polls allow the
row to appear before, between and after them. Each property is broken by the mutant listed for it, so
that none holds merely because the bounds exclude its case.

## Findings

* `publication_fixed_recovery`: a backend whose replacement was interrupted before it wrote any file
  keeps the marker (expected g, candidate g+1). Another backend publishes g+1. If the first backend's
  next graph statement runs under a REPEATABLE READ snapshot taken before, it still sees g, takes
  the build lock and deletes the published files of g+1. Collection refuses to act under a fixed
  snapshot; this cleanup does not.
* `tx_overlay_reload`: in READ COMMITTED, a generation published between a statement's load and its
  DML is loaded by the next statement of the transaction, and the temporary index of a node it
  created then denotes a node of the new generation. Only provisional labels pin the projection.
* `layered_deletes`: every projection row carries its own sync id as generation, so the grouping of
  `normalize_committed_mutations` never joins mutations of different entries. A row that is inserted
  and deleted in one batch leaves both in one segment, whose inserts are applied last: the edge is
  shown until the next rebuild.
* `rewrite_ends`: a chunk rewrite widens its dirty ranges to the chunks they overlap. It passes over a chunk
  only if the one overlapping range is the chunk's own (`chunk.rs:487`). If the dirty range strictly
  contains the chunk, as [0,2) does the chunk [0,1) of a rewrite of node 0, joining them gives the dirty range
  again: the loop marks a change and starts over, for ever. It counts against no budget
  and asks for no interrupt, and the build lock stays taken until the backend is killed, although
  `projection_compact` is documented as "one bounded compaction pass" (`sync-internals.mdx:349`). The
  safety properties hold through such a rewrite because it never publishes.

The models show more departures of the same kind. They have no run of their own; each appears when a
bound or a condition of a passing run is lifted as stated, and each was read back in the code.

Layered reads (`LayeredProjection.cfg`, changed as stated):

* An UPDATE of the weight alone is a delete and an insert with one `MutationKey`; `cancels_pair` drops
  both (`normalize.rs:207`) and the watermark passes the entry. The docs promise that "later
  generations cannot silently omit a committed source-table change" (`sync-internals.mdx:422`).
  (Two weights; compare the weight that `OutView` gives for a row with the row's.)
* The incoming map is filtered against the outgoing base (`layered.rs:2882`). Swapping the endpoints
  of an unweighted row hides its edge from a traversal that arrives from the target. (The invariant
  `\A x \in Edges : InView(x) = OutView(x)` with both nodes in `Targets`, `Weights = {}` and batches of 1.)
* An unweighted edge of the base that is deleted, chunked away and inserted again is dropped as a
  duplicate of the base edge that the chunk hides (`layered.rs:2923`). (`NoLostEdge` without its
  condition, `Weights = {}`, batches of 1, 4 changes and thresholds `{1}`.)
* A rewrite that overlaps an earlier chunk takes over the chunk's whole range (`chunk.rs:449`), but has
  materialized only its own (`compact.rs:1556`); the edges of the rest are gone.
  (`CompactionKeepsView` without `chunks = {}`, 4 changes, thresholds `{1}`.)
* Compaction of segments compares the view with the base CSR (`compact.rs:1513`), so the deletion of an
  edge that only a chunk holds is forgotten and the edge comes back. (The same with one node, also
  in `Targets`, no weights and thresholds `{0, 1}`.)
* A NULL weight is built as 1 (`persisted_edge_scanner.rs:162`) and replayed as none. A weighted read leaves
  such an edge out (`layered.rs:931`) until a chunk gives it 1 (`edge_store.rs:847`), although "Missing per-edge
  weights in a weighted store default to cost `1`" (`traversal-search-paths.mdx:149`). A weight of 0 is
  built as 1 as well and replayed as 0. (The invariant that `OutView` of a row's edge is never `NoWeight`, with
  weights.)

The passing run bounds its claims to what these leave: `NoLostEdge` and `CompactionKeepsView` where no
earlier chunk is left, `CompactionKeepsView` with the default weight of a first chunk, and `IngestStaysExact` for
batches that change no row twice. That both directions of a read agree is not claimed at all.

Publication: "Both reset forms retain immutable files for transactions that can still see the previous
publication" (`build-and-persistence.mdx:401`). They do not if a first build was interrupted before (expected
no generation, candidate 1). Another backend publishes generation 1, a third takes a REPEATABLE READ
snapshot, the second resets the graph: the head is absent again, as the marker of the first expects
(`runtime.rs:750`), and its cleanup removes the files of generation 1 that the snapshot still sees. (The
invariant `\A b \in Backends : Published(View(b)).gen # 0 => Loadable(Published(View(b)))` in the run `publication` with
`Collectors = {}`: 18 states.) `ResetKeepsFiles` excepts this one step and `VisibleHeadsLoadable` stops at
a reset. The passing run has no publisher with fixed snapshots, which is the case of
`publication_fixed_recovery`.

Jobs, where the actions of `BuildJobs` and `JobScheduler` show directly what the code does:

* "If worker launch fails, the job row is marked failed" (`build-and-persistence.mdx:82`): the same
  call then reports the error, which rolls the row back (`LaunchFails`).
* Progress phases and `running` are written in the worker's one transaction, so `build_status` shows
  `queued` until the build has ended (`RunBuildJob`; `build-and-persistence.mdx:284`).
* A caller that commits after the worker has stopped polling leaves a row that is queued for ever
  (`CallerCommits` after `Expire`); nothing starts it again, and `run_scheduled_maintenance` queues another
  job at each tick without looking for one that waits.
* An error after publication commits the publication while the job is recorded as failed (`ReturnErr`).
  `JobRowMatchesPublication` is therefore about completed, queued and unseen rows.
* A failed run in a session rolls its own `_job_runs` row back (`EndsWithErr`), although a run "records the
  result in `graph._job_runs`" (`sync-and-maintenance.mdx:360`).
* A due job that fails ends the pass, and being still the oldest it is the first of the next pass: later
  jobs wait behind it (`NextJob`, `DueGenericJobRows`; `admin.rs:5416`). Failed runs are counted over the
  life of the job, so after `max_retries` of them each failure is permanent (`admin.rs`,
  `failed_attempt_count`).
* A completed run sets `next_run_at` from the interval it read at its start, over the date that an
  alteration has set in between (`NewVersion`; `admin.rs:5153`). `RunsKeepSettings` is therefore about
  `enabled` and the interval itself.

Search, within what `TraversalComplete` says: a traversal that has found exactly `max_nodes` nodes reports
that it was capped even when there are no others; depth-first search with a depth limit may miss nodes
that a shorter route would reach within it, since it visits each node once.

## Fairness

The code retries little by itself (a busy lock is an error to the caller), so the liveness properties
are about single statements and workers.

* `SyncReplay`: none. That `apply_sync` ends is stated as a bound on each of its steps (`ReplayReachesTarget`):
  a batch that is not the last raises the watermark, and none goes past the target that was read once.
  A liveness property would be satisfied by the bound on the log alone.
* `LayeredProjection` (the run `rewrite_ends`): weak fairness of `WidenRange` and `FinishRewrite`. The backend
  that rewrites keeps running; a turn of the loop that changes nothing is no progress.
* `ResumableSearch`: the backend that executes the statement keeps running. Weak fairness of the
  search steps is written out with `Searching` in the place of their `ENABLED`, which TLC would
  evaluate by computing every batch again; a state in which the two differ is a deadlock, which the run
  excludes.
* `JobSystem`: weak fairness of `Progress`, the disjunction of all steps of workers and sessions that
  are in the middle of something, and of the deadlock detector. No process is favoured. Nothing is
  assumed of callers' commits, kills, cancels or the clock; a step is always possible for
  some process of a wait because try-locks are never waited for and cycles of row locks are broken.

## Proofs

Each theorem holds for every value of the constants that the assumptions of its module allow: any set
of backends, jobs or nodes, any batch size and any bound. The bounds stay in the guards, so the theorems
speak about every bounded instance, not about an unbounded one; no argument uses how large they are.
The inductive invariants hold on small instances under TLC as well, that of `TxDelta` with the indexes
and identities cut to those in use and on smaller bounds than its run.

`CacheProvenance_proofs` (any set of changes, any nesting depth, `MaxDepth \in Nat`). The safety
properties are not inductive: they speak of moments when a statement is served, and say nothing of
how a later rollback is noticed. `IInv` adds that a live change in the base is covered by a mark at
its savepoint level or the base is already flagged (`LiveMarked`), that a dead or fixed-snapshot
change is in the base only while the flag is up (`DeadFlagged`), that under a fixed snapshot a live
change is remembered by the provenance (`FixedRemembered`), that no mark lies above the current
depth, and that no stamp is pending between transactions. Release moves a mark and the change's level
down together; rollback turns a mark into the flag; the end of the transaction turns a non-commit, or
a change under a fixed snapshot, into the flag. `Invariance` is proved with one step per action;
`RollbackSafety`, `FixedSnapshotSafety` and `TrustedBase` follow from it.

The last part of `TxDelta_proofs` is about `TxSavepoints` (deltas of any kind, any depth, a revision of at
least two values, which `WrapAssumption` says and only this part uses). `TxTypeCorrect` includes
that snapshots never outnumber open savepoints; `SavepointRefinement` maps each open level to its snapshot, or to the present delta when it has none, and shows each step to be a step or a
stutter of `SavepointStack`; `RevisionSafety` is an action property and rests on `BumpMoves`.

`SyncReplay_proofs` (any roles of any backends, any batch size). The invariants of the run, `HeadsGrow` (a later
generation holds what an earlier one does and has a greater id; proved without a run of its own),
`NoReplayTwice` and `ReplayReachesTarget` follow from one inductive invariant. Its parts, and why each is needed:

* `TxOwned`, `TxSnaps`: an xid belongs to one running transaction, and below a snapshot's `xmin` nothing
  runs. `LogOwned`, `HeadsOwned`: an undecided log row has a writer that holds the shared lock, an
  undecided generation or prune mark the holder of the build lock. So the capture fence, and the barrier
  of a build, leave no undecided row of anybody else (`FencedDecided`).
* `HeadComplete`: up to the watermark of a generation *no transaction is still running*, besides what
  `PublishedComplete` says. This is the fact that makes a scalar watermark sound; it survives commits
  and aborts since an id below the watermark is never drawn again. `EngineComplete` is the same for an
  engine that was not changed under a fixed snapshot; one that was is only complete for its own view,
  and `CacheStatus` sees to it that it is dropped with its transaction.
* `ViewsClosed`: whoever sees a generation sees all changes in it and, above its watermark, that their
  rows are pruned. A build that runs after a prune puts the watermark at the largest id that is
  *left*, so a generation may hold changes above its watermark; that they are not replayed twice needs
  exactly this (`EngineVisible`, `BatchNew`).
* `PrunedKept`, `Covering`: a pruned row is in some generation that every view sees, and a backend in
  the middle of a replay already has it. The removal horizon of `historical_generations_required` gives
  the first (`Horizon`, `SettledHead`): no snapshot considers the head's transaction to be running, so all
  see it. The second covers the batches of one `apply_sync`, between which rows vanish.
* `IngestReady`: between its start and its capture an ingest keeps a generation to start from.

`StepKeeps` collects what a step of one backend that ends no transaction must show; one lemma per action
discharges it. The end of a transaction is the hard one, since it changes what every other backend
sees: `EndViews`, `EndKeepsHeads`, `EndKeepsOther` (the other caches) and `EndKeepsOwn` (the cache whose
stamp is being decided) take it apart.

`Publication_proofs` (any publishers, resetters, collectors and fixed backends; any attempts). The build
lock is held to the end of the transaction, so the undecided versions of the head row, the replacement
under way and the files it creates all belong to its holder (`HeadsOwned`, `JobsLocked`); with it
`CandidateNeverBlocked` and `PublicationsChain` need no assumption about isolation levels.

The other two parts of the module are about the files and assume `Fixed \cap Publishers = {}`, without which both
theorems are false (the run `publication_fixed_recovery`). `PublishedFilesStay` is about the current
generation. `VisibleFilesStay` is `VisibleHeadsLoadable`: about what every transaction sees, with readers,
collectors and resetters that keep old snapshots. For those `SInv` says of the heads a snapshot sees (`Sees`):

* Unless the graph was reset since, none of the heads committed or undecided is older than the newest seen
  (`Ahead`), and heads derive from smaller ids (`Ascending`); so neither a candidate nor the marker of an
  interrupted attempt whose expected head is still current has the id of the generation that is seen, and
  cleanup spares what its manifest references (`Kept`, `Spares`).
* Collection runs only once every snapshot sees its head, because the head's xid is below the removal horizon
  (`Horizons`, `historical_generations_required`), and it keeps that head's files.

A reset breaks `Ascending`, and with it the claim; `ResetKeepsFiles` says what is left of it, to TLC only.

`JobSystem_proofs` (any jobs, sessions, runs, slots, intervals and retry budgets; the set of jobs is
finite, as a table is, and the markers for absent rows and values, `NoRow`, `Dropped` and `Null`, are none
of the rows, intervals or processes). Two row locks of a row never add up to more than 3,
so a process that has written a version or selected a job FOR UPDATE can rely on the committed
version it has read until it ends (`Writes`); what it writes comes in pairs (`Paired`). `OneRun` needs in
addition that the advisory lock is held from before the run's row is inserted. `SlotsNeverLost` counts the
free slots and the workers that have yet to exit.

`LayeredProjection_proofs` (any number of nodes, any keys, weights, thresholds and batch sizes). `IInv`
adds to the types, `LayersOrdered` and `NoLostEdge`:

* `LogIds`: the pending entries carry the ids from the watermark to the newest one without a gap, and
  each leads to the image that the row's next entry starts from. With it a batch is followed entry by
  entry through the images of one row, `RowAt(k, p)`: if the row has an edge after the batch, the entry
  that last gave it this edge leaves an insert that nothing cancels, or the edge was there before and no
  entry deletes it (`EdgeArrives`, from the least point after which it has the edge throughout). The ids of a batch lie above the
  watermark and so above those of all segments: the new segment is the newest one and decides about
  every edge it mentions (`IngestedSegments`).
* `SegmentsShaped`: a segment's header covers the sources of its edges. So an edge whose source is not
  dirty is in no segment, and a merged segment reads like the ones it replaces (`CompactReads`).

* `RangesFine`: the ranges of a rewrite under way are disjoint, each segment lies inside one of them, and without
  earlier chunks they hold dirty sources only. Each turn of the loop keeps it: the first chunk and the ranges
  that overlap it become one range that no other overlaps. So a rewrite that ends leaves disjoint chunks
  (`LayersStayOrdered`, with whatever earlier chunks), and one without earlier chunks loses nothing.
  That fails as soon as there are chunks (the departures under Layered reads), and
  `CompactionKeepsView` and `NoLostEdge` say so. That a rewrite ends is not claimed; it need not.

No theorem assumes anything about weights. `IngestExact` uses that n keys among n entries are a key each: every
row then has one entry in the batch at most, and what it deletes no other entry of the row inserts.

`TxDelta_proofs` (any finite sets of keys and rows, any limits and depth, one direction or two; `NoId` is
no identity, and the empty delta of `TxSnapshots` is `NewDelta`). `OverlayMatchesSource` says nothing of a
rollback to come, nor of a delta whose statement failed halfway. `IInv` therefore says of the present
delta and of what each open savepoint would restore (`Restored`: its snapshot or, if it has none, the
present delta) that it is within the limits (`DeltaOK`) and shows the rows that PostgreSQL would restore
at that level (`Shows`); and after a failed statement every open level has a snapshot, so that no
rollback falls back on the half-recorded delta. Why each record call keeps it:

* Temporary indexes and identities lie past those of the base (`DeltaShape`), so a new relationship meets
  no tombstone that covers it, and what `record_added_edge` takes back or `record_deleted_edge` removes
  never lets an arc of the base show through that should not.
* In `Shows` a row has one live index and one identity; hence DELETE by identity hides the arcs of its
  row and no parallel ones.
* The tombstones of DETACH DELETE carry no identity and cover parallel relationships. All of these touch
  the node that the statement's last call removes, whose relationships are hidden anyway.

The delta after n record calls is a recursive function (`Trail`). That it exists, and what holds along
it, is proved by `UpTo`, induction over an interval as a fact about a set of numbers.

`ResumableSearch_proofs` (any relationships, any requests with a positive page and key budget, any items
that may be hidden and any verdicts). `SearchTypes` is about types, budgets of pages and batches, and the
agreement of depths with parents; `NothingHiddenRead` is `OnlyVisibleExpanded`. That one is not inductive:
a node in a frontier that is merely not hidden *so far* might be hidden by a later verdict. `IInv` says that
whatever waits to be read was shown or cannot be hidden (`Settled`). This set only grows, so a machine that is
good for it stays good while verdicts arrive (`MachineGrows`, `ResolveSettles`). What each machine needs
besides:

* The endpoints of a path search are asked for over several batches, and those answered are in the set
  unless one was hidden (`EndpointsOK`); the batch in hand is the next stretch of them. A search from both
  ends already holds its endpoints in its frontiers meanwhile, so only once both are answered must
  frontiers lie in the set (`BothOK`), and what is left of a level never exceeds its frontier (`BothLevels`).
* The heap of Dijkstra's search is finite and so has a least entry (`LeastIs`).
* A batch is admitted by induction along it (`VisitKeeps`, `ReachesKeep`): each candidate that passes was
  decided in the same step. Pages and batches fit their budgets (`FilledIs`, `TakenIs`, `BatchIs`).

Each operation is a lemma that leads from a good machine to a good machine (`MaterializedKeeps`,
`AdmittedKeeps`), whatever the statement around it does; the actions follow from these two.

Some definitions were put in a form that can be reasoned about, without changing what they say:
`Retained` of `Publication` counts manifests above an id instead of recursing over the newest ones;
`DueGenericJobRows` is the set of all answers that `ORDER BY next_run_at` allows, ties included; the
arms of `AfterUpdate` are disjoint; `Trail` lists the deltas along a statement's record calls, and `DetachDelete`
numbers its calls by position instead of folding over the incident rows; `Ascending` lists the elements of
a set by their rank; the machines after each candidate of a batch are recursive functions (`Visits`,
`Reaches`) instead of folds.

Only model-checked: `SearchMatchesEager` and `SearchIsExact` of `ResumableSearch`; every liveness property (`SearchTerminates`, `VisibleJobSettles`,
`EverythingEnds`); `ResetKeepsFiles`. Liveness, `ENABLED` and what a recursive
definition computes for every input are out of the prover's reach: its induction theorems take an operator
as a parameter. Single facts by induction are possible where they can be said of a set: `FiniteExtrema`
takes a smallest counterexample among the subsets of a finite set, `UpTo` the smallest among numbers. The
two properties of searches that are left compare a machine with recursive searches of the whole graph;
they would need what such a search computes for every graph.

## Not modelled

* In `SyncReplay` and `Publication` a log row, a segment or a file is an identity. The edges of one
  relationship table are followed into segments by `LayeredProjection`; nodes, filters and tenants are
  not.
* `LayeredProjection` leaves out bidirectional mappings (a second, reversed edge per row), dynamic
  labels, changes of a row's key, rows with a NULL endpoint, node visibility, budgets and the
  backend-local overlays. Its endpoint nodes exist throughout.
* `SyncReplay` has no `reset()`, no savepoints inside a replaying transaction (they are in
  `CacheProvenance`) and no catalog changes; one graph, one artifact root.
* `Publication` has no savepoints inside a publishing transaction, no `projection_repair()` and
  quarantined manifests, no temporary files and sidecars. Artifacts of an interrupted attempt that
  has no manifest are never collected by the code; that is a leak, not a safety matter.
* `TxDelta` leaves out filter values, tenants, weights, provisional labels and `SET`. The memory limit
  is a bound on identities and a failure that may happen at any record call. Its revision is fixed
  (`MaxRevision = 0`); `TxSavepoints` is about the revision.
* `recover_aborted_replay` refuses to run while provisional labels exist; the statement then fails and
  serves nothing, which the models cover by not entering.
* PREPARE TRANSACTION occurs in `CacheProvenance` only.
* `ResumableSearch` leaves out memory and work budgets, edge-label wildcards, variable-length GQL
  expansion and the formatting of paths. A traversal with `max_depth` 0 goes through the machine here;
  the SQL function answers it without one. The probe queries of `visibility.rs` are an
  oracle; connected components are a sequential union-find.
* `JobSystem` has one `max_retries` for all jobs and no `max_runtime_secs`, which the code stores and
  enforces nowhere; removal of jobs by dropping their graph, quotas and the decision of
  `run_scheduled_maintenance` are left out. What a build publishes is the subject of `Publication`, what a run
  replays that of `SyncReplay`.
* The resource governor, engine stores and the external sort are sequential and local to one backend or
  one transaction. Where they fail, the operation that uses them fails, and the models let it fail at
  any step. Parsing, binding, formatting and byte layouts have no state of several actors.

## Plan

1. Done: cache provenance and savepoints with their proofs, sync replay and retention, the transaction
   delta, publication, the edge path of durable projections, resumable search, background builds and
   the job scheduler; liveness of searches and of jobs.
2. Done: proofs of every safety property of `CacheProvenance`, `TxSavepoints`, `TxDelta`, `SyncReplay`,
   `JobSystem`, `LayeredProjection` and, within the limits above, `Publication`; types and visibility of
   `ResumableSearch`. Open: its `SearchMatchesEager` and `SearchIsExact`.
3. The node path of durable projections: ingest planning of node indexes, node segments, tenants;
   bidirectional mappings.
4. Liveness: a marker is eventually cleared when its backend goes on.
