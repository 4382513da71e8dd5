------------------------------- MODULE SyncReplay -------------------------------
(***************************************************************************)
(* Trigger synchronisation of pgGraph across PostgreSQL backends.          *)
(*                                                                         *)
(* Source triggers append to graph._sync_log under a shared transaction    *)
(* lock; ids come from a sequence, so id order is not commit order.  A     *)
(* backend replays the log into its own engine up to a scalar watermark    *)
(* (applied_sync_id), or a publisher folds the log into a new durable      *)
(* generation that the other backends load; pruning deletes rows that      *)
(* every consumer can do without.  The model keeps PostgreSQL's visibility *)
(* rules: READ COMMITTED statements see what is committed now, REPEATABLE  *)
(* READ transactions see what was committed at their first statement, both *)
(* see their own writes, and the removal horizon is the oldest xid any     *)
(* live snapshot still considers running.                                  *)
(***************************************************************************)
EXTENDS BackendCache, PgTransactions, FiniteSets

CONSTANTS
    Sources,       \* backends that write source tables
    Readers,       \* backends that query and replay
    Fixed,         \* backends that may use REPEATABLE READ
    Publishers,    \* backends that build and ingest
    Pruners,       \* backends that prune the log
    MaxLog,        \* bound on rows of graph._sync_log
    MaxHeads,      \* bound on publications
    BatchSize      \* graph.sync_batch_size

ASSUME BoundsAssumption ==
    /\ MaxLog \in Nat /\ MaxHeads \in Nat
    /\ BatchSize \in Nat \ {0}
    /\ Sources \cup Readers \cup Fixed \cup Publishers \cup Pruners \subseteq Backends

VARIABLES
    log,        \* graph._sync_log: id -> [own, del], the xids that wrote and pruned it
    heads,      \* versions of the graph._projection_heads row, in publication order
    floors,     \* versions of graph._graphs.sync_log_pruned_before_id
    pc,         \* backend -> where its SQL statement is
    target,     \* backend -> high watermark read by the running apply_sync
    writers,    \* backends holding the shared writer lock
    fence,      \* backend holding the session-level capture fence
    barrier,    \* backend holding the exclusive writer barrier of a build
    buildLock,  \* backend holding the build/publish transaction lock
    cache       \* backend -> its cache, a record of BackendCache

dbVars   == <<log, xact, heads, floors>>
lockVars == <<writers, fence, barrier, buildLock>>
vars     == <<dbVars, txVars, pc, target, lockVars, cache>>

----------------------------------------------------------------------------
\* What the code reads through SQL.

Ids == 1..Len(log)

RowVisible(i, view) == log[i].own \in view /\ log[i].del \notin view

\* Faulty: the next id instead of the largest.
NextSyncLogId(view) == 1 + Max({0} \cup {i \in Ids : RowVisible(i, view)})

\* max_sync_log_id_direct_for_oids: COALESCE(max(id), 0) over the rows still there.
MaxSyncLogId(view) == Max({0} \cup {i \in Ids : RowVisible(i, view)})

\* sync_log_pruned_before_id
PrunedBefore(view) == Max({0} \cup {f.floor : f \in {g \in floors : g.xid \in view}})

\* publication::current: the visible version of the head row, if any.
VisibleHeads(view) == {k \in 1..Len(heads) : heads[k].xid \in view}
NoHead == [xid |-> NoXid, gen |-> 0, wm |-> 0, rows |-> {}]
Published(view) == IF VisibleHeads(view) = {} THEN NoHead ELSE heads[Max(VisibleHeads(view))]

\* ensure_sync_replay_not_pruned: a cache that never applied anything is exempt.
ReplayNotPruned(applied, view) == ~(applied > 0 /\ applied < PrunedBefore(view))

\* Faulty: replays whatever is in the log by now.
UnappliedUnlimited(applied, limit, view) == {i \in Ids : RowVisible(i, view) /\ i > applied}

\* Faulty: id >= applied.
UnappliedInclusive(applied, limit, view) ==
    {i \in Ids : RowVisible(i, view) /\ i >= applied /\ i <= limit}

\* read_captured_sync_log_entries: the next rows in id order, at most BatchSize.
Unapplied(applied, limit, view) == {i \in Ids : RowVisible(i, view) /\ i > applied /\ i <= limit}
CapturedBatch(applied, limit, view) ==
    LET rows == Unapplied(applied, limit, view)
    IN  {i \in rows : Cardinality({j \in rows : j < i}) < BatchSize}

\* The engine of generation `head`, as load_graph_file restores it.
EngineOf(head) == [built |-> TRUE, gen |-> head.gen, applied |-> head.wm, rows |-> head.rows]

Install(c, x, eng) == [Replay(c, x, 0) EXCEPT !.eng = eng]

\* Faulty: keeps any resident engine.
ResidentAnyGeneration(c, view) == c.eng.built

\* ensure_engine_loaded_for_apply_sync, load_selected_graph_from_disk: keep the
\* resident engine only if it is the generation this snapshot sees published.
Resident(c, view) == c.eng.built /\ c.eng.gen = Published(view).gen
LoadPublished(c, x, view) ==
    IF Resident(c, view) THEN c
    ELSE IF Published(view) # NoHead THEN Install(c, x, EngineOf(Published(view)))
    ELSE DropEngine(c)

\* Faulty: the entry point does not recover the cache.
EnterUnrecovered(b) == cache[b]

\* with_panic_boundary and the load that follows it in every statement.
EnterStatement(b) == RecoverAbortedReplay(cache[b], iso[b] = "rr", StatementView(b))
Entered(b) == LoadPublished(EnterStatement(b), xid[b], StatementView(b))

----------------------------------------------------------------------------
Init ==
    /\ TxInit
    /\ log = << >> /\ heads = << >> /\ floors = {}
    /\ pc = [b \in Backends |-> "out"]
    /\ target = [b \in Backends |-> 0]
    /\ writers = {} /\ fence = NoBackend /\ barrier = NoBackend /\ buildLock = NoBackend
    /\ cache = [b \in Backends |-> NewCache]

Begin(b, level) ==
    /\ iso[b] = "none"
    /\ iso' = [iso EXCEPT ![b] = level]
    /\ UNCHANGED <<dbVars, xid, snap, pc, target, lockVars, cache>>

Idle(b) == iso[b] # "none" /\ pc[b] = "out"

\* The sync trigger of a source table: the shared lock is taken before the id is
\* drawn and is held to the end of the transaction.
WriteSource(b) ==
    /\ Idle(b)
    /\ fence = NoBackend
    /\ barrier \in {NoBackend, b}
    /\ Len(log) < MaxLog
    /\ AssignXid(b)
    /\ log' = Append(log, [own |-> XidOf(b), del |-> NoXid])
    /\ writers' = writers \cup {b}
    /\ KeepSnapshot(b)
    /\ UNCHANGED <<heads, floors, iso, pc, target, fence, barrier, buildLock, cache>>

\* A query with graph.query_freshness = 'off'.
Query(b) ==
    /\ Idle(b)
    /\ RegisterSnapshot(b)
    /\ cache' = [cache EXCEPT ![b] = Entered(b)]
    /\ pc' = [pc EXCEPT ![b] = "serve"]
    /\ UNCHANGED <<dbVars, iso, xid, target, lockVars>>

\* graph.apply_sync(), or a query with 'apply_pending_sync': first make sure the
\* engine is the published generation (NotBuilt otherwise) ...
ApplyBegin(b) ==
    /\ Idle(b)
    /\ RegisterSnapshot(b)
    /\ Entered(b).eng.built
    /\ cache' = [cache EXCEPT ![b] = Entered(b)]
    /\ pc' = [pc EXCEPT ![b] = "loaded"]
    /\ UNCHANGED <<dbVars, iso, xid, target, lockVars>>

\* ... then read the target, check the generation and the pruned floor again ...
ApplyTarget(b) ==
    LET loaded == LoadPublished(cache[b], xid[b], View(b)) IN
    /\ pc[b] = "loaded"
    /\ loaded.eng.built
    /\ ReplayNotPruned(loaded.eng.applied, View(b))
    /\ target' = [target EXCEPT ![b] = MaxSyncLogId(View(b))]
    /\ cache' = [cache EXCEPT ![b] = loaded]
    /\ pc' = [pc EXCEPT ![b] = "apply"]
    /\ UNCHANGED <<dbVars, txVars, lockVars>>

\* sync_capture::capture: no writer of another transaction is still running.  The
\* faulty one does not wait for them.
FenceIgnoringWriters(b) == fence = NoBackend /\ barrier \in {NoBackend, b}
FenceAvailable(b) == fence = NoBackend /\ barrier \in {NoBackend, b} /\ writers \subseteq {b}

\* ... and capture batches until none is left.  sync_capture::capture takes the
\* fence without waiting; BuildLocked is an error, so an Abort.
AcquireFence(b) ==
    /\ pc[b] \in {"apply", "ingest"}
    /\ FenceAvailable(b)
    /\ fence' = b
    /\ pc' = [pc EXCEPT ![b] = IF @ = "apply" THEN "applyFenced" ELSE "ingestFenced"]
    /\ UNCHANGED <<dbVars, txVars, target, writers, barrier, buildLock, cache>>

\* The snapshot is taken after the fence is held; the rows are copied, the fence
\* released, and the rows replayed one by one, each advancing the watermark.
ApplyBatch(b) ==
    LET view  == View(b)
        eng   == cache[b].eng
        batch == CapturedBatch(eng.applied, target[b], view)
    IN
    /\ pc[b] = "applyFenced"
    /\ ReplayNotPruned(eng.applied, view)
    /\ fence' = NoBackend
    /\ IF batch = {}
       THEN /\ pc' = [pc EXCEPT ![b] = "serve"]
            /\ UNCHANGED cache
       ELSE /\ pc' = [pc EXCEPT ![b] = "apply"]
            /\ cache' = [cache EXCEPT ![b] = Install(@, xid[b],
                            [eng EXCEPT !.applied = Max(batch), !.rows = @ \cup batch])]
    /\ UNCHANGED <<dbVars, txVars, target, writers, barrier, buildLock>>

\* A new generation id is above the published one; ids of candidates that were
\* never committed may be skipped or, once cleaned up, used again.
FreshGenerations(view) ==
    (Published(view).gen + 1)..(1 + Max({0} \cup {heads[k].gen : k \in 1..Len(heads)}))

\* publication::publish: the head row is written in the publisher's transaction.
Publish(b, gen, wm, rows) ==
    heads' = Append(heads, [xid |-> XidOf(b), gen |-> gen, wm |-> wm, rows |-> rows])

OwnRowsAfter(b, wm) == {i \in Ids : i > wm /\ log[i].own = xid[b]}

\* ingest_projection_until_internal up to its capture: publisher lock, READ
\* COMMITTED, a published generation, no rows of the own transaction.
IngestBegin(b) ==
    LET view == StatementView(b) IN
    /\ Idle(b)
    /\ iso[b] = "rc"
    /\ buildLock \in {NoBackend, b}
    /\ Published(view) # NoHead
    /\ OwnRowsAfter(b, Published(view).wm) = {}
    /\ AssignXid(b)
    /\ RegisterSnapshot(b)
    /\ buildLock' = b
    /\ cache' = [cache EXCEPT ![b] = EnterStatement(b)]
    /\ pc' = [pc EXCEPT ![b] = "ingest"]
    /\ UNCHANGED <<log, heads, floors, iso, target, writers, fence, barrier>>

\* The rest of the ingest: capture from the published watermark, release the
\* fence, fold the batch into a new generation, publish it and install it.
IngestPublish(b) ==
    LET view  == View(b)
        head  == Published(view)
        batch == CapturedBatch(head.wm, Len(log), view)
        load  == LoadPublished(cache[b], xid[b], view)
    IN
    /\ pc[b] = "ingestFenced"
    /\ ReplayNotPruned(head.wm, view)
    /\ fence' = NoBackend
    /\ pc' = [pc EXCEPT ![b] = "serve"]
    /\ \/ /\ batch = {}
          /\ cache' = [cache EXCEPT ![b] = load]
          /\ UNCHANGED heads
       \/ /\ batch # {}
          /\ Len(heads) < MaxHeads
          /\ \E gen \in FreshGenerations(view) :
                LET next == [head EXCEPT !.gen = gen, !.wm = Max(batch), !.rows = @ \cup batch] IN
                /\ Publish(b, gen, next.wm, next.rows)
                /\ cache' = [cache EXCEPT ![b] = Install(load, xid[b], EngineOf(next))]
    /\ UNCHANGED <<log, xact, floors, txVars, target, writers, barrier, buildLock>>

\* build_snapshot.rs: the SHARE locks of a build's boundary are taken without waiting
\* and fail beside an open writer; so do writes of the own transaction.  The faulty
\* boundary ignores them.
BoundaryIgnoringWriters(b) == fence = NoBackend /\ barrier \in {NoBackend, b}
BoundaryAvailable(b) == writers = {} /\ fence = NoBackend /\ barrier \in {NoBackend, b}

\* execute_build_inner: the boundary locks out every writer until the transaction
\* ends; the watermark is the largest id still in the log; persist decides whether
\* a head is published.
Build(b, persist) ==
    LET view == StatementView(b)
        wm   == MaxSyncLogId(view)
        rows == {i \in Ids : log[i].own \in view}
    IN
    /\ Idle(b)
    /\ iso[b] = "rc"
    /\ buildLock \in {NoBackend, b}
    /\ BoundaryAvailable(b)
    /\ AssignXid(b)
    /\ RegisterSnapshot(b)
    /\ buildLock' = b /\ barrier' = b
    /\ IF persist
       THEN /\ Len(heads) < MaxHeads
            /\ \E gen \in FreshGenerations(view) :
                /\ Publish(b, gen, wm, rows)
                /\ cache' = [cache EXCEPT ![b] = Install(EnterStatement(b), XidOf(b),
                                EngineOf([NoHead EXCEPT !.gen = gen, !.wm = wm, !.rows = rows]))]
       ELSE /\ cache' = [cache EXCEPT ![b] = Install(EnterStatement(b), XidOf(b),
                            EngineOf([NoHead EXCEPT !.wm = wm, !.rows = rows]))]
            /\ UNCHANGED heads
    /\ pc' = [pc EXCEPT ![b] = "serve"]
    /\ UNCHANGED <<log, floors, iso, target, writers, fence>>

\* Faulty: does not ask for the removal horizon.
RequiredByOwnSnapshot(b, head) == iso[b] = "rr" \/ head = NoHead

\* historical_generations_required: some live snapshot may not see the head.
HistoricalGenerationsRequired(b, head) ==
    iso[b] = "rr" \/ head = NoHead \/ OldestNonRemovable <= head.xid

\* prune_sync_log_if_safe: the floor is the durable watermark, lowered by any
\* unexpired heartbeat; heartbeats lag and expire, so any lower floor may come out.
Prune(b) ==
    LET head == Published(StatementView(b)) IN
    /\ Idle(b)
    /\ buildLock \in {NoBackend, b}
    /\ ~HistoricalGenerationsRequired(b, head)
    /\ AssignXid(b)
    /\ \E floor \in 1..head.wm :
        LET removed == {i \in Ids : i <= floor /\ RowVisible(i, StatementView(b))} IN
        /\ removed # {}
        /\ log' = [i \in Ids |-> IF i \in removed THEN [log[i] EXCEPT !.del = XidOf(b)] ELSE log[i]]
        /\ floors' = floors \cup {[xid |-> XidOf(b), floor |-> floor]}
    /\ buildLock' = b
    /\ cache' = [cache EXCEPT ![b] = EnterStatement(b)]
    /\ KeepSnapshot(b)
    /\ UNCHANGED <<heads, iso, pc, target, writers, fence, barrier>>

EndStatement(b) ==
    /\ pc[b] = "serve"
    /\ pc' = [pc EXCEPT ![b] = "out"]
    /\ KeepSnapshot(b)
    /\ UNCHANGED <<dbVars, iso, xid, target, lockVars, cache>>

\* The transaction callback of tx_delta.rs, then PostgreSQL drops the locks.
EndTransaction(b, outcome) ==
    /\ iso[b] # "none"
    /\ outcome = "commit" => pc[b] = "out"
    /\ FinishXact(b, outcome)
    /\ cache' = [cache EXCEPT ![b] = FinishReplayTransaction(@, outcome)]
    /\ pc' = [pc EXCEPT ![b] = "out"]
    /\ target' = [target EXCEPT ![b] = 0]
    /\ writers' = writers \ {b}
    /\ fence' = ReleaseLock(fence, b)
    /\ barrier' = ReleaseLock(barrier, b)
    /\ buildLock' = ReleaseLock(buildLock, b)
    /\ UNCHANGED <<log, heads, floors>>

Transaction(b) ==
    \/ Begin(b, "rc")
    \/ b \in Fixed /\ Begin(b, "rr")
    \/ \E outcome \in {"commit", "abort"} : EndTransaction(b, outcome)

\* The statements of the backends, as their roles allow.
Next ==
    \/ \E b \in Backends : Transaction(b) \/ AcquireFence(b) \/ EndStatement(b)
    \/ \E b \in Sources : WriteSource(b)
    \/ \E b \in Readers : Query(b) \/ ApplyBegin(b) \/ ApplyTarget(b) \/ ApplyBatch(b)
    \/ \E b \in Publishers :
          IngestBegin(b) \/ IngestPublish(b) \/ (\E persist \in BOOLEAN : Build(b, persist))
    \/ \E b \in Pruners : Prune(b)

Spec == Init /\ [][Next]_vars

----------------------------------------------------------------------------
EngineType == [built : BOOLEAN, gen : Nat, applied : 0..MaxLog, rows : SUBSET (1..MaxLog)]

\* Types of the shared database, the locks and every backend.
TypeOK ==
    /\ log \in Seq([own : Xids, del : Xids \cup {NoXid}]) /\ Len(log) <= MaxLog
    /\ TxTypeOK
    /\ \A k \in 1..Len(heads) :
          heads[k] \in [xid : Xids, gen : Nat, wm : 0..MaxLog, rows : SUBSET (1..MaxLog)]
    /\ floors \subseteq [xid : Xids, floor : 1..MaxLog]
    /\ pc \in [Backends -> {"out", "serve", "loaded", "apply", "applyFenced", "ingest", "ingestFenced"}]
    /\ target \in [Backends -> 0..MaxLog]
    /\ writers \subseteq Backends
    /\ {fence, barrier, buildLock} \subseteq Backends \cup {NoBackend}
    /\ \A b \in Backends : cache[b].eng \in EngineType

\* A served engine misses nothing: every source change its snapshot sees at or
\* below the watermark is in the engine, although ids commit out of order,
\* batches are bounded, rows are pruned and generations are swapped.
NoGap ==
    \A b \in Backends : pc[b] = "serve" /\ cache[b].eng.built =>
        \A i \in 1..cache[b].eng.applied :
            log[i].own \in View(b) => i \in cache[b].eng.rows

\* A served engine contains nothing its transaction may not see: no row of an
\* aborted or still running transaction of another backend, and under a fixed
\* snapshot nothing that committed after it.
NothingInvisible ==
    \A b \in Backends : pc[b] = "serve" =>
        \A i \in cache[b].eng.rows : log[i].own \in View(b)

\* Replaying never applies a source change that is already in the engine.
NoReplayTwice ==
    [][ \A b \in Backends :
          pc[b] = "applyFenced" /\ pc'[b] = "apply" =>
              CapturedBatch(cache[b].eng.applied, target[b], View(b)) \cap cache[b].eng.rows = {} ]_vars

\* apply_sync makes for the target that it read at its start, and stops there,
\* although the log grows and is pruned between its batches: each batch brings its
\* watermark nearer and none past the target, so there are no more of them than the
\* log had rows; and when it returns, every visible row up to the target is applied.
ReplayReachesTarget ==
    [][ \A b \in Readers : pc[b] = "applyFenced" =>
          /\ pc'[b] = "apply" =>
                /\ target'[b] = target[b]
                /\ cache[b].eng.applied < cache'[b].eng.applied /\ cache'[b].eng.applied <= target[b]
          /\ pc'[b] = "serve" =>
                \A i \in Ids : i <= target[b] /\ log[i].own \in View(b) => i \in cache'[b].eng.rows ]_vars

\* Whoever can still run a query can do without the pruned rows: each live
\* snapshot, and every later one, sees a published generation that holds them.
PrunedRowsCovered ==
    \A i \in Ids : log[i].del \in CommittedXids =>
        /\ i \in Published(CommittedXids).rows
        /\ \A b \in Backends : snap[b].xmin # 0 => i \in Published(View(b)).rows

\* A committed generation is complete up to its watermark and holds committed
\* changes only, so that loading it equals replaying the log up to there.
PublishedComplete ==
    \A k \in 1..Len(heads) : heads[k].xid \in CommittedXids =>
        /\ \A i \in heads[k].rows : log[i].own \in CommittedXids
        /\ \A i \in 1..heads[k].wm : log[i].own \in CommittedXids => i \in heads[k].rows

\* Publications never lose each other's changes: a later committed generation
\* holds everything an earlier committed one held.
HeadsGrow ==
    \A j, k \in 1..Len(heads) :
        j < k /\ heads[j].xid \in CommittedXids /\ heads[k].xid \in CommittedXids =>
            heads[j].rows \subseteq heads[k].rows /\ heads[j].gen < heads[k].gen
================================================================================
