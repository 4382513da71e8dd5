------------------------------ MODULE BackendCache ------------------------------
(***************************************************************************)
(* The backend-local graph cache: the resident engine of one PostgreSQL    *)
(* backend and the provenance that says whether it may outlive the         *)
(* transaction that filled it (graph/src/sql_sync.rs, the thread-locals    *)
(* ENGINE, CACHE_PROVENANCE, REPLAY_ABORTED, REPLAY_TRANSACTION_STAMP and  *)
(* REPLAYED_SUBTRANSACTIONS).  The engine is abstracted to the set of      *)
(* source changes whose effect it contains; a source change is named by    *)
(* the id of its row in graph._sync_log.                                   *)
(***************************************************************************)
EXTENDS PgXid

\* An empty REPLAY_TRANSACTION_STAMP.
Unset == -1

\* CacheStamp::Unknown, CacheStamp::Pending(stamp), CacheStamp::Committed(xid)
Unknown      == [kind |-> "unknown", xid |-> NoXid]
Pending(x)   == [kind |-> "pending", xid |-> x]
Committed(x) == [kind |-> "committed", xid |-> x]

Outcomes == {"commit", "abort", "prepare"}

\* Engine::new(): not built, no manifest generation, nothing applied.
EmptyEngine == [built |-> FALSE, gen |-> 0, applied |-> 0, rows |-> {}]

NewCache ==
    [ eng     |-> EmptyEngine,
      stamp   |-> Unknown,          \* CACHE_PROVENANCE.stamp
      fixed   |-> "notEntered",     \* CACHE_PROVENANCE.fixed
      aborted |-> FALSE,            \* REPLAY_ABORTED
      txStamp |-> Unset,            \* REPLAY_TRANSACTION_STAMP
      levels  |-> {} ]              \* REPLAYED_SUBTRANSACTIONS

\* REPLAYED_SUBTRANSACTIONS is a Vec<bool> indexed by savepoint depth; levels is
\* the set of depths that are set.  levels.truncate(depth):
Truncate(levels, depth) == {d \in levels : d < depth}

\* Faulty: forgets the marks of outer levels.
MarkLevelAlone(levels, depth) == {depth}

\* levels.resize(depth + 1, false); levels[depth] = true
MarkLevel(levels, depth) == Truncate(levels, depth) \cup {depth}

\* Once a fixed snapshot has been entered, any change of the base is remembered.
Touch(fixed) == IF fixed = "notEntered" THEN fixed ELSE "changed"

\* prepare_backend_replay: the xid is captured once per transaction.
PrepareBackendReplay(c, xid) ==
    [c EXCEPT !.txStamp = IF @ = Unset THEN xid ELSE @]

\* mark_backend_replay with CacheProvenance::mark_mutation
MarkBackendReplay(c, depth) ==
    [c EXCEPT !.levels = MarkLevel(@, depth),
              !.stamp  = Pending(c.txStamp),
              !.fixed  = Touch(@)]

\* Every change of the resident base is preceded by this pair.
Replay(c, xid, depth) == MarkBackendReplay(PrepareBackendReplay(c, xid), depth)

\* ENGINE = Engine::new() and runtime_state::clear_loaded_graph(), which also
\* clears the cache provenance.
DropEngine(c) ==
    [c EXCEPT !.eng = EmptyEngine, !.stamp = Unknown, !.fixed = Touch(@)]

\* enter_fixed_snapshot: vis is the set of xids visible to the snapshot.  The
\* cache is kept only when its stamp committed, nothing invalidated it before,
\* and the stamp's transaction is visible to the snapshot.
EnterFixedSnapshot(c, vis) ==
    LET visible == c.stamp.kind = "committed" /\ ~c.aborted /\ c.stamp.xid \in vis
    IN  IF c.fixed # "notEntered" THEN c
        ELSE [c EXCEPT !.fixed   = IF visible THEN "preserved" ELSE "changed",
                       !.aborted = ~visible]

\* recover_aborted_replay: runs at the entry of every SQL function.
RecoverAbortedReplay(c, fixedSnapshot, vis) ==
    LET e == IF fixedSnapshot THEN EnterFixedSnapshot(c, vis) ELSE c
    IN  IF e.aborted THEN [DropEngine(e) EXCEPT !.aborted = FALSE] ELSE e

\* Faulty: a released savepoint does not hand its mark to its parent.
FinishWithoutPromotion(c, depth, abort) ==
    [c EXCEPT !.aborted = @ \/ (depth \in c.levels /\ abort), !.levels = Truncate(@, depth)]

\* finish_replay_subtransaction
FinishReplaySubtransaction(c, depth, abort) ==
    LET dirty == depth \in c.levels
    IN  [c EXCEPT !.aborted = @ \/ (dirty /\ abort),
                  !.levels  = Truncate(@, depth) \cup
                              (IF dirty /\ ~abort /\ depth > 0 THEN {depth - 1} ELSE {})]

\* Faulty: ignores changes under a fixed snapshot; ignores invalidation.
DiscardsPendingOnly(c, outcome, invalidated) ==
    invalidated \/ (outcome # "commit" /\ c.stamp.kind = "pending")
DiscardsChangedOnly(c, outcome, invalidated) == c.fixed = "changed"

\* CacheProvenance::finish: whether the cache must be dropped.
Discards(c, outcome, invalidated) ==
    \/ invalidated
    \/ c.fixed = "changed"
    \/ outcome # "commit" /\ c.stamp.kind = "pending"

\* The stamp that survives the transaction.
FinalStamp(c, discard) ==
    IF discard THEN Unknown
    ELSE IF c.stamp.kind # "pending" THEN c.stamp
    ELSE IF c.stamp.xid = NoXid THEN Unknown ELSE Committed(c.stamp.xid)

\* finish_replay_transaction
FinishReplayTransaction(c, outcome) ==
    LET dirty   == c.levels # {}
        discard == Discards(c, outcome, c.aborted \/ (outcome # "commit" /\ dirty))
    IN  [c EXCEPT !.levels  = {},
                  !.aborted = discard,
                  !.stamp   = FinalStamp(c, discard),
                  !.fixed   = "notEntered",
                  !.txStamp = Unset]
================================================================================
