---------------------------- MODULE TxSnapshots ----------------------------
(***************************************************************************)
(* The backend-local transaction state of projection/tx_delta.rs: the      *)
(* current graph delta, the snapshots that a savepoint rollback restores,  *)
(* the subtransaction depth kept by PostgreSQL's callbacks, and the        *)
(* topology revision that resumable traversals compare.                    *)
(*                                                                         *)
(* A snapshot is not taken when a savepoint starts: the first write after  *)
(* it captures one for every level that has none.  What a delta contains   *)
(* is the business of the modules that extend this one.                    *)
(***************************************************************************)
EXTENDS Integers, Sequences

CONSTANTS EmptyDelta,    \* TxGraphDelta::default()
          MaxRevision,   \* the width of TX_TOPOLOGY_REVISION: u64::MAX in the code
          MaxDepth       \* bound on nested savepoints

ASSUME RevisionAssumption == MaxRevision \in Nat
ASSUME DepthAssumption == MaxDepth \in Nat

VARIABLES delta,      \* TX_DELTA; None reads as the default everywhere
          snapshots,  \* SUBTRANSACTION_SNAPSHOTS
          depth,      \* SUBTRANSACTION_DEPTH
          revision    \* TX_TOPOLOGY_REVISION

txVars == <<delta, snapshots, depth, revision>>

TxInit ==
    /\ delta = EmptyDelta
    /\ snapshots = <<>>
    /\ depth = 0
    /\ revision = 0

\* wrapping_add, by the number of record calls made.
Bumped(calls) == (revision + calls) % (MaxRevision + 1)

\* Faulty: only the innermost level is captured, outer ones as empty.
CapturedInnermost ==
    IF Len(snapshots) < depth
    THEN [i \in 1..depth |-> IF i <= Len(snapshots) THEN snapshots[i]
                             ELSE IF i = depth THEN delta ELSE EmptyDelta]
    ELSE snapshots

\* snapshot_active_subtransactions: levels without a snapshot share the delta as
\* it is now, for nothing was written since their savepoints.
Captured ==
    IF Len(snapshots) < depth
    THEN [i \in 1..depth |-> IF i <= Len(snapshots) THEN snapshots[i] ELSE delta]
    ELSE snapshots

\* ensure_write_capacity alone, as GQL statements call it before their DML.
ReserveCapacity ==
    /\ snapshots' = Captured
    /\ UNCHANGED <<delta, depth, revision>>

\* record_* calls: each reserves, changes the delta and bumps the revision.
Record(newDelta, calls) ==
    /\ snapshots' = Captured
    /\ delta' = newDelta
    /\ revision' = Bumped(calls)
    /\ UNCHANGED depth

\* SUBXACT_EVENT_START_SUB.
StartSub ==
    /\ depth' = depth + 1
    /\ UNCHANGED <<delta, snapshots, revision>>

\* Faulty: a snapshot outlives its level; a restore keeps the revision.
FinishSubKeepingSnapshot(aborted) ==
    /\ depth > 0
    /\ depth' = depth - 1
    /\ delta' = IF aborted /\ depth <= Len(snapshots) THEN snapshots[depth] ELSE delta
    /\ revision' = Bumped(1)
    /\ UNCHANGED snapshots
FinishSubKeepingRevision(aborted) ==
    LET captured == depth <= Len(snapshots) IN
    /\ depth > 0
    /\ snapshots' = IF captured THEN [i \in 1..(depth - 1) |-> snapshots[i]] ELSE snapshots
    /\ delta' = IF aborted /\ captured THEN snapshots[depth] ELSE delta
    /\ depth' = depth - 1
    /\ UNCHANGED revision

\* finish_subtransaction, for SUBXACT_EVENT_COMMIT_SUB and _ABORT_SUB.
FinishSub(aborted) ==
    LET captured == depth <= Len(snapshots)
        restore  == aborted /\ captured IN
    /\ depth > 0
    /\ snapshots' = IF captured THEN [i \in 1..(depth - 1) |-> snapshots[i]] ELSE snapshots
    /\ delta' = IF restore THEN snapshots[depth] ELSE delta
    /\ revision' = IF restore THEN Bumped(1) ELSE revision
    /\ depth' = depth - 1

\* clear_current_transaction_state, from the xact callback: commit, abort, prepare.
ClearState ==
    /\ delta' = EmptyDelta
    /\ revision' = Bumped(1)
    /\ depth' = 0
    /\ snapshots' = <<>>

=============================================================================
