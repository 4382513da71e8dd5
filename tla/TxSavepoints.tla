---------------------------- MODULE TxSavepoints ----------------------------
(***************************************************************************)
(* tx_delta.rs under PostgreSQL's subtransactions, for deltas of any kind: *)
(* lazily captured snapshots give the savepoint semantics of               *)
(* SavepointStack, which copies eagerly.                                   *)
(***************************************************************************)
EXTENDS TxSnapshots

CONSTANT Deltas    \* what a transaction may have recorded

ASSUME DeltaAssumption == EmptyDelta \in Deltas
ASSUME WrapAssumption == MaxRevision >= 1

\* A write whose limits hold; one that fails them changes nothing.
TxWrite(d) == Record(d, 1)

TxSavepoint == depth < MaxDepth /\ StartSub

TxRelease == FinishSub(FALSE)

TxRollback == FinishSub(TRUE)

TxEnd == ClearState

TxNext ==
    \/ ReserveCapacity
    \/ \E d \in Deltas : TxWrite(d)
    \/ TxSavepoint
    \/ TxRelease
    \/ TxRollback
    \/ TxEnd

TxSpec == TxInit /\ [][TxNext]_txVars

----------------------------------------------------------------------------
\* Types; there is never a snapshot for a level that is not open.
TxTypeOK ==
    /\ delta \in Deltas
    /\ depth \in 0..MaxDepth
    /\ snapshots \in Seq(Deltas)
    /\ Len(snapshots) <= depth
    /\ revision \in 0..MaxRevision

\* The delta each open savepoint would restore: its snapshot, or the present delta
\* when nothing was written since it started.
RestoredBy == [i \in 1..depth |-> IF i <= Len(snapshots) THEN snapshots[i] ELSE delta]

Stack == INSTANCE SavepointStack
            WITH Values <- Deltas, Initial <- EmptyDelta, current <- delta, saved <- RestoredBy

\* The delta follows savepoints as if each had copied it when it started, however
\* writes, capacity checks, releases and rollbacks interleave.
ImplementsStack == Stack!Spec

\* A traversal that pauses and finds the revision it remembers resumes over the
\* delta it started with: no step changes the delta and keeps the revision.
RevisionMovesWithDelta == [][delta' # delta => revision' # revision]_txVars

=============================================================================
