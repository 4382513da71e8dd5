----------------------------- MODULE CacheProvenance -----------------------------
(***************************************************************************)
(* One backend's cache under nested transactions.  A SQL entry point first *)
(* recovers the cache (with_panic_boundary), then may change the resident  *)
(* base any number of times, at any savepoint depth; subtransactions and   *)
(* the transaction commit, abort or are prepared.  The callbacks of        *)
(* projection/tx_delta.rs drive the operators of BackendCache.             *)
(*                                                                         *)
(* Every change of the base is a fresh change id; fate[i] is a history     *)
(* variable recording what became of the subtransaction that made it.      *)
(***************************************************************************)
EXTENDS BackendCache, FiniteSets

CONSTANTS
    Changes,     \* identities of changes of the resident base
    MaxDepth     \* bound on savepoint nesting

ASSUME MaxDepthAssumption == MaxDepth \in Nat

VARIABLES
    cache,       \* the backend's cache, a record of BackendCache
    depth,       \* SUBTRANSACTION_DEPTH; -1 when no transaction is open
    serving,     \* TRUE inside a SQL entry point, after its recovery
    rr,          \* the open transaction uses a fixed snapshot
    fate         \* Changes -> "none" | "live" | "dead" | "fixed" | "done"
\* Depth at which a live change was made (or to which it was promoted).
VARIABLE level

vars == <<cache, depth, serving, rr, fate, level>>

InTransaction == depth >= 0

Init ==
    /\ cache = NewCache
    /\ depth = -1
    /\ serving = FALSE
    /\ rr = FALSE
    /\ fate = [i \in Changes |-> "none"]
    /\ level = [i \in Changes |-> 0]

Begin(fixed) ==
    /\ depth = -1
    /\ depth' = 0
    /\ rr' = fixed
    /\ UNCHANGED <<cache, serving, fate, level>>

\* with_panic_boundary: the stamp's visibility in a fixed snapshot is decided
\* by PostgreSQL, so any set of visible xids is possible here.
Enter(vis) ==
    /\ InTransaction
    /\ cache' = RecoverAbortedReplay(cache, rr, vis)
    /\ serving' = TRUE
    /\ UNCHANGED <<depth, rr, fate, level>>

WithChange(eng, i) == [eng EXCEPT !.built = TRUE, !.rows = @ \cup {i}]

\* A load, a build, a publication or one replayed sync row.
ChangeBase(i, xid) ==
    /\ serving
    /\ fate[i] = "none"
    /\ cache' = [Replay(cache, xid, depth) EXCEPT !.eng = WithChange(cache.eng, i)]
    /\ fate' = [fate EXCEPT ![i] = "live"]
    /\ level' = [level EXCEPT ![i] = depth]
    /\ UNCHANGED <<depth, serving, rr>>

Leave ==
    /\ serving
    /\ serving' = FALSE
    /\ UNCHANGED <<cache, depth, rr, fate, level>>

StartSub ==
    /\ InTransaction
    /\ ~serving
    /\ depth < MaxDepth
    /\ depth' = depth + 1
    /\ UNCHANGED <<cache, serving, rr, fate, level>>

CommitSub ==
    /\ depth > 0
    /\ ~serving
    /\ cache' = FinishReplaySubtransaction(cache, depth, FALSE)
    /\ level' = [i \in Changes |->
                    IF fate[i] = "live" /\ level[i] = depth THEN depth - 1 ELSE level[i]]
    /\ depth' = depth - 1
    /\ UNCHANGED <<serving, rr, fate>>

\* An error aborts the subtransaction from inside an entry point as well.
AbortSub ==
    /\ depth > 0
    /\ cache' = FinishReplaySubtransaction(cache, depth, TRUE)
    /\ fate' = [i \in Changes |->
                    IF fate[i] = "live" /\ level[i] = depth THEN "dead" ELSE fate[i]]
    /\ depth' = depth - 1
    /\ serving' = FALSE
    /\ UNCHANGED <<rr, level>>

\* PostgreSQL closes open subtransactions before the top level ends.
EndTransaction(outcome) ==
    /\ depth = 0
    /\ outcome = "abort" \/ ~serving
    /\ cache' = FinishReplayTransaction(cache, outcome)
    /\ fate' = [i \in Changes |->
                    IF fate[i] # "live" THEN fate[i]
                    ELSE IF outcome # "commit" THEN "dead"
                    ELSE IF rr THEN "fixed" ELSE "done"]
    /\ depth' = -1
    /\ serving' = FALSE
    /\ rr' = FALSE
    /\ UNCHANGED level

\* xids a visibility question can be about; 1 stands for "assigned".
Xids == {NoXid, 1}

Next ==
    \/ \E fixed \in BOOLEAN : Begin(fixed)
    \/ \E vis \in SUBSET {1} : Enter(vis)
    \/ \E i \in Changes, xid \in Xids : ChangeBase(i, xid)
    \/ Leave
    \/ StartSub
    \/ CommitSub
    \/ AbortSub
    \/ \E outcome \in Outcomes : EndTransaction(outcome)

Spec == Init /\ [][Next]_vars

----------------------------------------------------------------------------

CacheType ==
    [ eng     : [built : BOOLEAN, gen : {0}, applied : {0}, rows : SUBSET Changes],
      stamp   : [kind : {"unknown", "pending", "committed"}, xid : Xids \cup {Unset}],
      fixed   : {"notEntered", "preserved", "changed"},
      aborted : BOOLEAN,
      txStamp : Xids \cup {Unset},
      levels  : SUBSET Nat ]

\* The cache, the nesting depth and the history variables have their types.
TypeOK ==
    /\ cache \in CacheType
    /\ depth \in -1..MaxDepth
    /\ serving \in BOOLEAN
    /\ rr \in BOOLEAN
    /\ fate \in [Changes -> {"none", "live", "dead", "fixed", "done"}]
    /\ level \in [Changes -> 0..MaxDepth]

\* No SQL entry point ever sees a resident base that still contains a change
\* made by a subtransaction or transaction that rolled back (or was only
\* prepared): recover_aborted_replay drops such a base first.
RolledBackNeverServed ==
    serving => \A i \in cache.eng.rows : fate[i] # "dead"

\* A change made under a fixed snapshot is never served after its transaction,
\* even when that transaction committed: a fixed snapshot may replay a higher
\* sync id while a lower one is invisible to it, and the watermark would hide
\* the skipped row from every later transaction.
FixedChangesDoNotEscape ==
    serving => \A i \in cache.eng.rows : fate[i] # "fixed"

\* Between transactions a base that is trusted (not flagged for dropping) is
\* made of committed changes only, and a committed stamp belongs to it.
TrustedBaseCommitted ==
    depth = -1 /\ ~cache.aborted =>
        /\ \A i \in cache.eng.rows : fate[i] = "done"
        /\ cache.stamp.kind # "pending"

----------------------------------------------------------------------------
(***************************************************************************)
(* The inductive strengthening.  A change that is still live is covered by *)
(* a mark at its savepoint level (or the base is already flagged), so that *)
(* the abort of that level raises REPLAY_ABORTED; a change that is dead is *)
(* in the base only while the flag is up.                                  *)
(***************************************************************************)
LevelsBounded == \A d \in cache.levels : d <= depth

ServingRecovered == serving => InTransaction /\ ~cache.aborted

RowsHaveFate == \A i \in cache.eng.rows : fate[i] # "none"

LiveMarked ==
    \A i \in cache.eng.rows : fate[i] = "live" =>
        /\ InTransaction
        /\ level[i] <= depth
        /\ cache.aborted \/ level[i] \in cache.levels

DeadFlagged ==
    \A i \in cache.eng.rows : fate[i] \in {"dead", "fixed"} => cache.aborted

FixedRemembered ==
    rr => /\ serving => cache.fixed # "notEntered"
          /\ \A i \in cache.eng.rows : fate[i] = "live" => cache.fixed = "changed"

NoPendingBetween == ~InTransaction => cache.stamp.kind # "pending"

\* The invariant that every step of the backend preserves.
IInv ==
    /\ TypeOK
    /\ LevelsBounded
    /\ ServingRecovered
    /\ RowsHaveFate
    /\ LiveMarked
    /\ DeadFlagged
    /\ FixedRemembered
    /\ NoPendingBetween
================================================================================
