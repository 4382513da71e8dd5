------------------------ MODULE CacheProvenance_proofs ------------------------
(***************************************************************************)
(* Proofs that the cache of a backend never serves what a rolled-back      *)
(* (sub)transaction or a finished fixed snapshot put into it, for every    *)
(* set of changes and every savepoint depth.                               *)
(***************************************************************************)
EXTENDS CacheProvenance, TLAPS

\* What a change of the base does to the fields of the cache.
LEMMA ReplayFields ==
    ASSUME NEW c \in CacheType, NEW xid \in Xids, NEW d \in Nat
    PROVE  /\ Replay(c, xid, d) \in CacheType
           /\ Replay(c, xid, d).eng = c.eng
           /\ Replay(c, xid, d).aborted = c.aborted
           /\ Replay(c, xid, d).levels = MarkLevel(c.levels, d)
           /\ Replay(c, xid, d).fixed = Touch(c.fixed)
<1>1. MarkLevel(c.levels, d) \in SUBSET Nat
  BY DEF MarkLevel, Truncate, CacheType
<1>2. QED
  BY <1>1 DEF Replay, MarkBackendReplay, PrepareBackendReplay, Pending, Touch,
              CacheType, Xids, NoXid, Unset

\* What recovery at the entry of a SQL function does to the cache.
LEMMA RecoverFields ==
    ASSUME NEW c \in CacheType, NEW r \in BOOLEAN, NEW vis
    PROVE  LET n == RecoverAbortedReplay(c, r, vis) IN
           /\ n \in CacheType
           /\ ~n.aborted
           /\ n.levels = c.levels
           /\ n.eng = c.eng \/ n.eng = EmptyEngine
           /\ c.aborted => n.eng = EmptyEngine
           /\ r => n.fixed # "notEntered"
           /\ c.fixed = "changed" => n.fixed = "changed"
<1> DEFINE e == IF r THEN EnterFixedSnapshot(c, vis) ELSE c
<1>1. /\ e \in CacheType
      /\ e.levels = c.levels
      /\ e.eng = c.eng
      /\ c.aborted => e.aborted
      /\ r => e.fixed # "notEntered"
      /\ c.fixed = "changed" => e.fixed = "changed"
  BY DEF EnterFixedSnapshot, CacheType
<1>2. CASE e.aborted
  BY <1>1, <1>2 DEF RecoverAbortedReplay, DropEngine, EmptyEngine, Touch, Unknown,
                    CacheType, Xids, NoXid
<1>3. CASE ~e.aborted
  BY <1>1, <1>3 DEF RecoverAbortedReplay, CacheType
<1>4. QED
  BY <1>2, <1>3

\* What the end of a subtransaction does to the cache.
LEMMA FinishSubFields ==
    ASSUME NEW c \in CacheType, NEW d \in Nat \ {0}, NEW abort \in BOOLEAN
    PROVE  LET n == FinishReplaySubtransaction(c, d, abort) IN
           /\ n \in CacheType
           /\ n.eng = c.eng
           /\ n.fixed = c.fixed
           /\ n.stamp = c.stamp
           /\ \A i \in n.levels : i < d
           /\ c.aborted => n.aborted
           /\ \A i \in c.levels : i < d => i \in n.levels
           /\ d \in c.levels => n.aborted \/ (~abort /\ d - 1 \in n.levels)
           /\ abort /\ d \in c.levels => n.aborted
<1> DEFINE lv == Truncate(c.levels, d) \cup
                     (IF d \in c.levels /\ ~abort /\ d > 0 THEN {d - 1} ELSE {})
           ab == c.aborted \/ (d \in c.levels /\ abort)
           n  == FinishReplaySubtransaction(c, d, abort)
<1>1. n = [c EXCEPT !.aborted = ab, !.levels = lv]
  BY DEF FinishReplaySubtransaction
<1>2. /\ lv \in SUBSET Nat
      /\ \A i \in lv : i < d
      /\ \A i \in c.levels : i < d => i \in lv
      /\ d \in c.levels /\ ~abort => d - 1 \in lv
  BY DEF Truncate, CacheType
<1>3. ab \in BOOLEAN
  BY DEF CacheType
<1> HIDE DEF lv
<1>4. n \in CacheType /\ n.levels = lv /\ n.aborted = ab
      /\ n.eng = c.eng /\ n.fixed = c.fixed /\ n.stamp = c.stamp
  BY <1>1, <1>2, <1>3 DEF CacheType
<1> HIDE DEF n
<1>5. QED
  BY <1>2, <1>4 DEF n

\* What the end of the transaction does to the cache.
LEMMA FinishFields ==
    ASSUME NEW c \in CacheType, NEW outcome \in Outcomes
    PROVE  LET n == FinishReplayTransaction(c, outcome) IN
           /\ n \in CacheType
           /\ n.eng = c.eng
           /\ n.levels = {}
           /\ n.stamp.kind # "pending"
           /\ c.aborted => n.aborted
           /\ c.fixed = "changed" => n.aborted
           /\ outcome # "commit" /\ c.levels # {} => n.aborted
<1> DEFINE dirty   == c.levels # {}
           discard == Discards(c, outcome, c.aborted \/ (outcome # "commit" /\ dirty))
           n       == FinishReplayTransaction(c, outcome)
<1>1. discard \in BOOLEAN
  BY DEF Discards
<1>2. /\ c.aborted => discard
      /\ c.fixed = "changed" => discard
      /\ outcome # "commit" /\ dirty => discard
  BY DEF Discards
<1>3. /\ FinalStamp(c, discard) \in [kind : {"unknown", "pending", "committed"}, xid : Xids \cup {Unset}]
      /\ FinalStamp(c, discard).kind # "pending"
  BY <1>1 DEF FinalStamp, Unknown, Committed, CacheType, Xids, NoXid
<1>4. n = [c EXCEPT !.levels  = {}, !.aborted = discard, !.stamp = FinalStamp(c, discard),
                    !.fixed = "notEntered", !.txStamp = Unset]
  BY DEF FinishReplayTransaction
<1> HIDE DEF discard
<1>5. n \in CacheType
  BY <1>1, <1>3, <1>4 DEF CacheType
<1>6. QED
  BY <1>1, <1>2, <1>3, <1>4, <1>5 DEF CacheType

\* A fresh backend satisfies the inductive invariant.
LEMMA InitInv == Init => IInv
<1> SUFFICES ASSUME Init PROVE IInv
  OBVIOUS
<1>1. TypeOK
  <2>1. EmptyEngine \in [built : BOOLEAN, gen : {0}, applied : {0}, rows : SUBSET Changes]
    BY DEF EmptyEngine
  <2>2. Unknown \in [kind : {"unknown", "pending", "committed"}, xid : Xids \cup {Unset}]
    BY DEF Unknown, Xids
  <2>3. NewCache \in CacheType
    BY <2>1, <2>2 DEF NewCache, CacheType
  <2>4. depth \in -1..MaxDepth /\ level \in [Changes -> 0..MaxDepth]
    BY MaxDepthAssumption DEF Init
  <2>5. QED
    BY <2>3, <2>4 DEF Init, TypeOK
<1>2. QED
  BY <1>1 DEF Init, IInv, LevelsBounded, ServingRecovered, RowsHaveFate, LiveMarked,
     DeadFlagged, FixedRemembered, NoPendingBetween, InTransaction, NewCache, EmptyEngine,
     Unknown

\* Every action of the cache keeps the inductive invariant.
LEMMA StepInv == IInv /\ [Next]_vars => IInv'
<1> SUFFICES ASSUME IInv, [Next]_vars PROVE IInv'
  OBVIOUS
<1> USE MaxDepthAssumption
<1>0. TypeOK
  BY DEF IInv
<1>1. ASSUME NEW fixed \in BOOLEAN, Begin(fixed) PROVE IInv'
  <2>1. /\ depth = -1 /\ depth' = 0 /\ rr' = fixed
        /\ cache' = cache /\ serving' = serving /\ fate' = fate /\ level' = level
    BY <1>1 DEF Begin
  <2>2. ~serving /\ \A i \in cache.eng.rows : fate[i] # "live"
    BY <2>1 DEF IInv, ServingRecovered, LiveMarked, InTransaction
  <2>3. TypeOK'
    BY <1>0, <2>1 DEF TypeOK
  <2>4. LevelsBounded'
    BY <1>0, <2>1 DEF IInv, LevelsBounded, TypeOK, CacheType
  <2>5. ServingRecovered' /\ RowsHaveFate' /\ LiveMarked' /\ DeadFlagged' /\ FixedRemembered'
    BY <2>1, <2>2 DEF IInv, ServingRecovered, RowsHaveFate, LiveMarked, DeadFlagged, FixedRemembered
  <2>6. NoPendingBetween'
    BY <2>1 DEF NoPendingBetween, InTransaction
  <2>7. QED
    BY <2>3, <2>4, <2>5, <2>6 DEF IInv
<1>2. ASSUME NEW vis \in SUBSET {1}, Enter(vis) PROVE IInv'
  <2>1. /\ cache' \in CacheType
        /\ ~cache'.aborted
        /\ cache'.levels = cache.levels
        /\ cache'.eng = cache.eng \/ cache'.eng = EmptyEngine
        /\ cache.aborted => cache'.eng = EmptyEngine
        /\ rr => cache'.fixed # "notEntered"
        /\ cache.fixed = "changed" => cache'.fixed = "changed"
    BY <1>0, <1>2, RecoverFields DEF Enter, TypeOK
  <2>2. EmptyEngine.rows = {}
    BY DEF EmptyEngine
  <2>3. TypeOK'
    BY <1>0, <1>2, <2>1 DEF Enter, TypeOK
  <2>4. QED
    BY <1>2, <2>1, <2>2, <2>3 DEF Enter, IInv, LevelsBounded, ServingRecovered, RowsHaveFate,
       LiveMarked, DeadFlagged, FixedRemembered, NoPendingBetween, InTransaction
<1>3. ASSUME NEW i \in Changes, NEW xid \in Xids, ChangeBase(i, xid) PROVE IInv'
  <2> DEFINE r == Replay(cache, xid, depth)
  <2>1. depth \in Nat /\ serving /\ ~cache.aborted
    BY <1>0, <1>3 DEF ChangeBase, IInv, ServingRecovered, InTransaction, TypeOK
  <2>2. /\ r \in CacheType
        /\ r.eng = cache.eng
        /\ r.aborted = cache.aborted
        /\ r.levels = MarkLevel(cache.levels, depth)
        /\ r.fixed = Touch(cache.fixed)
    BY <1>0, <2>1, ReplayFields DEF TypeOK
  <2>3. cache' = [r EXCEPT !.eng = WithChange(cache.eng, i)]
    BY <1>3 DEF ChangeBase
  <2> HIDE DEF r
  <2>4. /\ cache' \in CacheType
        /\ cache'.eng.rows = cache.eng.rows \cup {i}
        /\ cache'.aborted = cache.aborted
        /\ cache'.levels = MarkLevel(cache.levels, depth)
        /\ cache'.fixed = Touch(cache.fixed)
    <3> DEFINE e == WithChange(cache.eng, i)
    <3>1. e \in [built : BOOLEAN, gen : {0}, applied : {0}, rows : SUBSET Changes]
      BY <1>0 DEF WithChange, TypeOK, CacheType
    <3>2. e.rows = cache.eng.rows \cup {i}
      BY <1>0 DEF WithChange, TypeOK, CacheType
    <3>3. cache' = [r EXCEPT !.eng = e]
      BY <2>3
    <3> HIDE DEF e
    <3>4. /\ cache' \in CacheType /\ cache'.eng = e /\ cache'.aborted = r.aborted
          /\ cache'.levels = r.levels /\ cache'.fixed = r.fixed
      BY <2>2, <3>1, <3>3 DEF CacheType
    <3>5. QED
      BY <2>2, <3>2, <3>4
  <2>5. /\ \A d \in cache'.levels : d <= depth
        /\ depth \in cache'.levels
        /\ \A d \in cache.levels : d < depth => d \in cache'.levels
    BY <1>0, <2>1, <2>4 DEF MarkLevel, Truncate, TypeOK, CacheType
  <2>6. /\ fate' = [fate EXCEPT ![i] = "live"]
        /\ level' = [level EXCEPT ![i] = depth]
        /\ depth' = depth /\ serving' = serving /\ rr' = rr
    BY <1>3 DEF ChangeBase
  <2>7. TypeOK'
    BY <1>0, <2>1, <2>4, <2>6 DEF TypeOK
  <2>8. LiveMarked'
    <3> SUFFICES ASSUME NEW j \in cache'.eng.rows, fate'[j] = "live"
                 PROVE  depth' >= 0 /\ level'[j] <= depth' /\
                        level'[j] \in cache'.levels
      BY DEF LiveMarked, InTransaction
    <3>1. CASE j = i
      BY <1>0, <2>1, <2>5, <2>6, <3>1 DEF TypeOK
    <3>2. CASE j # i
      <4>1. j \in cache.eng.rows /\ j \in Changes /\ fate[j] = "live" /\ level'[j] = level[j]
        BY <1>0, <2>4, <2>6, <3>2 DEF TypeOK, CacheType
      <4>2. level[j] <= depth /\ level[j] \in cache.levels
        BY <2>1, <4>1 DEF IInv, LiveMarked
      <4>3. level[j] \in Nat
        BY <1>0, <4>1 DEF TypeOK
      <4>4. CASE level[j] = depth
        BY <2>1, <2>5, <2>6, <4>1, <4>4
      <4>5. CASE level[j] < depth
        BY <2>1, <2>5, <2>6, <4>1, <4>2, <4>3, <4>5
      <4>6. QED
        BY <2>1, <4>2, <4>3, <4>4, <4>5
    <3>3. QED
      BY <3>1, <3>2
  <2>9. RowsHaveFate' /\ DeadFlagged'
    BY <1>0, <2>4, <2>6 DEF IInv, RowsHaveFate, DeadFlagged, TypeOK, CacheType
  <2>10. FixedRemembered'
    BY <1>0, <2>1, <2>4, <2>6 DEF IInv, FixedRemembered, Touch, TypeOK, CacheType
  <2>11. LevelsBounded' /\ ServingRecovered' /\ NoPendingBetween'
    BY <2>1, <2>4, <2>5, <2>6 DEF LevelsBounded, ServingRecovered, NoPendingBetween, InTransaction
  <2>12. QED
    BY <2>7, <2>8, <2>9, <2>10, <2>11 DEF IInv
<1>4. CASE Leave
  BY <1>4 DEF Leave, IInv, TypeOK, LevelsBounded, ServingRecovered, RowsHaveFate, LiveMarked,
     DeadFlagged, FixedRemembered, NoPendingBetween, InTransaction
<1>5. CASE StartSub
  <2>1. depth \in Int /\ cache.levels \in SUBSET Nat
    BY <1>0 DEF TypeOK, CacheType
  <2>2. \A i \in cache.eng.rows : level[i] \in Nat
    BY <1>0 DEF TypeOK, CacheType
  <2>3. QED
    BY <1>5, <2>1, <2>2 DEF StartSub, IInv, TypeOK, LevelsBounded, ServingRecovered, RowsHaveFate,
       LiveMarked, DeadFlagged, FixedRemembered, NoPendingBetween, InTransaction
<1>6. CASE CommitSub
  <2>1. depth \in Nat \ {0} /\ cache \in CacheType
    BY <1>0, <1>6 DEF CommitSub, TypeOK
  <2>2. /\ cache' \in CacheType
        /\ cache'.eng = cache.eng
        /\ cache'.fixed = cache.fixed
        /\ \A d \in cache'.levels : d < depth
        /\ cache.aborted => cache'.aborted
        /\ \A i \in cache.levels : i < depth => i \in cache'.levels
        /\ depth \in cache.levels => cache'.aborted \/ depth - 1 \in cache'.levels
    BY <1>6, <2>1, FinishSubFields DEF CommitSub
  <2>3. /\ level' = [i \in Changes |->
              IF fate[i] = "live" /\ level[i] = depth THEN depth - 1 ELSE level[i]]
        /\ depth' = depth - 1 /\ serving' = serving /\ rr' = rr /\ fate' = fate /\ ~serving
    BY <1>6 DEF CommitSub
  <2>4. TypeOK'
    BY <1>0, <2>1, <2>2, <2>3 DEF TypeOK
  <2>5. LiveMarked'
    <3> SUFFICES ASSUME NEW j \in cache'.eng.rows, fate'[j] = "live"
                 PROVE  /\ depth' >= 0 /\ level'[j] <= depth'
                        /\ cache'.aborted \/ level'[j] \in cache'.levels
      BY DEF LiveMarked, InTransaction
    <3>1. /\ j \in cache.eng.rows /\ j \in Changes /\ fate[j] = "live" /\ level[j] \in Nat
          /\ level[j] <= depth
          /\ cache.aborted \/ level[j] \in cache.levels
      BY <1>0, <2>2, <2>3 DEF TypeOK, CacheType, IInv, LiveMarked
    <3>2. CASE level[j] = depth
      <4>1. level'[j] = depth - 1
        BY <2>1, <2>3, <3>1, <3>2
      <4>2. QED
        BY <2>1, <2>2, <2>3, <3>1, <3>2, <4>1
    <3>3. CASE level[j] < depth
      <4>1. level'[j] = level[j]
        BY <2>1, <2>3, <3>1, <3>3
      <4>2. QED
        BY <2>1, <2>2, <2>3, <3>1, <3>3, <4>1
    <3>4. QED
      BY <2>1, <3>1, <3>2, <3>3
  <2>6. RowsHaveFate' /\ DeadFlagged' /\ FixedRemembered'
    BY <2>2, <2>3 DEF IInv, RowsHaveFate, DeadFlagged, FixedRemembered
  <2>7. LevelsBounded'
    BY <2>1, <2>2, <2>3 DEF LevelsBounded, CacheType
  <2>8. ServingRecovered' /\ NoPendingBetween'
    BY <2>1, <2>3 DEF ServingRecovered, NoPendingBetween, InTransaction
  <2>9. QED
    BY <2>4, <2>5, <2>6, <2>7, <2>8 DEF IInv
<1>7. CASE AbortSub
  <2>1. depth \in Nat \ {0} /\ cache \in CacheType
    BY <1>0, <1>7 DEF AbortSub, TypeOK
  <2>2. /\ cache' \in CacheType
        /\ cache'.eng = cache.eng
        /\ cache'.fixed = cache.fixed
        /\ \A d \in cache'.levels : d < depth
        /\ cache.aborted => cache'.aborted
        /\ \A i \in cache.levels : i < depth => i \in cache'.levels
        /\ depth \in cache.levels => cache'.aborted
    BY <1>7, <2>1, FinishSubFields DEF AbortSub
  <2>3. /\ fate' = [i \in Changes |->
              IF fate[i] = "live" /\ level[i] = depth THEN "dead" ELSE fate[i]]
        /\ depth' = depth - 1 /\ serving' = FALSE /\ rr' = rr /\ level' = level
    BY <1>7 DEF AbortSub
  <2>4. TypeOK'
    <3>1. fate' \in [Changes -> {"none", "live", "dead", "fixed", "done"}]
      BY <1>0, <2>3 DEF TypeOK
    <3>2. depth' \in -1..MaxDepth
      BY <1>0, <2>1, <2>3 DEF TypeOK
    <3>3. QED
      BY <1>0, <2>2, <2>3, <3>1, <3>2 DEF TypeOK
  <2>5. LiveMarked' /\ DeadFlagged' /\ RowsHaveFate'
    <3> SUFFICES ASSUME NEW j \in cache'.eng.rows
                 PROVE  /\ fate'[j] # "none"
                        /\ fate'[j] \in {"dead", "fixed"} => cache'.aborted
                        /\ fate'[j] = "live" =>
                            /\ depth' >= 0 /\ level'[j] <= depth'
                            /\ cache'.aborted \/ level'[j] \in cache'.levels
      BY DEF LiveMarked, DeadFlagged, RowsHaveFate, InTransaction
    <3>1. /\ j \in cache.eng.rows /\ j \in Changes /\ level[j] \in Nat
          /\ fate[j] # "none"
          /\ fate[j] \in {"dead", "fixed"} => cache.aborted
          /\ fate[j] = "live" =>
                /\ level[j] <= depth
                /\ cache.aborted \/ level[j] \in cache.levels
      BY <1>0, <2>2 DEF TypeOK, CacheType, IInv, LiveMarked, DeadFlagged, RowsHaveFate
    <3>2. CASE fate[j] = "live" /\ level[j] = depth
      <4>1. fate'[j] = "dead" /\ cache'.aborted
        BY <2>1, <2>2, <2>3, <3>1, <3>2
      <4>2. QED
        BY <4>1
    <3>3. CASE fate[j] = "live" /\ level[j] < depth
      <4>1. fate'[j] = "live" /\ level'[j] = level[j]
        BY <2>1, <2>3, <3>1, <3>3
      <4>2. QED
        BY <2>1, <2>2, <2>3, <3>1, <3>3, <4>1
    <3>4. CASE fate[j] # "live"
      BY <2>2, <2>3, <3>1, <3>4
    <3>5. QED
      BY <2>1, <3>1, <3>2, <3>3, <3>4
  <2>6. FixedRemembered'
    BY <1>0, <2>2, <2>3 DEF IInv, FixedRemembered, TypeOK, CacheType
  <2>7. LevelsBounded'
    BY <2>1, <2>2, <2>3 DEF LevelsBounded, CacheType
  <2>8. ServingRecovered' /\ NoPendingBetween'
    BY <2>1, <2>3 DEF ServingRecovered, NoPendingBetween, InTransaction
  <2>9. QED
    BY <2>4, <2>5, <2>6, <2>7, <2>8 DEF IInv
<1>8. ASSUME NEW outcome \in Outcomes, EndTransaction(outcome) PROVE IInv'
  <2>1. depth = 0 /\ cache \in CacheType
    BY <1>0, <1>8 DEF EndTransaction, TypeOK
  <2>2. /\ cache' \in CacheType
        /\ cache'.eng = cache.eng
        /\ cache'.levels = {}
        /\ cache'.stamp.kind # "pending"
        /\ cache.aborted => cache'.aborted
        /\ cache.fixed = "changed" => cache'.aborted
        /\ outcome # "commit" /\ cache.levels # {} => cache'.aborted
    BY <1>8, <2>1, FinishFields DEF EndTransaction
  <2>3. /\ fate' = [i \in Changes |->
              IF fate[i] # "live" THEN fate[i]
              ELSE IF outcome # "commit" THEN "dead"
              ELSE IF rr THEN "fixed" ELSE "done"]
        /\ depth' = -1 /\ serving' = FALSE /\ rr' = FALSE /\ level' = level
    BY <1>8 DEF EndTransaction
  <2>4. TypeOK'
    <3>1. fate' \in [Changes -> {"none", "live", "dead", "fixed", "done"}]
      BY <1>0, <2>3 DEF TypeOK
    <3>2. depth' \in -1..MaxDepth
      BY <2>3
    <3>3. QED
      BY <1>0, <2>2, <2>3, <3>1, <3>2 DEF TypeOK
  <2>5. LiveMarked' /\ DeadFlagged' /\ RowsHaveFate'
    <3> SUFFICES ASSUME NEW j \in cache'.eng.rows
                 PROVE  /\ fate'[j] # "none" /\ fate'[j] # "live"
                        /\ fate'[j] \in {"dead", "fixed"} => cache'.aborted
      BY DEF LiveMarked, DeadFlagged, RowsHaveFate
    <3>1. /\ j \in cache.eng.rows /\ j \in Changes /\ level[j] \in Nat
          /\ fate[j] # "none"
          /\ fate[j] \in {"dead", "fixed"} => cache.aborted
          /\ fate[j] = "live" =>
                /\ level[j] <= depth
                /\ cache.aborted \/ level[j] \in cache.levels
                /\ rr => cache.fixed = "changed"
      BY <1>0, <2>2 DEF TypeOK, CacheType, IInv, LiveMarked, DeadFlagged, RowsHaveFate, FixedRemembered
    <3>2. CASE fate[j] = "live" /\ outcome # "commit"
      <4>1. cache.aborted \/ cache.levels # {}
        BY <3>1, <3>2
      <4>2. QED
        BY <2>2, <2>3, <3>1, <3>2, <4>1
    <3>3. CASE fate[j] = "live" /\ outcome = "commit"
      BY <2>2, <2>3, <3>1, <3>3
    <3>4. CASE fate[j] # "live"
      BY <2>2, <2>3, <3>1, <3>4
    <3>5. QED
      BY <3>2, <3>3, <3>4
  <2>6. LevelsBounded' /\ ServingRecovered' /\ NoPendingBetween' /\ FixedRemembered'
    BY <2>2, <2>3 DEF LevelsBounded, ServingRecovered, NoPendingBetween, FixedRemembered,
       InTransaction
  <2>7. QED
    BY <2>4, <2>5, <2>6 DEF IInv
<1>9. CASE UNCHANGED vars
  BY <1>9 DEF vars, IInv, TypeOK, LevelsBounded, ServingRecovered, RowsHaveFate, LiveMarked,
     DeadFlagged, FixedRemembered, NoPendingBetween, InTransaction
<1>10. QED
  BY <1>1, <1>2, <1>3, <1>4, <1>5, <1>6, <1>7, <1>8, <1>9 DEF Next

\* The strengthened invariant, and with it the type invariant, holds in every
\* reachable state of the backend, for every nesting depth.
THEOREM Invariance == Spec => []IInv
<1>1. Init => IInv
  BY InitInv
<1>2. IInv /\ [Next]_vars => IInv'
  BY StepInv
<1>3. QED
  BY <1>1, <1>2, PTL DEF Spec

\* The cache keeps its type through every callback and entry point.
THEOREM TypeCorrect == Spec => []TypeOK
<1>1. IInv => TypeOK
  BY DEF IInv
<1>2. QED
  BY <1>1, Invariance, PTL

\* recover_aborted_replay: what a rolled-back subtransaction or transaction put
\* into the base is never served.
THEOREM RollbackSafety == Spec => []RolledBackNeverServed
<1>1. IInv => RolledBackNeverServed
  BY DEF IInv, ServingRecovered, DeadFlagged, RolledBackNeverServed
<1>2. QED
  BY <1>1, Invariance, PTL

\* CacheProvenance::finish: what a fixed snapshot replayed never outlives it.
THEOREM FixedSnapshotSafety == Spec => []FixedChangesDoNotEscape
<1>1. IInv => FixedChangesDoNotEscape
  BY DEF IInv, ServingRecovered, DeadFlagged, FixedChangesDoNotEscape
<1>2. QED
  BY <1>1, Invariance, PTL

\* A base that is trusted between transactions holds committed changes only.
THEOREM TrustedBase == Spec => []TrustedBaseCommitted
<1>1. IInv => TrustedBaseCommitted
  <2> SUFFICES ASSUME IInv, depth = -1, ~cache.aborted
               PROVE  /\ \A i \in cache.eng.rows : fate[i] = "done"
                      /\ cache.stamp.kind # "pending"
    BY DEF TrustedBaseCommitted
  <2>1. cache.stamp.kind # "pending"
    BY DEF IInv, NoPendingBetween, InTransaction
  <2>2. ASSUME NEW i \in cache.eng.rows PROVE fate[i] = "done"
    <3>1. fate[i] \in {"none", "live", "dead", "fixed", "done"}
      BY <2>2 DEF IInv, TypeOK, CacheType
    <3>2. QED
      BY <2>2, <3>1 DEF IInv, RowsHaveFate, LiveMarked, DeadFlagged, InTransaction
  <2>3. QED
    BY <2>1, <2>2
<1>2. QED
  BY <1>1, Invariance, PTL
================================================================================
