--------------------------- MODULE SyncReplay_proofs ---------------------------
(***************************************************************************)
(* Proofs about trigger synchronisation, for every set of backends, every  *)
(* batch size and every bound: no engine that is served misses a change it *)
(* should contain or contains one it must not, nothing is replayed twice,  *)
(* generations are complete, and pruning takes nothing that anybody needs. *)
(*                                                                         *)
(* One fact carries most of it: below the watermark of a generation, or of *)
(* an engine that was not changed under a fixed snapshot, no other         *)
(* transaction is still running.  The writer lock and the capture fence    *)
(* establish it; the end of a transaction cannot disturb it.  What a fixed *)
(* snapshot sees is closed: with a generation it sees every change in it.  *)
(***************************************************************************)
EXTENDS SyncReplay, SetLemmas

LiveXids == CommittedXids \cup RunningXids
OwnXid(b) == {xid[b]} \ {NoXid}

RowType   == [own : Xids, del : Xids \cup {NoXid}]
HeadType  == [xid : Xids, gen : Nat, wm : 0..MaxLog, rows : SUBSET (1..MaxLog)]
SnapType  == [xmin : 0..(MaxXid + 1), vis : SUBSET Xids]
PcType    == {"out", "serve", "loaded", "apply", "applyFenced", "ingest", "ingestFenced"}
StampType == [kind : {"unknown", "pending", "committed"}, xid : Int]
CacheType == [eng : EngineType, stamp : StampType, fixed : {"notEntered", "preserved", "changed"},
              aborted : BOOLEAN, txStamp : Int, levels : SUBSET {0}]

TxTypes ==
    /\ xact \in Seq({"running", "committed", "aborted"}) /\ Len(xact) <= MaxXid
    /\ iso \in [Backends -> {"none", "rc", "rr"}]
    /\ xid \in [Backends -> Xids \cup {NoXid}]
    /\ snap \in [Backends -> SnapType]
DbTypes ==
    /\ log \in Seq(RowType) /\ Len(log) <= MaxLog
    /\ heads \in Seq(HeadType)
    /\ floors \subseteq [xid : Xids, floor : 1..MaxLog]
LockTypes ==
    /\ pc \in [Backends -> PcType]
    /\ target \in [Backends -> 0..MaxLog]
    /\ writers \subseteq Backends
    /\ fence \in Backends \cup {NoBackend}
    /\ barrier \in Backends \cup {NoBackend}
    /\ buildLock \in Backends \cup {NoBackend}
Types == DbTypes /\ LockTypes /\ cache \in [Backends -> CacheType]

\* Running xids belong to one backend each; a snapshot that is registered knows
\* of every transaction before its xmin, and none of those still runs.
TxOwned ==
    /\ \A b \in Backends : xid[b] # NoXid => xid[b] \in RunningXids
    /\ \A b, c \in Backends : xid[b] # NoXid /\ xid[b] = xid[c] => b = c
    /\ \A b \in Backends : iso[b] = "none" => xid[b] = NoXid /\ snap[b] = NoSnapshot
TxSnaps ==
    \A b \in Backends :
        /\ snap[b].vis \subseteq CommittedXids
        /\ snap[b].xmin <= NextXid
        /\ \A x \in RunningXids : snap[b].xmin <= x
        /\ iso[b] = "rr" /\ snap[b].xmin # 0 => \A x \in CommittedXids : x < snap[b].xmin => x \in snap[b].vis
TxInv == TxTypes /\ TxOwned /\ TxSnaps

\* A log row that is not decided has a writer that holds the shared lock, and a
\* row being pruned a pruner that holds the build lock.
LogOwned ==
    \A i \in Ids :
        /\ log[i].own \in 1..Len(xact)
        /\ log[i].del \in 0..Len(xact)
        /\ log[i].own \in RunningXids => \E w \in writers : xid[w] = log[i].own
        /\ log[i].del \in RunningXids => buildLock \in Backends /\ xid[buildLock] = log[i].del

\* Where a statement stands tells the locks its backend holds.
LocksHeld ==
    /\ fence \in Backends => writers \subseteq {fence}
    /\ buildLock \in Backends => iso[buildLock] = "rc"
    /\ \A b \in Backends :
        /\ pc[b] \in {"applyFenced", "ingestFenced"} => fence = b
        /\ pc[b] \in {"ingest", "ingestFenced"} => buildLock = b
        /\ pc[b] # "out" => iso[b] # "none" /\ snap[b].xmin # 0

\* An ingest has its xid, a generation to start from and no own rows above it.
IngestReady ==
    \A b \in Backends : pc[b] \in {"ingest", "ingestFenced"} =>
        /\ xid[b] # NoXid
        /\ VisibleHeads(View(b)) # {}
        /\ OwnRowsAfter(b, Published(View(b)).wm) = {}

----------------------------------------------------------------------------
HeadIds == 1..Len(heads)
LiveHead(k) == heads[k].xid \in LiveXids

\* A version that is not decided was written by the holder of the build lock.
HeadOwned(k) ==
    /\ heads[k].gen # 0
    /\ heads[k].xid \in 1..Len(xact)
    /\ heads[k].xid \in RunningXids => buildLock \in Backends /\ xid[buildLock] = heads[k].xid
HeadsOwned == \A k \in HeadIds : HeadOwned(k)

\* A generation holds committed changes, all there are up to its watermark, and
\* up to there nothing is still running.
HeadComplete(k) ==
    /\ heads[k].wm <= Len(log)
    /\ \A i \in heads[k].rows : i \in Ids /\ log[i].own \in CommittedXids
    /\ \A i \in 1..heads[k].wm :
        log[i].own \notin RunningXids /\ (log[i].own \in CommittedXids => i \in heads[k].rows)
HeadsComplete == \A k \in HeadIds : LiveHead(k) => HeadComplete(k)

\* Each version contains those before it and has a greater id.
Grown(j, k) ==
    LiveHead(j) /\ LiveHead(k) => heads[j].rows \subseteq heads[k].rows /\ heads[j].gen < heads[k].gen
HeadsChain == \A j, k \in HeadIds : j < k => Grown(j, k)

\* Who sees a generation sees its changes and, above its watermark, that their
\* rows are pruned.
ClosedAt(k, view) ==
    heads[k].xid \in view =>
        \A i \in heads[k].rows :
            log[i].own \in view /\ (i > heads[k].wm => log[i].del \in view)
Closed(view) == \A k \in HeadIds : ClosedAt(k, view)
ViewsClosed == Closed(CommittedXids) /\ \A b \in Backends : Closed(StatementView(b))

\* A pruned row is in some generation that everybody sees.
Kept(i, view) == \E k \in HeadIds : heads[k].xid \in view /\ i \in heads[k].rows
PrunedKept ==
    \A i \in Ids : log[i].del \in LiveXids =>
        Kept(i, CommittedXids) /\ \A b \in Backends : Kept(i, StatementView(b))

HeadsInv == HeadsOwned /\ HeadsComplete /\ HeadsChain /\ ViewsClosed /\ PrunedKept

----------------------------------------------------------------------------
\* The engine of a cache c of backend b that nothing has flagged.
EngineShape(c) == ~c.eng.built => c.eng = EmptyEngine
EngineVisible(b, c) ==
    \A i \in c.eng.rows :
        /\ i \in Ids
        /\ log[i].own \in StatementView(b)
        /\ i > c.eng.applied => log[i].del \in StatementView(b)
        /\ c.levels = {} => log[i].own # xid[b] /\ (i > c.eng.applied => log[i].del # xid[b])
EngineComplete(b, c) ==
    /\ c.eng.applied <= Len(log)
    /\ \A i \in 1..c.eng.applied :
        /\ log[i].own \in StatementView(b) => i \in c.eng.rows
        /\ c.fixed # "changed" =>
            /\ log[i].own \in RunningXids => log[i].own = xid[b]
            /\ log[i].own \in CommittedXids => i \in c.eng.rows
EngineBased(b, c) ==
    c.eng.gen # 0 =>
        \E k \in HeadIds :
            /\ heads[k].gen = c.eng.gen
            /\ heads[k].rows \subseteq c.eng.rows
            /\ heads[k].xid \in CommittedXids \cup OwnXid(b)
            /\ c.levels = {} => heads[k].xid \in CommittedXids
EngineGood(b, c) == EngineShape(c) /\ EngineVisible(b, c) /\ EngineComplete(b, c) /\ EngineBased(b, c)

CacheStatus(b) ==
    /\ pc[b] # "out" => ~cache[b].aborted /\ (iso[b] = "rr" => cache[b].fixed # "notEntered")
    /\ cache[b].fixed # "notEntered" => iso[b] = "rr" /\ snap[b].xmin # 0
    /\ iso[b] = "none" => cache[b].levels = {}

\* A replaying engine contains what was published before its snapshot, and every
\* change whose row is pruned: the horizon protects both.
Covering(b) ==
    /\ cache[b].eng.built
    /\ \A k \in HeadIds : heads[k].xid \in CommittedXids /\ heads[k].xid < snap[b].xmin =>
            heads[k].rows \subseteq cache[b].eng.rows
    /\ \A i \in Ids : log[i].del \in LiveXids => i \in cache[b].eng.rows

CachesInv ==
    \A b \in Backends :
        /\ CacheStatus(b)
        /\ ~cache[b].aborted => EngineGood(b, cache[b])
        /\ pc[b] \in {"loaded", "apply", "applyFenced"} => Covering(b)

IInv == TxInv /\ Types /\ LogOwned /\ LocksHeld /\ IngestReady /\ HeadsInv /\ CachesInv

----------------------------------------------------------------------------
\* Transactions.

\* Xids are numbered in the order of their assignment, and each has one status.
LEMMA XidNumbers ==
    ASSUME TxTypes
    PROVE  /\ MaxXid \in Nat /\ Len(xact) \in Nat /\ NextXid \in Nat /\ NextXid = Len(xact) + 1
           /\ CommittedXids \in SUBSET (1..Len(xact)) /\ RunningXids \in SUBSET (1..Len(xact))
           /\ CommittedXids \cap RunningXids = {}
           /\ NextXid \notin LiveXids /\ NoXid \notin LiveXids
BY BackendsAssumption DEF TxTypes, NextXid, CommittedXids, RunningXids, LiveXids, NoXid

\* What a statement sees, with the registered snapshot spelled out.
LEMMA Sees ==
    ASSUME NEW b
    PROVE  /\ StatementView(b) =
                (IF iso[b] = "rr" /\ snap[b].xmin # 0 THEN snap[b].vis ELSE CommittedXids) \cup OwnXid(b)
           /\ OwnXid(b) \subseteq StatementView(b)
           /\ snap[b].xmin # 0 \/ iso[b] # "rr" => View(b) = StatementView(b)
BY DEF StatementView, StatementSnapshot, View, OwnXid

\* The same in the next state.
LEMMA SeesNext ==
    ASSUME NEW b
    PROVE  StatementView(b)' =
             (IF iso'[b] = "rr" /\ snap'[b].xmin # 0 THEN snap'[b].vis ELSE CommittedXids') \cup OwnXid(b)'
BY DEF StatementView, StatementSnapshot, OwnXid

\* A view holds committed transactions and the own one.
LEMMA ViewBounds ==
    ASSUME TxInv, NEW b \in Backends
    PROVE  /\ OwnXid(b) \in SUBSET RunningXids
           /\ StatementView(b) \in SUBSET (CommittedXids \cup OwnXid(b))
           /\ StatementView(b) \in SUBSET LiveXids
           /\ iso[b] # "rr" => StatementView(b) = CommittedXids \cup OwnXid(b)
<1>1. OwnXid(b) \in SUBSET RunningXids
  BY DEF TxInv, TxOwned, OwnXid
<1>2. StatementView(b) \in SUBSET (CommittedXids \cup OwnXid(b))
  BY Sees DEF TxInv, TxSnaps
<1>3. QED
  BY <1>1, <1>2, Sees DEF LiveXids

\* The snapshot of a statement: no transaction before its xmin is running, and
\* under REPEATABLE READ all that committed before are visible.
LEMMA SnapshotFacts ==
    ASSUME TxInv, NEW b \in Backends
    PROVE  /\ StatementSnapshot(b) \in SnapType
           /\ StatementSnapshot(b).xmin \in 1..NextXid
           /\ \A x \in RunningXids : StatementSnapshot(b).xmin <= x
           /\ StatementSnapshot(b).vis \subseteq CommittedXids
           /\ iso[b] = "rr" => \A x \in CommittedXids :
                    x < StatementSnapshot(b).xmin => x \in StatementSnapshot(b).vis
<1> DEFINE R == RunningXids \cup {NextXid}
<1>1. TxTypes /\ snap[b] \in SnapType
  BY DEF TxInv, TxTypes
<1>2. /\ MaxXid \in Nat /\ Len(xact) \in Nat /\ Len(xact) <= MaxXid
      /\ NextXid \in Nat /\ NextXid = Len(xact) + 1
      /\ CommittedXids \in SUBSET (1..Len(xact)) /\ RunningXids \in SUBSET (1..Len(xact))
  BY <1>1, XidNumbers DEF TxTypes
<1>3. R \in SUBSET (1..NextXid) /\ R # {}
  <2>1. NextXid \in 1..NextXid /\ 1..Len(xact) \subseteq 1..NextXid
    BY <1>2
  <2>2. QED
    BY <1>2, <2>1
<1>4. IsFiniteSet(R) /\ R \in SUBSET Int
  <2>1. IsFiniteSet(1..NextXid)
    BY <1>2, FS_Interval
  <2>2. QED
    BY <1>2, <1>3, <2>1, FS_Subset
<1>5. Min(R) \in R /\ \A y \in R : Min(R) <= y
  BY <1>3, <1>4, MinProperty
<1>6. CASE snap[b].xmin # 0
  <2>1. StatementSnapshot(b) = snap[b]
    BY <1>6 DEF StatementSnapshot
  <2>2. snap[b].xmin \in 0..(MaxXid + 1) /\ snap[b].xmin <= NextXid
    BY <1>1 DEF SnapType, TxInv, TxSnaps
  <2>3. snap[b].xmin \in 1..NextXid
    BY <1>2, <1>6, <2>2
  <2>4. QED
    BY <1>1, <1>6, <2>1, <2>3 DEF TxInv, TxSnaps
<1>7. CASE snap[b].xmin = 0
  <2>1. StatementSnapshot(b) = [xmin |-> Min(R), vis |-> IF iso[b] = "rr" THEN CommittedXids ELSE {}]
    BY <1>7 DEF StatementSnapshot
  <2>2. Min(R) \in 1..NextXid /\ \A x \in RunningXids : Min(R) <= x
    BY <1>3, <1>5
  <2>3. Min(R) \in 0..(MaxXid + 1) /\ CommittedXids \in SUBSET Xids
    BY <1>2, <2>2 DEF Xids
  <2> HIDE DEF R
  <2>4. StatementSnapshot(b) \in SnapType
    BY <2>1, <2>3 DEF SnapType
  <2>5. QED
    BY <2>1, <2>2, <2>4
<1>8. QED
  BY <1>6, <1>7

\* What a step of b does to the transactions of the system, unless it ends its
\* own: nothing but assigning its xid, and no view but its own grows by it.
Worked(b) ==
    /\ CommittedXids' = CommittedXids
    /\ RunningXids' = RunningXids \cup OwnXid(b)'
    /\ Len(xact') \in Nat /\ Len(xact) <= Len(xact')
    /\ \A c \in Backends \ {b} :
        /\ iso'[c] = iso[c] /\ xid'[c] = xid[c] /\ snap'[c] = snap[c]
        /\ StatementView(c)' = StatementView(c)
    /\ StatementView(b)' = StatementView(b) \cup OwnXid(b)'
    /\ \/ xid'[b] = xid[b]
       \/ xid[b] = NoXid /\ xid'[b] = Len(xact) + 1

\* Writing assigns the next xid unless there is one.
LEMMA Assigned ==
    ASSUME TxInv, NEW b \in Backends, AssignXid(b) \/ UNCHANGED <<xact, xid>>
    PROVE  /\ xact' \in Seq({"running", "committed", "aborted"}) /\ Len(xact') <= MaxXid
           /\ Len(xact') \in Nat /\ Len(xact) <= Len(xact')
           /\ xid' \in [Backends -> Xids \cup {NoXid}]
           /\ \A c \in Backends \ {b} : xid'[c] = xid[c]
           /\ xid'[b] = xid[b] \/ (xid[b] = NoXid /\ xid'[b] = Len(xact) + 1)
           /\ CommittedXids' = CommittedXids
           /\ RunningXids' = RunningXids \cup OwnXid(b)'
<1>1. TxTypes /\ xid[b] \in Xids \cup {NoXid}
  BY DEF TxInv, TxTypes
<1>2. /\ MaxXid \in Nat /\ Len(xact) \in Nat /\ NextXid = Len(xact) + 1
      /\ OwnXid(b) \in SUBSET RunningXids
  BY <1>1, XidNumbers, ViewBounds
<1>3. CASE UNCHANGED <<xact, xid>>
  BY <1>1, <1>2, <1>3 DEF TxTypes, CommittedXids, RunningXids, OwnXid
<1>4. CASE AssignXid(b) /\ xid[b] # NoXid
  <2>1. xid' = xid /\ xact' = xact
    BY <1>1, <1>4 DEF AssignXid, XidOf, WithXid, TxTypes
  <2>2. QED
    BY <1>3, <2>1
<1>5. CASE AssignXid(b) /\ xid[b] = NoXid
  <2>1. /\ xid' = [xid EXCEPT ![b] = NextXid] /\ xact' = Append(xact, "running")
        /\ Len(xact) < MaxXid
    BY <1>5 DEF AssignXid, XidOf, WithXid, CanAssignXid
  <2>2. /\ xact \in Seq({"running", "committed", "aborted"})
        /\ xid \in [Backends -> Xids \cup {NoXid}]
    BY <1>1 DEF TxTypes
  <2>3. /\ xact' \in Seq({"running", "committed", "aborted"}) /\ Len(xact') = Len(xact) + 1
        /\ \A x \in 1..Len(xact) : xact'[x] = xact[x]
        /\ xact'[Len(xact) + 1] = "running"
    BY <1>2, <2>1, <2>2
  <2>4. NextXid \in Xids /\ xid'[b] = NextXid /\ NextXid # NoXid
    BY <1>2, <2>1, <2>2 DEF Xids, NoXid
  <2>5. CommittedXids' = CommittedXids
    BY <1>2, <2>3 DEF CommittedXids
  <2>6. RunningXids' = RunningXids \cup {NextXid}
    BY <1>2, <2>3 DEF RunningXids
  <2>7. OwnXid(b)' = {NextXid}
    BY <2>4 DEF OwnXid
  <2>8. QED
    BY <1>2, <1>5, <2>1, <2>2, <2>3, <2>4, <2>5, <2>6, <2>7
<1>6. QED
  BY <1>3, <1>4, <1>5

\* A statement inside a transaction keeps or takes the snapshot the isolation
\* level gives it.
LEMMA WorkKeepsTx ==
    ASSUME TxInv, NEW b \in Backends, iso[b] # "none", iso' = iso,
           AssignXid(b) \/ UNCHANGED <<xact, xid>>,
           NEW s \in {snap[b], StatementSnapshot(b), NoSnapshot},
           s = NoSnapshot => iso[b] # "rr" \/ s = snap[b],
           snap' = [snap EXCEPT ![b] = s]
    PROVE  TxInv' /\ Worked(b) /\ snap'[b] = s
<1>1. TxTypes /\ iso \in [Backends -> {"none", "rc", "rr"}] /\ snap \in [Backends -> SnapType]
  BY DEF TxInv, TxTypes
<1>2. /\ MaxXid \in Nat /\ Len(xact) \in Nat /\ NextXid \in Nat /\ NextXid = Len(xact) + 1
      /\ CommittedXids \in SUBSET (1..Len(xact)) /\ RunningXids \in SUBSET (1..Len(xact))
  BY <1>1, XidNumbers
<1>3. /\ xact' \in Seq({"running", "committed", "aborted"}) /\ Len(xact') <= MaxXid
      /\ Len(xact') \in Nat /\ Len(xact) <= Len(xact')
      /\ xid' \in [Backends -> Xids \cup {NoXid}]
      /\ \A c \in Backends \ {b} : xid'[c] = xid[c]
      /\ xid'[b] = xid[b] \/ (xid[b] = NoXid /\ xid'[b] = Len(xact) + 1)
      /\ CommittedXids' = CommittedXids
      /\ RunningXids' = RunningXids \cup OwnXid(b)'
  BY Assigned
<1>4. /\ s \in SnapType /\ s.vis \subseteq CommittedXids /\ s.xmin \in Nat /\ s.xmin <= NextXid
      /\ \A x \in RunningXids : s.xmin <= x
      /\ iso[b] = "rr" /\ s.xmin # 0 => \A x \in CommittedXids : x < s.xmin => x \in s.vis
  <2>1. CASE s = snap[b]
    <3>1. snap[b] \in SnapType /\ snap[b].xmin \in Nat
      BY <1>1, <1>2 DEF SnapType
    <3>2. QED
      BY <2>1, <3>1 DEF TxInv, TxSnaps
  <2>2. CASE s = StatementSnapshot(b)
    BY <1>2, <2>2, SnapshotFacts
  <2>3. CASE s = NoSnapshot
    <3>1. s.xmin = 0 /\ s.vis = {} /\ s \in SnapType
      BY <1>2, <2>3 DEF NoSnapshot, SnapType
    <3>2. QED
      BY <1>2, <3>1
  <2>4. QED
    BY <2>1, <2>2, <2>3
<1>5. snap' \in [Backends -> SnapType] /\ snap'[b] = s /\ \A c \in Backends \ {b} : snap'[c] = snap[c]
  BY <1>1, <1>4
<1>6. TxTypes'
  BY <1>1, <1>3, <1>5 DEF TxTypes
<1>7. NextXid' \in Nat /\ NextXid <= NextXid' /\ \A x \in OwnXid(b)' : x \in RunningXids \/ x = NextXid
  BY <1>2, <1>3 DEF NextXid, OwnXid, TxInv, TxOwned
<1>8. TxOwned'
  <2>1. ASSUME NEW c \in Backends, xid'[c] # NoXid PROVE xid'[c] \in RunningXids'
    BY <1>3, <2>1 DEF TxInv, TxOwned, OwnXid
  <2>2. ASSUME NEW c \in Backends, NEW d \in Backends, xid'[c] # NoXid, xid'[c] = xid'[d] PROVE c = d
    <3>1. \A e \in Backends : xid[e] # NoXid => xid[e] \in 1..Len(xact)
      BY <1>2 DEF TxInv, TxOwned
    <3>2. \A e \in Backends : xid[e] # Len(xact) + 1
      BY <1>2, <3>1 DEF NoXid
    <3>3. QED
      BY <1>3, <2>2, <3>2 DEF TxInv, TxOwned
  <2>3. ASSUME NEW c \in Backends, iso'[c] = "none" PROVE xid'[c] = NoXid /\ snap'[c] = NoSnapshot
    BY <1>3, <1>5, <2>3 DEF TxInv, TxOwned
  <2>4. QED
    BY <2>1, <2>2, <2>3, NoSnapshot' = NoSnapshot DEF TxOwned, NoSnapshot
<1>9. TxSnaps'
  <2> SUFFICES ASSUME NEW c \in Backends
               PROVE  /\ snap'[c].vis \subseteq CommittedXids'
                      /\ snap'[c].xmin <= NextXid'
                      /\ \A x \in RunningXids' : snap'[c].xmin <= x
                      /\ iso'[c] = "rr" /\ snap'[c].xmin # 0 =>
                            \A x \in CommittedXids' : x < snap'[c].xmin => x \in snap'[c].vis
    BY DEF TxSnaps
  <2>1. PICK q : q = snap'[c]
    OBVIOUS
  <2>2. q \in SnapType /\ q.xmin \in Nat
    BY <1>2, <1>5, <2>1 DEF SnapType
  <2>3. /\ q.vis \subseteq CommittedXids /\ q.xmin <= NextXid
        /\ \A x \in RunningXids : q.xmin <= x
        /\ iso[c] = "rr" /\ q.xmin # 0 => \A x \in CommittedXids : x < q.xmin => x \in q.vis
    BY <1>4, <1>5, <2>1 DEF TxInv, TxSnaps
  <2>4. q.xmin <= NextXid'
    BY <1>2, <1>7, <2>2, <2>3
  <2>5. \A x \in RunningXids' : q.xmin <= x
    BY <1>3, <1>7, <2>3
  <2>6. QED
    BY <1>3, <2>1, <2>3, <2>4, <2>5
<1>10. ASSUME NEW c \in Backends \ {b} PROVE StatementView(c)' = StatementView(c)
  BY <1>3, <1>5, Sees, SeesNext DEF OwnXid
<1>11. StatementView(b)' = StatementView(b) \cup OwnXid(b)'
  <2>1. OwnXid(b) \in SUBSET OwnXid(b)'
    BY <1>3 DEF OwnXid
  <2>2. CASE iso[b] # "rr"
    BY <1>3, <2>1, <2>2, Sees, SeesNext
  <2>3. CASE iso[b] = "rr" /\ snap[b].xmin # 0
    <3>1. s = snap[b]
      BY <2>3 DEF StatementSnapshot, NoSnapshot
    <3>2. QED
      BY <1>3, <1>5, <2>1, <2>3, <3>1, Sees, SeesNext
  <2>4. CASE iso[b] = "rr" /\ snap[b].xmin = 0
    <3>1. s.xmin # 0 => s.vis = CommittedXids
      BY <2>4 DEF StatementSnapshot, NoSnapshot
    <3>2. QED
      BY <1>3, <1>5, <2>1, <2>4, <3>1, Sees, SeesNext
  <2>5. QED
    BY <2>2, <2>3, <2>4
<1>12. Worked(b)
  BY <1>3, <1>5, <1>10, <1>11 DEF Worked
<1>13. QED
  BY <1>5, <1>6, <1>8, <1>9, <1>12 DEF TxInv

\* BEGIN gives no backend a view of its own.
LEMMA BeginKeepsTx ==
    ASSUME TxInv, NEW b \in Backends, NEW level \in {"rc", "rr"}, Begin(b, level)
    PROVE  TxInv' /\ Worked(b)
<1>1. iso[b] = "none" /\ iso' = [iso EXCEPT ![b] = level] /\ UNCHANGED <<xact, xid, snap>>
  BY DEF Begin, dbVars
<1>2. TxTypes /\ iso \in [Backends -> {"none", "rc", "rr"}]
  BY DEF TxInv, TxTypes
<1>3. iso' \in [Backends -> {"none", "rc", "rr"}] /\ iso'[b] = level /\ \A c \in Backends \ {b} : iso'[c] = iso[c]
  BY <1>1, <1>2
<1>4. CommittedXids' = CommittedXids /\ RunningXids' = RunningXids /\ NextXid' = NextXid
  BY <1>1 DEF CommittedXids, RunningXids, NextXid
<1>5. TxTypes'
  BY <1>1, <1>2, <1>3 DEF TxTypes
<1>6. xid[b] = NoXid /\ snap[b] = NoSnapshot /\ OwnXid(b)' = {} /\ OwnXid(b) = {}
  BY <1>1 DEF TxInv, TxOwned, OwnXid
<1>7. TxOwned'
  BY <1>1, <1>3, <1>4 DEF TxInv, TxOwned, NoSnapshot
<1>8. TxSnaps'
  <2> SUFFICES ASSUME NEW c \in Backends
               PROVE  /\ snap'[c].vis \subseteq CommittedXids'
                      /\ snap'[c].xmin <= NextXid'
                      /\ \A x \in RunningXids' : snap'[c].xmin <= x
                      /\ iso'[c] = "rr" /\ snap'[c].xmin # 0 =>
                            \A x \in CommittedXids' : x < snap'[c].xmin => x \in snap'[c].vis
    BY DEF TxSnaps
  <2>1. CASE c = b
    BY <1>1, <1>4, <1>6, <2>1 DEF TxInv, TxSnaps, NoSnapshot
  <2>2. CASE c # b
    BY <1>1, <1>3, <1>4, <2>2 DEF TxInv, TxSnaps
  <2>3. QED
    BY <2>1, <2>2
<1>9. ASSUME NEW c \in Backends PROVE StatementView(c)' = StatementView(c)
  <2>1. CASE c = b
    <3>1. snap[b].xmin = 0
      BY <1>6 DEF NoSnapshot
    <3>2. QED
      BY <1>1, <1>4, <1>6, <2>1, <3>1, Sees, SeesNext
  <2>2. CASE c # b
    BY <1>1, <1>3, <1>4, <2>2, Sees, SeesNext DEF OwnXid
  <2>3. QED
    BY <2>1, <2>2
<1>10. Len(xact) \in Nat
  BY <1>2, XidNumbers
<1>11. Worked(b)
  BY <1>1, <1>3, <1>4, <1>6, <1>9, <1>10 DEF Worked
<1>12. QED
  BY <1>5, <1>7, <1>8, <1>11 DEF TxInv

\* What the end of b's transaction does: its xid is decided, and whoever has no
\* fixed snapshot sees the outcome.
Ended(b, outcome) ==
    /\ CommittedXids' = CommittedXids \cup (IF outcome = "commit" THEN OwnXid(b) ELSE {})
    /\ RunningXids' = RunningXids \ OwnXid(b)
    /\ Len(xact') = Len(xact)
    /\ \A c \in Backends \ {b} :
        /\ iso'[c] = iso[c] /\ xid'[c] = xid[c] /\ snap'[c] = snap[c]
        /\ StatementView(c)' = IF iso[c] = "rr" /\ snap[c].xmin # 0 THEN StatementView(c)
                               ELSE CommittedXids' \cup OwnXid(c)
    /\ StatementView(b)' = CommittedXids'
    /\ iso'[b] = "none" /\ xid'[b] = NoXid /\ snap'[b] = NoSnapshot

\* COMMIT and ROLLBACK keep the transaction layer in order.
LEMMA EndKeepsTx ==
    ASSUME TxInv, NEW b \in Backends, NEW outcome \in {"commit", "abort"}, FinishXact(b, outcome)
    PROVE  TxInv' /\ Ended(b, outcome)
<1>1. /\ xact' = IF xid[b] = NoXid THEN xact
                 ELSE [xact EXCEPT ![xid[b]] = IF outcome = "commit" THEN "committed" ELSE "aborted"]
      /\ iso' = [iso EXCEPT ![b] = "none"]
      /\ xid' = [xid EXCEPT ![b] = NoXid]
      /\ snap' = [snap EXCEPT ![b] = NoSnapshot]
  BY DEF FinishXact
<1>2. /\ TxTypes /\ xact \in Seq({"running", "committed", "aborted"})
      /\ iso \in [Backends -> {"none", "rc", "rr"}]
      /\ xid \in [Backends -> Xids \cup {NoXid}] /\ snap \in [Backends -> SnapType]
  BY DEF TxInv, TxTypes
<1>3. /\ MaxXid \in Nat /\ Len(xact) \in Nat /\ NextXid \in Nat
      /\ CommittedXids \in SUBSET (1..Len(xact)) /\ RunningXids \in SUBSET (1..Len(xact))
      /\ OwnXid(b) \in SUBSET RunningXids
  BY <1>2, XidNumbers, ViewBounds
<1>4. /\ iso'[b] = "none" /\ xid'[b] = NoXid /\ snap'[b] = NoSnapshot
      /\ \A c \in Backends \ {b} : iso'[c] = iso[c] /\ xid'[c] = xid[c] /\ snap'[c] = snap[c]
      /\ iso' \in [Backends -> {"none", "rc", "rr"}]
      /\ xid' \in [Backends -> Xids \cup {NoXid}]
  BY <1>1, <1>2
<1>5. NoSnapshot \in SnapType /\ NoSnapshot.xmin = 0 /\ NoSnapshot.vis = {}
  BY <1>3 DEF NoSnapshot, SnapType
<1>6. snap' \in [Backends -> SnapType]
  BY <1>1, <1>2, <1>5
<1>7. /\ xact' \in Seq({"running", "committed", "aborted"}) /\ Len(xact') = Len(xact)
      /\ CommittedXids' = CommittedXids \cup (IF outcome = "commit" THEN OwnXid(b) ELSE {})
      /\ RunningXids' = RunningXids \ OwnXid(b)
  <2>1. CASE xid[b] = NoXid
    BY <1>1, <1>2, <2>1 DEF OwnXid, CommittedXids, RunningXids
  <2>2. CASE xid[b] # NoXid
    <3>1. OwnXid(b) = {xid[b]} /\ xid[b] \in 1..Len(xact) /\ xact[xid[b]] = "running"
      BY <1>3, <2>2 DEF OwnXid, RunningXids
    <3>2. PICK s \in {"committed", "aborted"} : s = IF outcome = "commit" THEN "committed" ELSE "aborted"
      OBVIOUS
    <3>3. xact' = [xact EXCEPT ![xid[b]] = s]
      BY <1>1, <2>2, <3>2
    <3>4. /\ xact' \in Seq({"running", "committed", "aborted"}) /\ Len(xact') = Len(xact)
          /\ xact'[xid[b]] = s /\ \A x \in 1..Len(xact) : x # xid[b] => xact'[x] = xact[x]
      BY <1>2, <3>1, <3>3
    <3>5. RunningXids' = RunningXids \ OwnXid(b)
      BY <3>1, <3>4 DEF RunningXids
    <3>6. CommittedXids' = CommittedXids \cup (IF outcome = "commit" THEN OwnXid(b) ELSE {})
      BY <3>1, <3>2, <3>4 DEF CommittedXids
    <3>7. QED
      BY <3>4, <3>5, <3>6
  <2>3. QED
    BY <2>1, <2>2
<1>8. TxTypes'
  BY <1>2, <1>4, <1>6, <1>7 DEF TxTypes
<1>9. TxOwned'
  <2>1. ASSUME NEW c \in Backends, xid'[c] # NoXid PROVE xid'[c] \in RunningXids'
    <3>1. c # b /\ xid'[c] = xid[c] /\ xid[c] \in RunningXids
      BY <1>4, <2>1 DEF TxInv, TxOwned
    <3>2. xid[c] \notin OwnXid(b)
      BY <2>1, <3>1 DEF TxInv, TxOwned, OwnXid
    <3>3. QED
      BY <1>7, <3>1, <3>2
  <2>2. ASSUME NEW c \in Backends, NEW d \in Backends, xid'[c] # NoXid, xid'[c] = xid'[d] PROVE c = d
    BY <1>4, <2>2 DEF TxInv, TxOwned
  <2>3. ASSUME NEW c \in Backends, iso'[c] = "none" PROVE xid'[c] = NoXid /\ snap'[c] = NoSnapshot
    BY <1>4, <2>3 DEF TxInv, TxOwned
  <2>4. QED
    BY <2>1, <2>2, <2>3 DEF TxOwned, NoSnapshot
<1>10. TxSnaps'
  <2> SUFFICES ASSUME NEW c \in Backends
               PROVE  /\ snap'[c].vis \subseteq CommittedXids'
                      /\ snap'[c].xmin <= NextXid'
                      /\ \A x \in RunningXids' : snap'[c].xmin <= x
                      /\ iso'[c] = "rr" /\ snap'[c].xmin # 0 =>
                            \A x \in CommittedXids' : x < snap'[c].xmin => x \in snap'[c].vis
    BY DEF TxSnaps
  <2>1. NextXid' = NextXid
    BY <1>7 DEF NextXid
  <2>2. CASE c = b
    BY <1>3, <1>4, <1>5, <1>7, <2>1, <2>2
  <2>3. CASE c # b
    <3>1. PICK q : q = snap[c]
      OBVIOUS
    <3>2. q \in SnapType /\ q.xmin \in Nat
      BY <1>2, <1>3, <3>1 DEF SnapType
    <3>3. /\ q.vis \subseteq CommittedXids /\ q.xmin <= NextXid
          /\ \A x \in RunningXids : q.xmin <= x
          /\ iso[c] = "rr" /\ q.xmin # 0 => \A x \in CommittedXids : x < q.xmin => x \in q.vis
      BY <3>1 DEF TxInv, TxSnaps
    <3>4. ASSUME NEW x \in OwnXid(b) PROVE x \in Nat /\ ~(x < q.xmin)
      <4>1. x \in RunningXids /\ x \in 1..Len(xact)
        BY <1>3
      <4>2. PICK m \in Nat : m = q.xmin
        BY <3>2
      <4>3. m <= x /\ x \in Nat
        BY <1>3, <3>3, <4>1, <4>2
      <4>4. QED
        BY <4>2, <4>3
    <3>5. QED
      BY <1>4, <1>7, <2>1, <2>3, <3>1, <3>3, <3>4
  <2>4. QED
    BY <2>2, <2>3
<1>11. ASSUME NEW c \in Backends \ {b}
       PROVE  StatementView(c)' = IF iso[c] = "rr" /\ snap[c].xmin # 0 THEN StatementView(c)
                                  ELSE CommittedXids' \cup OwnXid(c)
  BY <1>4, Sees, SeesNext DEF OwnXid
<1>12. StatementView(b)' = CommittedXids'
  BY <1>4, SeesNext DEF OwnXid
<1>13. Ended(b, outcome)
  BY <1>4, <1>7, <1>11, <1>12 DEF Ended
<1>14. QED
  BY <1>8, <1>9, <1>10, <1>13 DEF TxInv

----------------------------------------------------------------------------
\* What a step that ends no transaction leaves alone: who wrote a row, a prune
\* mark of a live transaction, and the versions of the head row.
LogKept ==
    /\ Len(log') \in Nat /\ Len(log) <= Len(log')
    /\ \A i \in Ids : log'[i].own = log[i].own /\ (log[i].del \in LiveXids => log'[i].del = log[i].del)
HeadsKept ==
    /\ Len(heads') \in Nat /\ Len(heads) <= Len(heads')
    /\ \A k \in HeadIds : heads'[k] = heads[k]

\* An unchanged table is kept.
LEMMA Unchanged ==
    ASSUME Types
    PROVE  /\ log' = log => LogKept /\ Ids' = Ids
           /\ heads' = heads => HeadsKept /\ HeadIds' = HeadIds
<1>1. Len(log) \in Nat /\ Len(heads) \in Nat
  BY DEF Types, DbTypes
<1>2. QED
  BY <1>1 DEF LogKept, HeadsKept, Ids, HeadIds

\* The fields of a head.
LEMMA HeadFields ==
    ASSUME Types, NEW k \in HeadIds
    PROVE  /\ heads[k] \in HeadType /\ heads[k].xid \in Xids /\ heads[k].gen \in Nat
           /\ heads[k].wm \in 0..MaxLog /\ heads[k].wm \in Nat /\ heads[k].rows \in SUBSET (1..MaxLog)
<1>1. heads[k] \in HeadType /\ MaxLog \in Nat
  BY BoundsAssumption DEF Types, DbTypes, HeadIds
<1>2. QED
  BY <1>1 DEF HeadType

\* Rows and heads name xids that were assigned, so a new xid is none of theirs.
LEMMA OldXids ==
    ASSUME IInv, NEW b \in Backends, Worked(b), NEW x \in 0..Len(xact)
    PROVE  /\ x \in RunningXids' <=> x \in RunningXids
           /\ x \in LiveXids' <=> x \in LiveXids
           /\ \A c \in Backends : x \in StatementView(c)' <=> x \in StatementView(c)
           /\ \A c \in Backends : x # NoXid => (x = xid'[c] <=> x = xid[c])
<1>1. TxInv /\ TxTypes
  BY DEF IInv, TxInv
<1>2. Len(xact) \in Nat /\ OwnXid(b) \in SUBSET RunningXids /\ OwnXid(b) \in SUBSET StatementView(b)
  BY <1>1, XidNumbers, ViewBounds, Sees
<1>3. x \in OwnXid(b)' => x \in OwnXid(b)
  BY <1>2 DEF Worked, OwnXid
<1>4. x \in RunningXids' <=> x \in RunningXids
  BY <1>2, <1>3 DEF Worked
<1>5. x \in LiveXids' <=> x \in LiveXids
  BY <1>4 DEF Worked, LiveXids
<1>6. ASSUME NEW c \in Backends PROVE x \in StatementView(c)' <=> x \in StatementView(c)
  <2>1. CASE c = b
    BY <1>2, <1>3, <2>1 DEF Worked
  <2>2. CASE c # b
    BY <2>2 DEF Worked
  <2>3. QED
    BY <2>1, <2>2
<1>7. ASSUME NEW c \in Backends, x # NoXid PROVE x = xid'[c] <=> x = xid[c]
  <2>1. CASE c = b
    BY <1>2, <1>7, <2>1 DEF Worked
  <2>2. CASE c # b
    BY <2>2 DEF Worked
  <2>3. QED
    BY <2>1, <2>2
<1>8. QED
  BY <1>4, <1>5, <1>6, <1>7

\* A good engine stays good while transactions go on: rows, heads and prune
\* marks it depends on are kept, and new ones are above its watermark.
LEMMA EngineStays ==
    ASSUME IInv, NEW b \in Backends, Worked(b), LogKept, HeadsKept,
           NEW c \in Backends, NEW d \in CacheType, EngineGood(c, d)
    PROVE  EngineGood(c, d)'
<1>1. TxInv /\ LogOwned /\ Types
  BY DEF IInv
<1>2. Len(log) \in Nat /\ Len(xact) \in Nat /\ Len(heads) \in Nat
  BY <1>1, XidNumbers DEF TxInv, Types, DbTypes
<1>3. \A i \in Ids : i \in Ids' /\ log[i].own \in 0..Len(xact) /\ log[i].own # NoXid /\ log[i].del \in 0..Len(xact)
  BY <1>1, <1>2 DEF LogOwned, Ids, LogKept, NoXid
<1>4. \A i \in Ids :
        /\ log'[i].own \in StatementView(c)' <=> log[i].own \in StatementView(c)
        /\ log'[i].own \in RunningXids' <=> log[i].own \in RunningXids
        /\ log'[i].own = xid'[c] <=> log[i].own = xid[c]
  BY <1>3, OldXids DEF LogKept
<1>5. \A i \in Ids : log[i].del \in StatementView(c) =>
        log'[i].del \in StatementView(c)' /\ (log'[i].del = xid'[c] <=> log[i].del = xid[c])
  <2> SUFFICES ASSUME NEW i \in Ids, log[i].del \in StatementView(c)
               PROVE  log'[i].del \in StatementView(c)' /\ (log'[i].del = xid'[c] <=> log[i].del = xid[c])
    OBVIOUS
  <2>1. log[i].del \in LiveXids /\ log[i].del # NoXid
    BY <1>1, ViewBounds, XidNumbers DEF TxInv
  <2>2. log'[i].del = log[i].del
    BY <2>1 DEF LogKept
  <2>3. QED
    BY <1>3, <2>1, <2>2, OldXids
<1>6. EngineVisible(c, d)'
  BY <1>3, <1>4, <1>5 DEF EngineGood, EngineVisible
<1>7. EngineComplete(c, d)'
  <2>1. d.eng.applied \in Nat /\ d.eng.applied <= Len(log)
    BY DEF EngineGood, EngineComplete, CacheType, EngineType
  <2>2. \A i \in 1..d.eng.applied : i \in Ids
    BY <1>2, <2>1 DEF Ids
  <2>3. d.eng.applied <= Len(log)'
    BY <1>2, <2>1 DEF LogKept
  <2>4. \A i \in Ids : log'[i].own \in CommittedXids' <=> log[i].own \in CommittedXids
    BY DEF Worked, LogKept
  <2>5. \A i \in 1..d.eng.applied :
            /\ log'[i].own \in StatementView(c)' => i \in d.eng.rows
            /\ d.fixed # "changed" =>
                /\ log'[i].own \in RunningXids' => log'[i].own = xid'[c]
                /\ log'[i].own \in CommittedXids' => i \in d.eng.rows
    BY <1>4, <2>2, <2>4 DEF EngineGood, EngineComplete
  <2>6. QED
    BY <2>3, <2>5 DEF EngineComplete
<1>8. EngineBased(c, d)'
  <2> SUFFICES ASSUME d.eng.gen # 0 PROVE EngineBased(c, d)'
    BY DEF EngineBased
  <2>1. PICK k \in HeadIds :
            /\ heads[k].gen = d.eng.gen
            /\ heads[k].rows \subseteq d.eng.rows
            /\ heads[k].xid \in CommittedXids \cup OwnXid(c)
            /\ d.levels = {} => heads[k].xid \in CommittedXids
    BY DEF EngineGood, EngineBased
  <2>2. k \in HeadIds' /\ heads'[k] = heads[k]
    BY <1>2 DEF HeadsKept, HeadIds
  <2>3. CommittedXids' = CommittedXids /\ OwnXid(c) \in SUBSET OwnXid(c)'
    BY DEF Worked, OwnXid
  <2>4. QED
    BY <2>1, <2>2, <2>3 DEF EngineBased
<1>9. QED
  BY <1>6, <1>7, <1>8 DEF EngineGood, EngineShape, EmptyEngine

\* The versions of the head row keep what HeadsInv says of them, pruning aside.
LEMMA HeadsStay ==
    ASSUME IInv, NEW b \in Backends, Worked(b), LogKept, HeadsKept,
           buildLock' = buildLock \/ (buildLock = NoBackend /\ buildLock' = b)
    PROVE  /\ \A k \in HeadIds :
                /\ k \in HeadIds' /\ heads'[k] = heads[k] /\ (LiveHead(k)' <=> LiveHead(k))
                /\ HeadOwned(k)' /\ (LiveHead(k) => HeadComplete(k)')
                /\ ClosedAt(k, CommittedXids)' /\ \A c \in Backends : ClosedAt(k, StatementView(c))'
           /\ \A j, k \in HeadIds : j < k => Grown(j, k)'
<1>1. TxInv /\ LogOwned /\ Types /\ HeadsInv
  BY DEF IInv
<1>2. Len(log) \in Nat /\ Len(xact) \in Nat /\ Len(heads) \in Nat
  BY <1>1, XidNumbers DEF TxInv, Types, DbTypes
<1>3. \A i \in Ids : i \in Ids' /\ log[i].own \in 0..Len(xact) /\ log'[i].own = log[i].own
  BY <1>1, <1>2 DEF LogOwned, Ids, LogKept
<1>4. \A k \in HeadIds : /\ k \in HeadIds' /\ heads'[k] = heads[k]
                         /\ heads[k].xid \in 1..Len(xact) /\ heads[k].xid \in 0..Len(xact)
  BY <1>1, <1>2 DEF HeadIds, HeadsInv, HeadsOwned, HeadOwned, HeadsKept
<1>5. \A k \in HeadIds : LiveHead(k)' <=> LiveHead(k)
  BY <1>4, OldXids DEF LiveHead
<1>6. ASSUME NEW k \in HeadIds PROVE HeadOwned(k)'
  <2>1. heads[k].gen # 0 /\ heads[k].xid \in 1..Len(xact')
    BY <1>1, <1>2, <1>4 DEF HeadsInv, HeadsOwned, HeadOwned, Worked
  <2>2. ASSUME heads[k].xid \in RunningXids'
        PROVE  buildLock' \in Backends /\ xid'[buildLock'] = heads[k].xid
    <3>1. buildLock \in Backends /\ xid[buildLock] = heads[k].xid
      BY <1>1, <1>4, <2>2, OldXids DEF HeadsInv, HeadsOwned, HeadOwned
    <3>2. buildLock' = buildLock
      BY <3>1, BackendsAssumption
    <3>3. heads[k].xid # NoXid
      BY <1>2, <1>4 DEF NoXid
    <3>4. QED
      BY <1>4, <3>1, <3>2, <3>3, OldXids
  <2>3. QED
    BY <1>4, <2>1, <2>2 DEF HeadOwned
<1>7. ASSUME NEW k \in HeadIds, LiveHead(k) PROVE HeadComplete(k)'
  <2>1. /\ heads[k].wm <= Len(log)
        /\ \A i \in heads[k].rows : i \in Ids /\ log[i].own \in CommittedXids
        /\ \A i \in 1..heads[k].wm :
            log[i].own \notin RunningXids /\ (log[i].own \in CommittedXids => i \in heads[k].rows)
    BY <1>1, <1>7 DEF HeadsInv, HeadsComplete, HeadComplete
  <2>2. heads[k].wm \in Nat
    BY <1>1, HeadFields
  <2>3. heads[k].wm <= Len(log)' /\ \A i \in 1..heads[k].wm : i \in Ids
    BY <1>2, <2>1, <2>2 DEF LogKept, Ids
  <2>4. \A i \in heads[k].rows : i \in Ids' /\ log'[i].own \in CommittedXids'
    BY <1>3, <2>1 DEF Worked
  <2>5. \A i \in 1..heads[k].wm :
            log'[i].own \notin RunningXids' /\ (log'[i].own \in CommittedXids' => i \in heads[k].rows)
    BY <1>3, <2>1, <2>3, OldXids DEF Worked
  <2>6. QED
    BY <1>4, <2>3, <2>4, <2>5 DEF HeadComplete
<1>8. ASSUME NEW j \in HeadIds, NEW k \in HeadIds, j < k PROVE Grown(j, k)'
  BY <1>1, <1>4, <1>5, <1>8 DEF HeadsInv, HeadsChain, Grown
<1>9. ASSUME NEW v, NEW w, v \in SUBSET LiveXids, \A x \in 0..Len(xact) : x \in w <=> x \in v,
             NEW k \in HeadIds,
             heads[k].xid \in v =>
                \A i \in heads[k].rows : log[i].own \in v /\ (i > heads[k].wm => log[i].del \in v)
      PROVE  heads[k].xid \in w =>
                \A i \in heads[k].rows : log'[i].own \in w /\ (i > heads[k].wm => log'[i].del \in w)
  <2> SUFFICES ASSUME heads[k].xid \in w, NEW i \in heads[k].rows
               PROVE  log'[i].own \in w /\ (i > heads[k].wm => log'[i].del \in w)
    OBVIOUS
  <2>1. heads[k].xid \in v
    BY <1>4, <1>9
  <2>2. log[i].own \in v /\ (i > heads[k].wm => log[i].del \in v)
    BY <1>9, <2>1
  <2>3. i \in Ids
    BY <1>1, <1>9, <2>1 DEF HeadsInv, HeadsComplete, HeadComplete, LiveHead
  <2>4. log[i].del \in 0..Len(xact) /\ (log[i].del \in v => log'[i].del = log[i].del)
    BY <1>1, <1>9, <2>3 DEF LogOwned, LogKept
  <2>5. QED
    BY <1>3, <1>9, <2>2, <2>3, <2>4
<1>10. ASSUME NEW k \in HeadIds
       PROVE  ClosedAt(k, CommittedXids)' /\ \A c \in Backends : ClosedAt(k, StatementView(c))'
  <2>1. ClosedAt(k, CommittedXids) /\ CommittedXids' = CommittedXids /\ CommittedXids \in SUBSET LiveXids
    BY <1>1 DEF HeadsInv, ViewsClosed, Closed, Worked, LiveXids
  <2>2. ClosedAt(k, CommittedXids)'
    BY <1>4, <1>9, <2>1 DEF ClosedAt
  <2>3. ASSUME NEW c \in Backends PROVE ClosedAt(k, StatementView(c))'
    <3>1. ClosedAt(k, StatementView(c)) /\ StatementView(c) \in SUBSET LiveXids
      BY <1>1, ViewBounds DEF HeadsInv, ViewsClosed, Closed
    <3>2. \A x \in 0..Len(xact) : x \in StatementView(c)' <=> x \in StatementView(c)
      BY OldXids
    <3>3. QED
      BY <1>4, <1>9, <3>1, <3>2 DEF ClosedAt
  <2>4. QED
    BY <2>2, <2>3
<1>11. QED
  BY <1>4, <1>5, <1>6, <1>7, <1>8, <1>10

\* With no version added, HeadsInv is left to pruning.
LEMMA SameHeads ==
    ASSUME IInv, NEW b \in Backends, Worked(b), LogKept, heads' = heads,
           buildLock' = buildLock \/ (buildLock = NoBackend /\ buildLock' = b)
    PROVE  HeadsOwned' /\ HeadsComplete' /\ HeadsChain' /\ ViewsClosed'
<1>1. HeadsKept /\ HeadIds' = HeadIds
  BY Unchanged DEF IInv
<1>2. /\ \A k \in HeadIds :
            /\ LiveHead(k)' <=> LiveHead(k)
            /\ HeadOwned(k)' /\ (LiveHead(k) => HeadComplete(k)')
            /\ ClosedAt(k, CommittedXids)' /\ \A c \in Backends : ClosedAt(k, StatementView(c))'
      /\ \A j, k \in HeadIds : j < k => Grown(j, k)'
  BY <1>1, HeadsStay
<1>3. HeadsOwned' /\ HeadsComplete' /\ HeadsChain'
  BY <1>1, <1>2 DEF HeadsOwned, HeadsComplete, HeadsChain
<1>4. ViewsClosed'
  BY <1>1, <1>2 DEF ViewsClosed, Closed
<1>5. QED
  BY <1>3, <1>4

\* A step that prunes only what everybody sees in some generation.
LEMMA PrunedStay ==
    ASSUME IInv, NEW b \in Backends, Worked(b), HeadsKept,
           \A i \in Ids' : log'[i].del \in LiveXids' =>
               \/ i \in Ids /\ log[i].del \in LiveXids
               \/ Kept(i, CommittedXids) /\ \A c \in Backends : Kept(i, StatementView(c))
    PROVE  PrunedKept'
<1>1. TxInv /\ Types /\ HeadsInv
  BY DEF IInv
<1>2. Len(heads) \in Nat
  BY <1>1 DEF Types, DbTypes
<1>3. \A k \in HeadIds : k \in HeadIds' /\ heads'[k] = heads[k]
  BY <1>2 DEF HeadsKept, HeadIds
<1>4. \A i : Kept(i, CommittedXids) => Kept(i, CommittedXids)'
  BY <1>3 DEF Kept, Worked
<1>5. ASSUME NEW c \in Backends PROVE \A i : Kept(i, StatementView(c)) => Kept(i, StatementView(c))'
  <2>1. StatementView(c) \in SUBSET StatementView(c)'
    BY DEF Worked
  <2>2. QED
    BY <1>3, <2>1 DEF Kept
<1>6. QED
  BY <1>1, <1>4, <1>5 DEF HeadsInv, PrunedKept

----------------------------------------------------------------------------
\* Engines as statements come by them.

\* The generation a live view sees published is the last it sees, and holds what
\* all the others hold.
LEMMA PublishedIs ==
    ASSUME IInv, NEW v \in SUBSET LiveXids
    PROVE  /\ VisibleHeads(v) = {} => Published(v) = NoHead
           /\ VisibleHeads(v) # {} =>
                \E m \in HeadIds :
                    /\ Published(v) = heads[m] /\ heads[m].xid \in v /\ Published(v) # NoHead
                    /\ \A k \in HeadIds : heads[k].xid \in v =>
                            k <= m /\ heads[k].rows \subseteq heads[m].rows /\ heads[k].gen <= heads[m].gen
<1>1. Types /\ HeadsOwned /\ HeadsChain /\ Len(heads) \in Nat
  BY DEF IInv, HeadsInv, Types, DbTypes
<1>2. ASSUME VisibleHeads(v) # {}
      PROVE  \E m \in HeadIds :
                    /\ Published(v) = heads[m] /\ heads[m].xid \in v /\ Published(v) # NoHead
                    /\ \A k \in HeadIds : heads[k].xid \in v =>
                            k <= m /\ heads[k].rows \subseteq heads[m].rows /\ heads[k].gen <= heads[m].gen
  <2>1. PICK m : m = Max(VisibleHeads(v))
    OBVIOUS
  <2>2. VisibleHeads(v) \in SUBSET (1..Len(heads))
    BY DEF VisibleHeads
  <2>3. m \in VisibleHeads(v) /\ \A k \in VisibleHeads(v) : m >= k
    BY <1>1, <1>2, <2>1, <2>2, IndexMax
  <2>4. m \in HeadIds /\ heads[m].xid \in v /\ Published(v) = heads[m]
    BY <1>2, <2>1, <2>3 DEF HeadIds, Published, VisibleHeads
  <2>5. heads[m] # NoHead
    BY <1>1, <2>4 DEF HeadsOwned, HeadOwned, NoHead
  <2>6. ASSUME NEW k \in HeadIds, heads[k].xid \in v
        PROVE  k <= m /\ heads[k].rows \subseteq heads[m].rows /\ heads[k].gen <= heads[m].gen
    <3>1. k \in VisibleHeads(v) /\ k \in Nat /\ m \in Nat
      BY <1>1, <2>4, <2>6 DEF VisibleHeads, HeadIds
    <3>2. k <= m
      BY <2>3, <3>1
    <3>3. heads[k].gen \in Nat /\ heads[m].gen \in Nat
      BY <1>1, <2>4, HeadFields
    <3>4. CASE k = m
      BY <3>2, <3>3, <3>4
    <3>5. CASE k < m
      <4>1. LiveHead(k) /\ LiveHead(m)
        BY <2>4, <2>6 DEF LiveHead
      <4>2. heads[k].rows \subseteq heads[m].rows /\ heads[k].gen < heads[m].gen
        BY <1>1, <2>4, <3>5, <4>1 DEF HeadsChain, Grown
      <4>3. QED
        BY <3>2, <3>3, <4>2
    <3>6. QED
      BY <3>1, <3>2, <3>4, <3>5
  <2>7. QED
    BY <2>4, <2>5, <2>6
<1>3. QED
  BY <1>2 DEF Published

\* Two live versions with one generation id are the same version.
LEMMA OneGeneration ==
    ASSUME IInv, NEW j \in HeadIds, NEW k \in HeadIds, LiveHead(j), LiveHead(k), heads[j].gen = heads[k].gen
    PROVE  j = k
<1>1. Types /\ HeadsChain /\ Len(heads) \in Nat
  BY DEF IInv, HeadsInv, Types, DbTypes
<1>2. j \in Nat /\ k \in Nat /\ heads[j].gen \in Nat /\ heads[k].gen \in Nat
  BY <1>1, HeadFields DEF HeadIds
<1>3. ~(j < k) /\ ~(k < j)
  BY <1>1, <1>2 DEF HeadsChain, Grown
<1>4. QED
  BY <1>2, <1>3

\* An empty engine misses nothing and contains nothing.
LEMMA EmptyGood ==
    ASSUME IInv, NEW b \in Backends, NEW d, d.eng = EmptyEngine
    PROVE  EngineGood(b, d)
<1>1. d.eng.rows = {} /\ d.eng.applied = 0 /\ d.eng.gen = 0
  BY DEF EmptyEngine
<1>2. Len(log) \in Nat
  BY DEF IInv, Types, DbTypes
<1>3. EngineVisible(b, d) /\ EngineBased(b, d) /\ EngineComplete(b, d)
  BY <1>1, <1>2 DEF EngineVisible, EngineBased, EngineComplete
<1>4. QED
  BY <1>3 DEF EngineGood, EngineShape

\* EngineGood depends on the engine, the marks and whether the base changed.
LEMMA SameEngine ==
    ASSUME NEW b, NEW c, NEW d, EngineGood(b, c), d.eng = c.eng, d.levels = c.levels,
           d.fixed = "changed" <=> c.fixed = "changed"
    PROVE  EngineGood(b, d)
<1>1. EngineShape(d) /\ EngineVisible(b, d) /\ EngineBased(b, d)
  BY DEF EngineGood, EngineShape, EngineVisible, EngineBased
<1>2. EngineComplete(b, d)
  BY DEF EngineGood, EngineComplete
<1>3. QED
  BY <1>1, <1>2 DEF EngineGood

\* The engine that load_graph_file restores from a generation the statement sees.
LEMMA LoadedGood ==
    ASSUME IInv, NEW b \in Backends, NEW k \in HeadIds, heads[k].xid \in StatementView(b),
           NEW d, d.eng = EngineOf(heads[k]), d.levels = {0}
    PROVE  EngineGood(b, d)
<1>1. TxInv /\ Types /\ HeadsInv
  BY DEF IInv
<1>2. LiveHead(k) /\ HeadComplete(k)
  BY <1>1, ViewBounds DEF LiveHead, HeadsInv, HeadsComplete
<1>3. d.eng.built = TRUE /\ d.eng.gen = heads[k].gen /\ d.eng.applied = heads[k].wm /\ d.eng.rows = heads[k].rows
  BY DEF EngineOf
<1>4. EngineVisible(b, d)
  <2>1. \A i \in heads[k].rows :
            log[i].own \in StatementView(b) /\ (i > heads[k].wm => log[i].del \in StatementView(b))
    BY <1>1 DEF HeadsInv, ViewsClosed, Closed, ClosedAt
  <2>2. QED
    BY <1>2, <1>3, <2>1 DEF EngineVisible, HeadComplete
<1>5. EngineComplete(b, d)
  <2>1. \A i \in 1..heads[k].wm : log[i].own \in StatementView(b) => log[i].own \in CommittedXids
    BY <1>1, <1>2, ViewBounds DEF HeadComplete
  <2>2. QED
    BY <1>2, <1>3, <2>1 DEF EngineComplete, HeadComplete
<1>6. EngineBased(b, d)
  BY <1>1, <1>3, ViewBounds DEF EngineBased
<1>7. QED
  BY <1>3, <1>4, <1>5, <1>6 DEF EngineGood, EngineShape

\* What a change of the base does to the provenance.
LEMMA InstallFields ==
    ASSUME NEW c \in CacheType, NEW x \in Int, NEW e \in EngineType, NEW d, d = Install(c, x, e)
    PROVE  /\ d \in CacheType /\ d.eng = e /\ d.levels = {0} /\ d.aborted = c.aborted
           /\ d.fixed = Touch(c.fixed)
<1>1. PICK p : p = PrepareBackendReplay(c, x)
  OBVIOUS
<1>2. /\ c.txStamp \in Int /\ c.levels \in SUBSET {0} /\ c.stamp \in StampType
      /\ c.fixed \in {"notEntered", "preserved", "changed"} /\ c.aborted \in BOOLEAN /\ c.eng \in EngineType
  BY DEF CacheType
<1>3. PICK n \in Int : n = IF c.txStamp = Unset THEN x ELSE c.txStamp
  BY <1>2
<1>4. p = [c EXCEPT !.txStamp = n]
  BY <1>1, <1>3 DEF PrepareBackendReplay
<1>5. /\ p \in CacheType /\ p.txStamp = n /\ p.levels = c.levels /\ p.aborted = c.aborted
      /\ p.fixed = c.fixed /\ p.eng = c.eng
  BY <1>4 DEF CacheType
<1>6. MarkLevel(p.levels, 0) = {0}
  <2>1. \A q \in p.levels : ~(q < 0)
    BY <1>2, <1>5
  <2>2. QED
    BY <2>1 DEF MarkLevel, Truncate
<1>7. PICK s \in StampType : s = Pending(p.txStamp)
  BY <1>5 DEF StampType, Pending
<1>8. PICK f \in {"notEntered", "preserved", "changed"} : f = Touch(p.fixed)
  BY <1>2, <1>5 DEF Touch
<1>9. d = [[p EXCEPT !.levels = {0}, !.stamp = s, !.fixed = f] EXCEPT !.eng = e]
  BY <1>1, <1>6, <1>7, <1>8 DEF Install, Replay, MarkBackendReplay
<1>10. /\ d \in CacheType /\ d.eng = e /\ d.levels = {0} /\ d.aborted = p.aborted /\ d.fixed = f
  BY <1>5, <1>9 DEF CacheType
<1>11. QED
  BY <1>5, <1>8, <1>10

\* Dropping the engine keeps marks and flag.
LEMMA DropFields ==
    ASSUME NEW c \in CacheType, NEW d, d = DropEngine(c)
    PROVE  /\ d \in CacheType /\ d.eng = EmptyEngine /\ d.levels = c.levels /\ d.aborted = c.aborted
           /\ d.fixed = Touch(c.fixed)
<1>1. PICK s \in StampType : s = Unknown
  <2>1. Unknown \in StampType
    BY DEF StampType, Unknown, NoXid
  <2>2. QED
    BY <2>1
<1>2. PICK e \in EngineType : e = EmptyEngine
  <2>1. EmptyEngine \in EngineType
    BY BoundsAssumption DEF EngineType, EmptyEngine
  <2>2. QED
    BY <2>1
<1>3. PICK f \in {"notEntered", "preserved", "changed"} : f = Touch(c.fixed)
  BY DEF CacheType, Touch
<1>4. d = [c EXCEPT !.eng = e, !.stamp = s, !.fixed = f]
  BY <1>1, <1>2, <1>3 DEF DropEngine
<1>5. d \in CacheType /\ d.eng = e /\ d.levels = c.levels /\ d.aborted = c.aborted /\ d.fixed = f
  BY <1>4 DEF CacheType
<1>6. QED
  BY <1>2, <1>3, <1>5

\* The entry of a statement leaves an engine that is good for its snapshot.
LEMMA EnterGood ==
    ASSUME IInv, NEW b \in Backends, NEW d, d = EnterStatement(b)
    PROVE  /\ d \in CacheType /\ d.aborted = FALSE /\ EngineGood(b, d)
           /\ iso[b] = "rr" => d.fixed # "notEntered"
           /\ iso[b] # "rr" => d.fixed = "notEntered"
<1>1. PICK c : c = cache[b]
  OBVIOUS
<1>2. /\ c \in CacheType /\ (~c.aborted => EngineGood(b, c)) /\ c.aborted \in BOOLEAN
      /\ c.fixed # "notEntered" => iso[b] = "rr"
  BY <1>1 DEF IInv, Types, CachesInv, CacheStatus, CacheType
<1>3. PICK e : e = IF iso[b] = "rr" THEN EnterFixedSnapshot(c, StatementView(b)) ELSE c
  OBVIOUS
<1>4. /\ e \in CacheType /\ (~e.aborted => EngineGood(b, e)) /\ e.aborted \in BOOLEAN
      /\ iso[b] = "rr" => e.fixed # "notEntered"
      /\ iso[b] # "rr" => e.fixed = "notEntered"
  <2>1. CASE iso[b] # "rr"
    BY <1>2, <1>3, <2>1
  <2>2. CASE iso[b] = "rr" /\ c.fixed # "notEntered"
    <3>1. e = c
      BY <1>3, <2>2 DEF EnterFixedSnapshot
    <3>2. QED
      BY <1>2, <2>2, <3>1
  <2>3. CASE iso[b] = "rr" /\ c.fixed = "notEntered"
    <3>1. PICK v \in BOOLEAN : v = (c.stamp.kind = "committed" /\ ~c.aborted /\ c.stamp.xid \in StatementView(b))
      OBVIOUS
    <3>2. PICK f \in {"preserved", "changed"} : f = IF v THEN "preserved" ELSE "changed"
      OBVIOUS
    <3>3. e = [c EXCEPT !.fixed = f, !.aborted = ~v]
      BY <1>3, <2>3, <3>1, <3>2 DEF EnterFixedSnapshot
    <3>4. e \in CacheType /\ e.fixed = f /\ e.aborted = ~v /\ e.eng = c.eng /\ e.levels = c.levels
      BY <1>2, <3>3 DEF CacheType
    <3>5. v => EngineGood(b, c) /\ f = "preserved"
      BY <1>2, <3>1, <3>2
    <3>6. v => EngineGood(b, e)
      BY <2>3, <3>4, <3>5, SameEngine
    <3>7. QED
      BY <2>3, <3>4, <3>6
  <2>4. QED
    BY <2>1, <2>2, <2>3
<1>5. d = IF e.aborted THEN [DropEngine(e) EXCEPT !.aborted = FALSE] ELSE e
  BY <1>1, <1>3 DEF EnterStatement, RecoverAbortedReplay
<1>6. CASE ~e.aborted
  BY <1>4, <1>5, <1>6
<1>7. CASE e.aborted
  <2>1. PICK g : g = DropEngine(e)
    OBVIOUS
  <2>2. g \in CacheType /\ g.eng = EmptyEngine /\ g.fixed = Touch(e.fixed)
    BY <1>4, <2>1, DropFields
  <2>3. d = [g EXCEPT !.aborted = FALSE]
    BY <1>5, <1>7, <2>1
  <2>4. d \in CacheType /\ d.aborted = FALSE /\ d.eng = EmptyEngine /\ d.fixed = Touch(e.fixed)
    BY <2>2, <2>3 DEF CacheType
  <2>5. QED
    BY <1>4, <2>4, EmptyGood DEF Touch
<1>8. QED
  BY <1>6, <1>7

\* Loading what the snapshot sees published: the engine is good and contains all
\* generations that are visible, or is not built.
LEMMA LoadGood ==
    ASSUME IInv, NEW b \in Backends, NEW c \in CacheType, c.aborted = FALSE, EngineGood(b, c), NEW x \in Int,
           NEW d, d = LoadPublished(c, x, StatementView(b))
    PROVE  /\ d \in CacheType /\ d.aborted = FALSE /\ EngineGood(b, d)
           /\ d.fixed = "notEntered" <=> c.fixed = "notEntered"
           /\ d.eng.built => \A k \in HeadIds : heads[k].xid \in StatementView(b) =>
                                heads[k].rows \subseteq d.eng.rows
<1>1. PICK v : v = StatementView(b)
  OBVIOUS
<1>2. v \in SUBSET LiveXids /\ v \in SUBSET (CommittedXids \cup OwnXid(b)) /\ OwnXid(b) \in SUBSET RunningXids
  BY <1>1, ViewBounds DEF IInv
<1>3. c.fixed \in {"notEntered", "preserved", "changed"} /\ (Touch(c.fixed) = "notEntered" <=> c.fixed = "notEntered")
  BY DEF CacheType, Touch
<1>4. CASE Resident(c, v)
  <2>1. d = c /\ c.eng.gen = Published(v).gen
    BY <1>1, <1>4 DEF LoadPublished, Resident
  <2>2. ASSUME NEW k \in HeadIds, heads[k].xid \in v PROVE heads[k].rows \subseteq c.eng.rows
    <3>1. VisibleHeads(v) # {}
      BY <2>2 DEF VisibleHeads, HeadIds
    <3>2. PICK m \in HeadIds : /\ Published(v) = heads[m] /\ heads[m].xid \in v
                               /\ heads[k].rows \subseteq heads[m].rows
      BY <1>2, <2>2, <3>1, PublishedIs
    <3>3. heads[m].gen # 0
      BY DEF IInv, HeadsInv, HeadsOwned, HeadOwned
    <3>4. PICK j \in HeadIds : /\ heads[j].gen = c.eng.gen /\ heads[j].rows \subseteq c.eng.rows
                               /\ heads[j].xid \in CommittedXids \cup OwnXid(b)
      BY <2>1, <3>2, <3>3 DEF EngineGood, EngineBased
    <3>5. LiveHead(j) /\ LiveHead(m)
      BY <1>2, <3>2, <3>4 DEF LiveHead, LiveXids
    <3>6. j = m
      BY <2>1, <3>2, <3>4, <3>5, OneGeneration
    <3>7. QED
      BY <3>2, <3>4, <3>6
  <2>3. QED
    BY <1>1, <2>1, <2>2
<1>5. CASE ~Resident(c, v) /\ Published(v) # NoHead
  <2>1. d = Install(c, x, EngineOf(Published(v)))
    BY <1>1, <1>5 DEF LoadPublished
  <2>2. VisibleHeads(v) # {}
    BY <1>5 DEF Published
  <2>3. PICK m \in HeadIds : /\ Published(v) = heads[m] /\ heads[m].xid \in v
                             /\ \A k \in HeadIds : heads[k].xid \in v => heads[k].rows \subseteq heads[m].rows
    BY <1>2, <2>2, PublishedIs
  <2>4. PICK e : e = EngineOf(heads[m])
    OBVIOUS
  <2>5. /\ heads[m].gen \in Nat /\ heads[m].wm \in 0..MaxLog /\ heads[m].rows \in SUBSET (1..MaxLog)
    BY HeadFields DEF IInv
  <2>6. e \in EngineType /\ e.rows = heads[m].rows
    BY <2>4, <2>5 DEF EngineOf, EngineType
  <2>7. /\ d \in CacheType /\ d.eng = e /\ d.levels = {0} /\ d.aborted = c.aborted
        /\ d.fixed = Touch(c.fixed)
    BY <2>1, <2>3, <2>4, <2>6, InstallFields
  <2>8. EngineGood(b, d)
    BY <1>1, <2>3, <2>4, <2>7, LoadedGood
  <2>9. QED
    BY <1>1, <1>3, <2>3, <2>6, <2>7, <2>8
<1>6. CASE ~Resident(c, v) /\ Published(v) = NoHead
  <2>1. d = DropEngine(c)
    BY <1>1, <1>6 DEF LoadPublished
  <2>2. d \in CacheType /\ d.eng = EmptyEngine /\ d.aborted = c.aborted /\ d.fixed = Touch(c.fixed)
    BY <2>1, DropFields
  <2>3. EngineGood(b, d) /\ ~d.eng.built
    BY <2>2, EmptyGood DEF EmptyEngine
  <2>4. QED
    BY <1>3, <2>2, <2>3
<1>7. QED
  BY <1>4, <1>5, <1>6

----------------------------------------------------------------------------
\* The steps.

\* An engine that is good as a value is good as the cache's.
LEMMA CachedGood ==
    ASSUME NEW c, NEW d, EngineGood(c, d)', cache'[c] = d
    PROVE  EngineGood(c, cache[c])'
<1>1. EngineShape(cache[c])'
  BY DEF EngineGood, EngineShape
<1>2. EngineVisible(c, cache[c])'
  BY DEF EngineGood, EngineVisible
<1>3. EngineComplete(c, cache[c])'
  BY DEF EngineGood, EngineComplete
<1>4. EngineBased(c, cache[c])'
  BY DEF EngineGood, EngineBased
<1>5. QED
  BY <1>1, <1>2, <1>3, <1>4 DEF EngineGood

\* What a step of b must establish for itself; the other backends follow.
LEMMA StepKeeps ==
    ASSUME IInv, NEW b \in Backends, TxInv', Worked(b), LogKept, HeadsKept,
           DbTypes', LogOwned', LocksHeld', HeadsInv',
           writers' \subseteq Backends,
           fence' \in Backends \cup {NoBackend}, barrier' \in Backends \cup {NoBackend},
           buildLock' \in Backends \cup {NoBackend},
           NEW d \in CacheType, cache' = [cache EXCEPT ![b] = d],
           NEW p \in PcType, pc' = [pc EXCEPT ![b] = p],
           NEW t \in 0..MaxLog, target' = [target EXCEPT ![b] = t],
           \A k \in HeadIds' \ HeadIds : heads'[k].xid \notin CommittedXids,
           heads' = heads \/ buildLock \in {NoBackend, b},
           \A i \in Ids' \ Ids : log'[i].own = xid'[b] /\ xid'[b] # NoXid,
           \A c \in Backends \ {b} : pc[c] # "out" /\ Covering(c) =>
               \A i \in Ids' : log'[i].del \in LiveXids' =>
                    (i \in Ids /\ log[i].del \in LiveXids) \/ i \in cache[c].eng.rows,
           p # "out" => d.aborted = FALSE /\ (iso'[b] = "rr" => d.fixed # "notEntered"),
           d.fixed # "notEntered" => iso'[b] = "rr" /\ snap'[b].xmin # 0,
           iso'[b] = "none" => d.levels = {},
           ~d.aborted => EngineGood(b, d)',
           p \in {"loaded", "apply", "applyFenced"} => Covering(b)',
           p \in {"ingest", "ingestFenced"} =>
               xid'[b] # NoXid /\ VisibleHeads(View(b))' # {} /\ OwnRowsAfter(b, Published(View(b)).wm)' = {}
    PROVE  IInv'
<1>1. /\ TxInv /\ Types /\ LocksHeld /\ IngestReady /\ HeadsInv /\ CachesInv
      /\ cache \in [Backends -> CacheType] /\ pc \in [Backends -> PcType] /\ target \in [Backends -> 0..MaxLog]
  BY DEF IInv, Types, LockTypes
<1>2. /\ cache'[b] = d /\ pc'[b] = p /\ target'[b] = t
      /\ cache' \in [Backends -> CacheType] /\ pc' \in [Backends -> PcType]
      /\ target' \in [Backends -> 0..MaxLog]
      /\ \A c \in Backends \ {b} : cache'[c] = cache[c] /\ pc'[c] = pc[c] /\ target'[c] = target[c]
  BY <1>1
<1>3. Types'
  BY <1>2 DEF Types, LockTypes
<1>4. \A c \in Backends \ {b} : /\ iso'[c] = iso[c] /\ xid'[c] = xid[c] /\ snap'[c] = snap[c]
                                /\ StatementView(c)' = StatementView(c)
  BY DEF Worked
<1>5. Len(heads) \in Nat /\ Len(log) \in Nat
  BY <1>1 DEF Types, DbTypes
<1>6. CachesInv'
  <2> SUFFICES ASSUME NEW c \in Backends
               PROVE  /\ CacheStatus(c)'
                      /\ ~cache'[c].aborted => EngineGood(c, cache[c])'
                      /\ pc'[c] \in {"loaded", "apply", "applyFenced"} => Covering(c)'
    BY DEF CachesInv
  <2>1. CASE c = b
    <3>1. CacheStatus(b)'
      BY <1>2 DEF CacheStatus
    <3>2. QED
      BY <1>2, <2>1, <3>1, CachedGood
  <2>2. CASE c # b
    <3>1. PICK e : e = cache[c]
      OBVIOUS
    <3>2. e \in CacheType /\ cache'[c] = e
      BY <1>1, <1>2, <2>2, <3>1
    <3>3. CacheStatus(c)'
      BY <1>1, <1>2, <1>4, <2>2 DEF CachesInv, CacheStatus
    <3>4. ASSUME ~e.aborted PROVE EngineGood(c, cache[c])'
      <4>1. EngineGood(c, e)
        BY <1>1, <3>1, <3>4 DEF CachesInv
      <4>2. EngineGood(c, e)'
        BY <3>2, <4>1, EngineStays
      <4>3. QED
        BY <3>2, <4>2, CachedGood
    <3>5. ASSUME pc[c] \in {"loaded", "apply", "applyFenced"} PROVE Covering(c)'
      <4>1. Covering(c)
        BY <1>1, <3>5 DEF CachesInv
      <4>2. ASSUME NEW k \in HeadIds', heads'[k].xid \in CommittedXids', heads'[k].xid < snap'[c].xmin
            PROVE  heads'[k].rows \subseteq cache'[c].eng.rows
        <5>1. CommittedXids' = CommittedXids
          BY DEF Worked
        <5>2. k \in HeadIds
          BY <4>2, <5>1
        <5>3. heads'[k] = heads[k]
          BY <5>2 DEF HeadsKept
        <5>4. QED
          BY <1>2, <1>4, <2>2, <4>1, <4>2, <5>1, <5>2, <5>3 DEF Covering
      <4>3. ASSUME NEW i \in Ids', log'[i].del \in LiveXids' PROVE i \in cache'[c].eng.rows
        BY <1>2, <2>2, <3>5, <4>1, <4>3 DEF Covering
      <4>4. cache'[c].eng.built
        BY <1>2, <2>2, <4>1 DEF Covering
      <4>5. QED
        BY <4>2, <4>3, <4>4 DEF Covering
    <3>6. QED
      BY <1>2, <2>2, <3>2, <3>3, <3>4, <3>5
  <2>3. QED
    BY <2>1, <2>2
<1>7. IngestReady'
  <2> SUFFICES ASSUME NEW c \in Backends, pc'[c] \in {"ingest", "ingestFenced"}
               PROVE  xid'[c] # NoXid /\ VisibleHeads(View(c))' # {} /\ OwnRowsAfter(c, Published(View(c)).wm)' = {}
    BY DEF IngestReady
  <2>1. CASE c = b
    BY <1>2, <2>1
  <2>2. CASE c # b
    <3>1. pc[c] \in {"ingest", "ingestFenced"} /\ buildLock = c
      BY <1>1, <1>2, <2>2 DEF LocksHeld
    <3>2. iso[c] = "rc" /\ heads' = heads
      BY <1>1, <2>2, <3>1, BackendsAssumption DEF LocksHeld
    <3>3. View(c)' = View(c)
      <4>1. View(c) = CommittedXids \cup OwnXid(c)
        BY <3>2 DEF View, OwnXid
      <4>2. View(c)' = CommittedXids' \cup OwnXid(c)'
        BY <1>4, <2>2, <3>2 DEF View, OwnXid
      <4>3. QED
        BY <1>4, <2>2, <4>1, <4>2 DEF Worked, OwnXid
    <3>4. VisibleHeads(View(c))' = VisibleHeads(View(c))
      BY <3>2, <3>3 DEF VisibleHeads
    <3>5. Published(View(c))' = Published(View(c))
      BY <3>2, <3>4 DEF Published, NoHead
    <3>6. PICK w : w = Published(View(c)).wm
      OBVIOUS
    <3>7. OwnRowsAfter(c, w) = {}
      BY <1>1, <3>1, <3>6 DEF IngestReady
    <3>8. xid'[b] # NoXid => xid'[b] # xid'[c]
      BY <2>2 DEF TxInv, TxOwned
    <3>9. {i \in Ids' : i > w /\ log'[i].own = xid'[c]} = {}
      <4>1. \A i \in Ids' : i \notin Ids => log'[i].own # xid'[c]
        BY <3>8
      <4>2. \A i \in Ids : log'[i].own = xid'[c] => log[i].own = xid[c]
        BY <1>4, <2>2 DEF LogKept
      <4>3. QED
        BY <3>7, <4>1, <4>2 DEF OwnRowsAfter
    <3>10. OwnRowsAfter(c, Published(View(c)).wm)' = {}
      BY <3>5, <3>6, <3>9 DEF OwnRowsAfter
    <3>11. QED
      BY <1>1, <1>4, <2>2, <3>1, <3>4, <3>10 DEF IngestReady
  <2>3. QED
    BY <2>1, <2>2
<1>8. QED
  BY <1>3, <1>6, <1>7 DEF IInv

\* An undecided row keeps its writer, and one being pruned its pruner.
LEMMA OldRows ==
    ASSUME IInv, NEW b \in Backends, Worked(b), writers \subseteq writers',
           buildLock' = buildLock \/ (buildLock = NoBackend /\ buildLock' = b),
           NEW i \in Ids
    PROVE  /\ log[i].own \in 1..Len(xact')
           /\ log[i].del \in 0..Len(xact')
           /\ log[i].own \in RunningXids' => \E w \in writers' : xid'[w] = log[i].own
           /\ log[i].del \in RunningXids' => buildLock' \in Backends /\ xid'[buildLock'] = log[i].del
<1>1. TxInv /\ Types /\ LogOwned
  BY DEF IInv
<1>2. Len(xact) \in Nat /\ Len(xact') \in Nat /\ Len(xact) <= Len(xact')
  BY <1>1, XidNumbers DEF TxInv, Worked
<1>3. /\ log[i].own \in 0..Len(xact) /\ log[i].own # NoXid /\ log[i].del \in 0..Len(xact)
      /\ log[i].own \in 1..Len(xact') /\ log[i].del \in 0..Len(xact')
  BY <1>1, <1>2 DEF LogOwned, NoXid
<1>4. ASSUME log[i].own \in RunningXids' PROVE \E w \in writers' : xid'[w] = log[i].own
  <2>1. PICK w \in writers : xid[w] = log[i].own
    BY <1>1, <1>3, <1>4, OldXids DEF LogOwned
  <2>2. w \in Backends /\ w \in writers'
    BY <1>1 DEF Types, LockTypes
  <2>3. QED
    BY <1>3, <2>1, <2>2, OldXids
<1>5. ASSUME log[i].del \in RunningXids'
      PROVE  buildLock' \in Backends /\ xid'[buildLock'] = log[i].del
  <2>1. log[i].del \in RunningXids
    BY <1>3, <1>5, OldXids
  <2>2. buildLock \in Backends /\ xid[buildLock] = log[i].del
    BY <1>1, <2>1 DEF LogOwned
  <2>3. buildLock' = buildLock
    BY <2>2, BackendsAssumption
  <2>4. log[i].del # NoXid
    BY <1>1, <2>1, XidNumbers DEF TxInv, LiveXids
  <2>5. QED
    BY <1>3, <2>2, <2>3, <2>4, OldXids
<1>6. QED
  BY <1>3, <1>4, <1>5

\* Steps that touch neither log, heads nor floors keep the shared tables in order.
LEMMA QuietKeeps ==
    ASSUME IInv, NEW b \in Backends, Worked(b), UNCHANGED <<log, heads, floors, writers>>,
           buildLock' = buildLock \/ (buildLock = NoBackend /\ buildLock' = b)
    PROVE  /\ LogKept /\ HeadsKept /\ Ids' = Ids /\ HeadIds' = HeadIds
           /\ DbTypes' /\ LogOwned' /\ HeadsInv'
           /\ \A i \in Ids : log'[i].del \in LiveXids' => log[i].del \in LiveXids
<1>1. TxInv /\ Types /\ LogOwned
  BY DEF IInv
<1>2. LogKept /\ HeadsKept /\ Ids' = Ids /\ HeadIds' = HeadIds /\ DbTypes'
  BY <1>1, Unchanged DEF Types, DbTypes
<1>3. Len(xact) \in Nat /\ Len(xact') \in Nat /\ Len(xact) <= Len(xact')
  BY <1>1, XidNumbers DEF TxInv, Worked
<1>4. \A i \in Ids : /\ log[i].own \in 0..Len(xact) /\ log[i].own # NoXid /\ log[i].del \in 0..Len(xact)
                     /\ log[i].own \in 1..Len(xact') /\ log[i].del \in 0..Len(xact')
  BY <1>1, <1>3 DEF LogOwned, NoXid
<1>5. \A i \in Ids : log'[i].del \in LiveXids' => log[i].del \in LiveXids
  BY <1>4, OldXids
<1>6. LogOwned'
  BY <1>2, OldRows DEF LogOwned
<1>7. HeadsInv'
  <2>1. HeadsOwned' /\ HeadsComplete' /\ HeadsChain' /\ ViewsClosed'
    BY <1>2, SameHeads
  <2>2. PrunedKept'
    BY <1>2, <1>5, PrunedStay
  <2>3. QED
    BY <2>1, <2>2 DEF HeadsInv
<1>8. QED
  BY <1>2, <1>5, <1>6, <1>7

\* The locks of the other backends are theirs.
LEMMA LocksStay ==
    ASSUME IInv, NEW b \in Backends, Worked(b), NEW p \in PcType, pc' = [pc EXCEPT ![b] = p],
           \/ fence' = fence
           \/ fence = b /\ fence' = NoBackend
           \/ fence = NoBackend /\ fence' = b /\ writers' \subseteq {b},
           writers' = writers \/ fence' = NoBackend,
           buildLock' = buildLock \/ (buildLock = NoBackend /\ buildLock' = b),
           buildLock' = b => iso'[b] = "rc",
           p \in {"applyFenced", "ingestFenced"} => fence' = b,
           p \in {"ingest", "ingestFenced"} => buildLock' = b,
           p # "out" => iso'[b] # "none" /\ snap'[b].xmin # 0
    PROVE  LocksHeld'
<1>1. LocksHeld /\ pc \in [Backends -> PcType]
  BY DEF IInv, Types, LockTypes
<1>2. pc'[b] = p /\ \A c \in Backends \ {b} : pc'[c] = pc[c] /\ iso'[c] = iso[c] /\ snap'[c] = snap[c]
  BY <1>1 DEF Worked
<1>3. fence' \in Backends => writers' \subseteq {fence'}
  BY <1>1, BackendsAssumption DEF LocksHeld
<1>4. buildLock' \in Backends => iso'[buildLock'] = "rc"
  BY <1>1, <1>2, BackendsAssumption DEF LocksHeld
<1>5. ASSUME NEW c \in Backends
      PROVE  /\ pc'[c] \in {"applyFenced", "ingestFenced"} => fence' = c
             /\ pc'[c] \in {"ingest", "ingestFenced"} => buildLock' = c
             /\ pc'[c] # "out" => iso'[c] # "none" /\ snap'[c].xmin # 0
  <2>1. CASE c = b
    BY <1>2, <2>1
  <2>2. CASE c # b
    BY <1>1, <1>2, <2>2, BackendsAssumption DEF LocksHeld
  <2>3. QED
    BY <2>1, <2>2
<1>6. QED
  BY <1>3, <1>4, <1>5 DEF LocksHeld

\* BEGIN.
LEMMA BeginKeeps ==
    ASSUME IInv, NEW b \in Backends, NEW level \in {"rc", "rr"}, Begin(b, level)
    PROVE  IInv'
<1>1. /\ iso[b] = "none" /\ iso' = [iso EXCEPT ![b] = level]
      /\ UNCHANGED <<log, heads, floors, pc, target, writers, fence, barrier, buildLock, cache>>
  BY DEF Begin, dbVars, lockVars
<1>2. /\ TxInv /\ Types /\ LocksHeld /\ CachesInv /\ pc \in [Backends -> PcType]
      /\ target \in [Backends -> 0..MaxLog] /\ cache \in [Backends -> CacheType]
      /\ iso \in [Backends -> {"none", "rc", "rr"}]
  BY DEF IInv, TxInv, TxTypes, Types, LockTypes
<1>3. TxInv' /\ Worked(b)
  BY <1>2, BeginKeepsTx
<1>4. PICK d : d = cache[b]
  OBVIOUS
<1>5. /\ d \in CacheType /\ cache' = [cache EXCEPT ![b] = d]
      /\ pc[b] = "out" /\ pc' = [pc EXCEPT ![b] = "out"]
      /\ target[b] \in 0..MaxLog /\ target' = [target EXCEPT ![b] = target[b]]
  BY <1>1, <1>2, <1>4 DEF LocksHeld
<1>6. iso'[b] = level /\ d.fixed = "notEntered" /\ (~d.aborted => EngineGood(b, d))
  BY <1>1, <1>2, <1>4 DEF CachesInv, CacheStatus
<1>7. /\ LogKept /\ HeadsKept /\ Ids' = Ids /\ HeadIds' = HeadIds /\ DbTypes' /\ LogOwned' /\ HeadsInv'
      /\ \A i \in Ids : log'[i].del \in LiveXids' => log[i].del \in LiveXids
  BY <1>1, <1>3, QuietKeeps
<1>8. LocksHeld'
  <2>1. buildLock # b
    BY <1>1, <1>2 DEF LocksHeld
  <2>2. QED
    BY <1>1, <1>3, <1>5, <2>1, LocksStay DEF PcType
<1>9. ~d.aborted => EngineGood(b, d)'
  BY <1>3, <1>5, <1>6, <1>7, EngineStays
<1>10. /\ writers' \subseteq Backends /\ fence' \in Backends \cup {NoBackend}
       /\ barrier' \in Backends \cup {NoBackend} /\ buildLock' \in Backends \cup {NoBackend}
  BY <1>1, <1>2 DEF Types, LockTypes
<1>11. PICK p \in PcType : p = "out"
  BY DEF PcType
<1>12. QED
  BY <1>1, <1>3, <1>5, <1>6, <1>7, <1>8, <1>9, <1>10, <1>11, StepKeeps

\* The end of a statement.
LEMMA EndStatementKeeps ==
    ASSUME IInv, NEW b \in Backends, EndStatement(b)
    PROVE  IInv'
<1>1. /\ pc[b] = "serve" /\ pc' = [pc EXCEPT ![b] = "out"] /\ KeepSnapshot(b)
      /\ UNCHANGED <<log, xact, heads, floors, iso, xid, target, writers, fence, barrier, buildLock, cache>>
  BY DEF EndStatement, dbVars, lockVars
<1>2. /\ TxInv /\ Types /\ LocksHeld /\ CachesInv /\ pc \in [Backends -> PcType]
      /\ target \in [Backends -> 0..MaxLog] /\ cache \in [Backends -> CacheType]
  BY DEF IInv, Types, LockTypes
<1>3. iso[b] # "none"
  BY <1>1, <1>2 DEF LocksHeld
<1>4. PICK s : s = IF iso[b] = "rr" THEN StatementSnapshot(b) ELSE NoSnapshot
  OBVIOUS
<1>5. snap' = [snap EXCEPT ![b] = s] /\ (iso[b] = "rr" => s.xmin # 0)
  <2>1. StatementSnapshot(b).xmin \in 1..NextXid
    BY <1>2, SnapshotFacts
  <2>2. QED
    BY <1>1, <1>4, <2>1 DEF KeepSnapshot
<1>6. TxInv' /\ Worked(b) /\ snap'[b] = s
  <2>1. s = NoSnapshot => iso[b] # "rr"
    BY <1>4, <1>5 DEF NoSnapshot
  <2>2. QED
    BY <1>1, <1>2, <1>3, <1>4, <1>5, <2>1, WorkKeepsTx
<1>7. PICK d : d = cache[b]
  OBVIOUS
<1>8. /\ d \in CacheType /\ cache' = [cache EXCEPT ![b] = d]
      /\ target[b] \in 0..MaxLog /\ target' = [target EXCEPT ![b] = target[b]]
      /\ d.fixed # "notEntered" => iso[b] = "rr"
      /\ ~d.aborted => EngineGood(b, d)
  BY <1>1, <1>2, <1>7 DEF CachesInv, CacheStatus
<1>9. /\ LogKept /\ HeadsKept /\ Ids' = Ids /\ HeadIds' = HeadIds /\ DbTypes' /\ LogOwned' /\ HeadsInv'
      /\ \A i \in Ids : log'[i].del \in LiveXids' => log[i].del \in LiveXids
  BY <1>1, <1>6, QuietKeeps
<1>10. PICK p \in PcType : p = "out"
  BY DEF PcType
<1>11. LocksHeld'
  <2>1. buildLock' = b => iso'[b] = "rc"
    BY <1>1, <1>2 DEF LocksHeld
  <2>2. QED
    BY <1>1, <1>6, <1>10, <2>1, LocksStay
<1>12. ~d.aborted => EngineGood(b, d)'
  BY <1>6, <1>8, <1>9, EngineStays
<1>13. /\ writers' \subseteq Backends /\ fence' \in Backends \cup {NoBackend}
       /\ barrier' \in Backends \cup {NoBackend} /\ buildLock' \in Backends \cup {NoBackend}
  BY <1>1, <1>2 DEF Types, LockTypes
<1>14. QED
  BY <1>1, <1>3, <1>5, <1>6, <1>8, <1>9, <1>10, <1>11, <1>12, <1>13, StepKeeps

\* An engine with all generations its snapshot sees contains whatever the horizon
\* has let go.
LEMMA CoverLoaded ==
    ASSUME IInv, NEW b \in Backends, Worked(b), UNCHANGED <<log, heads>>,
           NEW d, d.eng.built, cache'[b] = d, snap'[b] = StatementSnapshot(b),
           \A k \in HeadIds : heads[k].xid \in StatementView(b) => heads[k].rows \subseteq d.eng.rows
    PROVE  Covering(b)'
<1>1. TxInv /\ Types /\ LogOwned /\ HeadsInv
  BY DEF IInv
<1>2. Ids' = Ids /\ HeadIds' = HeadIds
  BY <1>1, Unchanged
<1>3. ASSUME NEW k \in HeadIds, heads[k].xid \in CommittedXids, heads[k].xid < snap'[b].xmin
      PROVE  heads[k].rows \subseteq d.eng.rows
  <2>1. heads[k].xid \in StatementView(b)
    <3>1. CASE iso[b] = "rr"
      BY <1>1, <1>3, <3>1, SnapshotFacts DEF StatementView
    <3>2. CASE iso[b] # "rr"
      BY <1>1, <1>3, <3>2, ViewBounds
    <3>3. QED
      BY <3>1, <3>2
  <2>2. QED
    BY <2>1
<1>4. ASSUME NEW i \in Ids, log[i].del \in LiveXids' PROVE i \in d.eng.rows
  <2>1. log[i].del \in LiveXids
    BY <1>1, <1>4, OldXids DEF LogOwned
  <2>2. Kept(i, StatementView(b))
    BY <1>1, <2>1 DEF HeadsInv, PrunedKept
  <2>3. QED
    BY <2>2 DEF Kept
<1>5. CommittedXids' = CommittedXids
  BY DEF Worked
<1>6. QED
  BY <1>2, <1>3, <1>4, <1>5 DEF Covering

\* A statement enters: it recovers its cache and loads what its snapshot sees.
LEMMA EnterKeeps ==
    ASSUME IInv, NEW b \in Backends, Idle(b), RegisterSnapshot(b),
           cache' = [cache EXCEPT ![b] = Entered(b)],
           NEW p \in {"serve", "loaded"}, pc' = [pc EXCEPT ![b] = p],
           p = "loaded" => Entered(b).eng.built,
           UNCHANGED <<log, xact, heads, floors, iso, xid, target, writers, fence, barrier, buildLock>>
    PROVE  IInv'
<1>1. /\ TxInv /\ Types /\ LocksHeld /\ target \in [Backends -> 0..MaxLog] /\ cache \in [Backends -> CacheType]
      /\ iso[b] # "none" /\ xid[b] \in Int
  <2>1. xid[b] \in Xids \cup {NoXid}
    BY DEF IInv, TxInv, TxTypes
  <2>2. xid[b] \in Int
    BY <2>1 DEF Xids, NoXid
  <2>3. QED
    BY <2>2 DEF IInv, Types, LockTypes, Idle
<1>2. StatementSnapshot(b).xmin # 0
  <2>1. StatementSnapshot(b).xmin \in 1..NextXid
    BY <1>1, SnapshotFacts
  <2>2. QED
    BY <2>1
<1>3. TxInv' /\ Worked(b) /\ snap'[b] = StatementSnapshot(b)
  <2>1. PICK s : s = StatementSnapshot(b)
    OBVIOUS
  <2>2. s # NoSnapshot /\ snap' = [snap EXCEPT ![b] = s]
    BY <1>2, <2>1 DEF NoSnapshot, RegisterSnapshot
  <2>3. QED
    BY <1>1, <2>1, <2>2, WorkKeepsTx
<1>4. PICK c : c = EnterStatement(b)
  OBVIOUS
<1>5. PICK d : d = Entered(b)
  OBVIOUS
<1>6. /\ c \in CacheType /\ c.aborted = FALSE /\ EngineGood(b, c)
      /\ iso[b] = "rr" => c.fixed # "notEntered"
      /\ iso[b] # "rr" => c.fixed = "notEntered"
  BY <1>4, EnterGood
<1>7. PICK x \in Int : d = LoadPublished(c, x, StatementView(b))
  BY <1>1, <1>4, <1>5 DEF Entered
<1>8. /\ d \in CacheType /\ d.aborted = FALSE /\ EngineGood(b, d)
      /\ d.fixed = "notEntered" <=> c.fixed = "notEntered"
      /\ d.eng.built => \A k \in HeadIds : heads[k].xid \in StatementView(b) =>
                            heads[k].rows \subseteq d.eng.rows
  BY <1>6, <1>7, LoadGood
<1>9. cache' = [cache EXCEPT ![b] = d] /\ cache'[b] = d /\ target' = [target EXCEPT ![b] = target[b]]
      /\ target[b] \in 0..MaxLog
  BY <1>1, <1>5
<1>10. /\ LogKept /\ HeadsKept /\ Ids' = Ids /\ HeadIds' = HeadIds /\ DbTypes' /\ LogOwned' /\ HeadsInv'
       /\ \A i \in Ids : log'[i].del \in LiveXids' => log[i].del \in LiveXids
  BY <1>3, QuietKeeps
<1>11. p \in PcType /\ p \notin {"applyFenced", "ingestFenced", "ingest", "apply", "out"}
  BY DEF PcType
<1>12. LocksHeld'
  <2>1. buildLock' = b => iso'[b] = "rc"
    BY <1>1 DEF LocksHeld
  <2>2. QED
    BY <1>1, <1>2, <1>3, <1>11, <2>1, LocksStay
<1>13. EngineGood(b, d)'
  BY <1>3, <1>8, <1>10, EngineStays
<1>14. p = "loaded" => Covering(b)'
  BY <1>3, <1>5, <1>8, <1>9, CoverLoaded
<1>15. /\ writers' \subseteq Backends /\ fence' \in Backends \cup {NoBackend}
       /\ barrier' \in Backends \cup {NoBackend} /\ buildLock' \in Backends \cup {NoBackend}
  BY <1>1 DEF Types, LockTypes
<1>16. /\ p # "out" => d.aborted = FALSE /\ (iso'[b] = "rr" => d.fixed # "notEntered")
       /\ d.fixed # "notEntered" => iso'[b] = "rr" /\ snap'[b].xmin # 0
       /\ iso'[b] # "none"
  BY <1>1, <1>2, <1>3, <1>6, <1>8
<1>17. QED
  BY <1>3, <1>8, <1>9, <1>10, <1>11, <1>12, <1>13, <1>14, <1>15, <1>16, StepKeeps

\* A query, and the start of apply_sync.
LEMMA QueryKeeps ==
    ASSUME IInv, NEW b \in Backends, Query(b) \/ ApplyBegin(b)
    PROVE  IInv'
<1>1. CASE Query(b)
  <2>1. PICK p \in {"serve", "loaded"} : p = "serve"
    OBVIOUS
  <2>2. QED
    BY <1>1, <2>1, EnterKeeps DEF Query, dbVars, lockVars
<1>2. CASE ApplyBegin(b)
  <2>1. PICK p \in {"serve", "loaded"} : p = "loaded"
    OBVIOUS
  <2>2. QED
    BY <1>2, <2>1, EnterKeeps DEF ApplyBegin, dbVars, lockVars
<1>3. QED
  BY <1>1, <1>2

\* The largest id of a visible row is an id, or 0.
LEMMA MaxIdType ==
    ASSUME Types, NEW v
    PROVE  MaxSyncLogId(v) \in 0..Len(log) /\ MaxSyncLogId(v) \in 0..MaxLog
           /\ \A i \in Ids : RowVisible(i, v) => i <= MaxSyncLogId(v)
<1> DEFINE S == {0} \cup {i \in Ids : RowVisible(i, v)}
<1>1. Len(log) \in Nat /\ Len(log) <= MaxLog /\ MaxLog \in Nat
  BY BoundsAssumption DEF Types, DbTypes
<1>2. S \in SUBSET (0..Len(log)) /\ S # {}
  BY <1>1 DEF Ids
<1>3. IsFiniteSet(S) /\ S \in SUBSET Int
  <2>1. IsFiniteSet(0..Len(log))
    BY <1>1, FS_Interval
  <2>2. QED
    BY <1>1, <1>2, <2>1, FS_Subset
<1>4. Max(S) \in S /\ \A y \in S : Max(S) >= y
  BY <1>2, <1>3, MaxProperty
<1>5. MaxSyncLogId(v) = Max(S)
  BY DEF MaxSyncLogId
<1>6. MaxSyncLogId(v) \in 0..Len(log)
  BY <1>2, <1>4, <1>5
<1>7. \A i \in Ids : RowVisible(i, v) => i <= MaxSyncLogId(v)
  BY <1>1, <1>4, <1>5, <1>6 DEF Ids
<1>8. MaxSyncLogId(v) \in 0..MaxLog
  BY <1>1, <1>6
<1>9. QED
  BY <1>6, <1>7, <1>8

\* The steps of apply_sync before it reads rows: they change cache, target, fence.
LEMMA ApplyStepKeeps ==
    ASSUME IInv, NEW b \in Backends,
           NEW d \in CacheType, cache' = [cache EXCEPT ![b] = d],
           NEW p \in PcType, pc' = [pc EXCEPT ![b] = p], p # "out", pc[b] # "out",
           NEW t \in 0..MaxLog, target' = [target EXCEPT ![b] = t],
           \/ fence' = fence
           \/ fence = b /\ fence' = NoBackend
           \/ fence = NoBackend /\ fence' = b /\ writers \subseteq {b},
           p \in {"applyFenced", "ingestFenced"} => fence' = b,
           p \in {"ingest", "ingestFenced"} => pc[b] \in {"ingest", "ingestFenced"},
           UNCHANGED <<log, xact, heads, floors, iso, xid, snap, writers, barrier, buildLock>>,
           d.aborted = FALSE, EngineGood(b, d),
           d.fixed = "notEntered" <=> cache[b].fixed = "notEntered",
           p \in {"loaded", "apply", "applyFenced"} => Covering(b)'
    PROVE  IInv'
<1>1. /\ TxInv /\ Types /\ LocksHeld /\ CachesInv /\ IngestReady /\ snap \in [Backends -> SnapType]
      /\ iso[b] # "none" /\ snap[b].xmin # 0
  BY DEF IInv, TxInv, TxTypes, LocksHeld
<1>2. TxInv' /\ Worked(b)
  <2>1. PICK s : s = snap[b]
    OBVIOUS
  <2>2. snap' = [snap EXCEPT ![b] = s]
    BY <1>1, <2>1
  <2>3. QED
    BY <1>1, <2>1, <2>2, WorkKeepsTx
<1>3. /\ LogKept /\ HeadsKept /\ Ids' = Ids /\ HeadIds' = HeadIds /\ DbTypes' /\ LogOwned' /\ HeadsInv'
      /\ \A i \in Ids : log'[i].del \in LiveXids' => log[i].del \in LiveXids
  BY <1>2, QuietKeeps
<1>4. p \in {"ingest", "ingestFenced"} => buildLock = b
  BY <1>1 DEF LocksHeld
<1>5. LocksHeld'
  <2>1. buildLock' = b => iso'[b] = "rc"
    BY <1>1 DEF LocksHeld
  <2>2. QED
    BY <1>1, <1>2, <1>4, <2>1, LocksStay
<1>6. EngineGood(b, d)'
  BY <1>2, <1>3, EngineStays
<1>7. p \in {"ingest", "ingestFenced"} =>
        xid'[b] # NoXid /\ VisibleHeads(View(b))' # {} /\ OwnRowsAfter(b, Published(View(b)).wm)' = {}
  <2>1. View(b)' = View(b)
    BY DEF View, CommittedXids
  <2>2. VisibleHeads(View(b))' = VisibleHeads(View(b))
    BY <2>1 DEF VisibleHeads
  <2>3. Published(View(b))' = Published(View(b))
    BY <2>2 DEF Published, NoHead
  <2>4. OwnRowsAfter(b, Published(View(b)).wm)' = OwnRowsAfter(b, Published(View(b)).wm)
    BY <1>3, <2>3 DEF OwnRowsAfter
  <2>5. QED
    BY <1>1, <2>2, <2>4 DEF IngestReady
<1>8. /\ writers' \subseteq Backends /\ fence' \in Backends \cup {NoBackend}
      /\ barrier' \in Backends \cup {NoBackend} /\ buildLock' \in Backends \cup {NoBackend}
  BY <1>1 DEF Types, LockTypes
<1>9. /\ p # "out" => d.aborted = FALSE /\ (iso'[b] = "rr" => d.fixed # "notEntered")
      /\ d.fixed # "notEntered" => iso'[b] = "rr" /\ snap'[b].xmin # 0
      /\ iso'[b] # "none"
  BY <1>1 DEF CachesInv, CacheStatus
<1>10. QED
  BY <1>2, <1>3, <1>5, <1>6, <1>7, <1>8, <1>9, StepKeeps

\* Reading the target, with the second check of the generation.
LEMMA ApplyTargetKeeps ==
    ASSUME IInv, NEW b \in Backends, ApplyTarget(b)
    PROVE  IInv'
<1>1. PICK d : d = LoadPublished(cache[b], xid[b], View(b))
  OBVIOUS
<1>2. /\ pc[b] = "loaded" /\ d.eng.built
      /\ target' = [target EXCEPT ![b] = MaxSyncLogId(View(b))]
      /\ cache' = [cache EXCEPT ![b] = d]
      /\ pc' = [pc EXCEPT ![b] = "apply"]
      /\ UNCHANGED <<log, xact, heads, floors, iso, xid, snap, writers, fence, barrier, buildLock>>
  BY <1>1 DEF ApplyTarget, dbVars, txVars, lockVars
<1>3. /\ TxInv /\ Types /\ LocksHeld /\ CachesInv /\ cache \in [Backends -> CacheType]
      /\ xid[b] \in Xids \cup {NoXid} /\ snap \in [Backends -> SnapType]
  BY DEF IInv, TxInv, TxTypes, Types
<1>4. /\ snap[b].xmin # 0 /\ View(b) = StatementView(b) /\ cache[b].aborted = FALSE /\ xid[b] \in Int
      /\ iso[b] # "none"
  BY <1>2, <1>3, Sees DEF LocksHeld, CachesInv, CacheStatus, CacheType, Xids, NoXid
<1>5. PICK c : c = cache[b]
  OBVIOUS
<1>6. c \in CacheType /\ EngineGood(b, c) /\ c.aborted = FALSE /\ d = LoadPublished(c, xid[b], StatementView(b))
  BY <1>1, <1>3, <1>4, <1>5 DEF CachesInv
<1>7. /\ d \in CacheType /\ d.aborted = FALSE /\ EngineGood(b, d)
      /\ d.fixed = "notEntered" <=> c.fixed = "notEntered"
      /\ \A k \in HeadIds : heads[k].xid \in StatementView(b) => heads[k].rows \subseteq d.eng.rows
  BY <1>2, <1>4, <1>6, LoadGood
<1>8. Worked(b)
  <2>1. PICK s : s = snap[b]
    OBVIOUS
  <2>2. snap' = [snap EXCEPT ![b] = s]
    BY <1>2, <1>3, <2>1
  <2>3. QED
    BY <1>2, <1>3, <1>4, <2>1, <2>2, WorkKeepsTx
<1>9. Covering(b)'
  <2>1. snap'[b] = StatementSnapshot(b) /\ cache'[b] = d
    BY <1>2, <1>3, <1>4 DEF StatementSnapshot
  <2>2. QED
    BY <1>2, <1>7, <1>8, <2>1, CoverLoaded
<1>10. PICK t \in 0..MaxLog : t = MaxSyncLogId(View(b))
  BY <1>3, MaxIdType
<1>11. PICK p \in PcType : p = "apply"
  BY DEF PcType
<1>12. QED
  BY <1>2, <1>5, <1>7, <1>9, <1>10, <1>11, ApplyStepKeeps

\* Taking the capture fence.
LEMMA AcquireFenceKeeps ==
    ASSUME IInv, NEW b \in Backends, AcquireFence(b)
    PROVE  IInv'
<1>1. PICK p \in PcType : p = IF pc[b] = "apply" THEN "applyFenced" ELSE "ingestFenced"
  BY DEF PcType
<1>2. /\ Types /\ LocksHeld /\ CachesInv /\ cache \in [Backends -> CacheType]
      /\ target \in [Backends -> 0..MaxLog] /\ pc \in [Backends -> PcType]
  BY DEF IInv, Types, LockTypes
<1>3. /\ pc[b] \in {"apply", "ingest"} /\ FenceAvailable(b) /\ fence' = b
      /\ pc' = [pc EXCEPT ![b] = p]
      /\ UNCHANGED <<log, xact, heads, floors, iso, xid, snap, target, writers, barrier, buildLock, cache>>
  BY <1>1 DEF AcquireFence, dbVars, txVars
<1>4. PICK d \in CacheType : d = cache[b]
  BY <1>2
<1>5. cache' = [cache EXCEPT ![b] = d] /\ target' = [target EXCEPT ![b] = target[b]] /\ target[b] \in 0..MaxLog
  BY <1>2, <1>3, <1>4
<1>6. d.aborted = FALSE /\ EngineGood(b, d)
  BY <1>2, <1>3, <1>4 DEF CachesInv, CacheStatus, CacheType
<1>7. pc[b] = "apply" => Covering(b)'
  <2> SUFFICES ASSUME pc[b] = "apply" PROVE Covering(b)'
    OBVIOUS
  <2>1. Covering(b)
    BY <1>2 DEF CachesInv
  <2>2. CommittedXids' = CommittedXids /\ LiveXids' = LiveXids /\ Ids' = Ids /\ HeadIds' = HeadIds
    BY <1>3 DEF CommittedXids, RunningXids, LiveXids, Ids, HeadIds
  <2>3. QED
    BY <1>3, <2>1, <2>2 DEF Covering
<1>8. p = "applyFenced" => pc[b] = "apply"
  BY <1>1
<1>9. /\ p \in {"applyFenced", "ingestFenced"}
      /\ p \in {"ingest", "ingestFenced"} => pc[b] \in {"ingest", "ingestFenced"}
  BY <1>1, <1>3
<1>10. QED
  BY <1>3, <1>4, <1>5, <1>6, <1>7, <1>8, <1>9, ApplyStepKeeps DEF FenceAvailable

\* A captured batch is a prefix of the visible rows above the watermark: up to its
\* last id it leaves none out.
LEMMA BatchFacts ==
    ASSUME Types, NEW a \in Nat, NEW limit \in Nat, NEW v, NEW B, B = CapturedBatch(a, limit, v), B # {}
    PROVE  /\ B \in SUBSET Ids /\ Max(B) \in B /\ Max(B) \in Ids
           /\ \A i \in B : i > a /\ i <= Max(B) /\ RowVisible(i, v)
           /\ \A i \in Ids : i > a /\ i <= Max(B) /\ RowVisible(i, v) => i \in B
<1>1. PICK rows : rows = Unapplied(a, limit, v)
  OBVIOUS
<1>2. Len(log) \in Nat /\ BatchSize \in Nat
  BY BoundsAssumption DEF Types, DbTypes
<1>3. rows \in SUBSET Ids /\ \A i \in Ids : i \in rows <=> (RowVisible(i, v) /\ i > a /\ i <= limit)
  BY <1>1 DEF Unapplied
<1>4. B = {i \in rows : Cardinality({j \in rows : j < i}) < BatchSize}
  BY <1>1 DEF CapturedBatch
<1>5. B \in SUBSET rows /\ B \in SUBSET (1..Len(log))
  BY <1>3, <1>4 DEF Ids
<1>6. Max(B) \in B /\ \A i \in B : Max(B) >= i
  BY <1>2, <1>5, IndexMax
<1>7. PICK m \in Nat : m = Max(B)
  BY <1>2, <1>5, <1>6
<1>8. m \in B /\ m \in Ids /\ m <= limit /\ \A i \in B : i \in Nat /\ i <= m
  BY <1>2, <1>3, <1>5, <1>6, <1>7 DEF Ids
<1>9. ASSUME NEW i \in Ids, i > a, i <= m, RowVisible(i, v) PROVE i \in B
  <2>1. i \in Nat /\ i \in rows
    BY <1>2, <1>3, <1>8, <1>9 DEF Ids
  <2> DEFINE L == {j \in rows : j < i}
             U == {j \in rows : j < m}
  <2>2. IsFiniteSet(rows)
    <3>1. IsFiniteSet(1..Len(log))
      BY <1>2, FS_Interval
    <3>2. QED
      BY <1>3, <3>1, FS_Subset DEF Ids
  <2>3. IsFiniteSet(U) /\ U \in SUBSET rows
    BY <2>2, FS_Subset
  <2>4. L \in SUBSET U
    <3>1. \A j \in rows : j \in Nat
      BY <1>2, <1>3 DEF Ids
    <3>2. \A j \in rows : j < i => j < m
      BY <1>9, <2>1, <3>1
    <3>3. QED
      BY <3>2
  <2>5. Cardinality(L) <= Cardinality(U) /\ Cardinality(L) \in Nat /\ Cardinality(U) \in Nat
    BY <2>3, <2>4, FS_Subset, FS_CardinalityType
  <2>6. Cardinality(U) < BatchSize
    BY <1>4, <1>8
  <2>7. Cardinality(L) < BatchSize
    BY <1>2, <2>5, <2>6
  <2>8. QED
    BY <1>4, <2>1, <2>7
<1>10. QED
  BY <1>3, <1>5, <1>7, <1>8, <1>9

\* The rows of a batch are not in the engine yet, as far as they are visible.
LEMMA BatchNew ==
    ASSUME IInv, NEW b \in Backends, pc[b] = "applyFenced"
    PROVE  CapturedBatch(cache[b].eng.applied, target[b], View(b)) \cap cache[b].eng.rows = {}
<1>1. TxInv /\ LocksHeld /\ CachesInv
  BY DEF IInv
<1>2. View(b) = StatementView(b) /\ EngineGood(b, cache[b])
  BY <1>1, Sees DEF LocksHeld, CachesInv, CacheStatus
<1>3. \A i \in cache[b].eng.rows : i > cache[b].eng.applied => log[i].del \in View(b)
  BY <1>2 DEF EngineGood, EngineVisible
<1>4. \A i \in CapturedBatch(cache[b].eng.applied, target[b], View(b)) :
        i > cache[b].eng.applied /\ log[i].del \notin View(b)
  BY DEF CapturedBatch, Unapplied, RowVisible
<1>5. QED
  BY <1>3, <1>4

\* Behind the fence every transaction but the own one that has written is decided.
LEMMA FencedDecided ==
    ASSUME IInv, NEW b \in Backends, writers \subseteq {b}
    PROVE  \A i \in Ids : log[i].own \in RunningXids => log[i].own = xid[b]
BY DEF IInv, LogOwned

\* One batch: captured behind the fence, replayed after it.
LEMMA ApplyBatchKeeps ==
    ASSUME IInv, NEW b \in Backends, ApplyBatch(b)
    PROVE  IInv'
<1>1. PICK c : c = cache[b]
  OBVIOUS
<1>2. /\ TxInv /\ Types /\ LocksHeld /\ CachesInv /\ LogOwned
      /\ cache \in [Backends -> CacheType] /\ c \in CacheType
      /\ target \in [Backends -> 0..MaxLog] /\ MaxLog \in Nat
      /\ xid[b] \in Xids \cup {NoXid} /\ Len(log) \in Nat /\ Len(log) <= MaxLog
  BY <1>1, BoundsAssumption DEF IInv, TxInv, TxTypes, Types, DbTypes, LockTypes
<1>3. PICK B : B = CapturedBatch(c.eng.applied, target[b], View(b))
  OBVIOUS
<1>4. /\ pc[b] = "applyFenced" /\ fence' = NoBackend
      /\ UNCHANGED <<log, xact, heads, floors, iso, xid, snap, target, writers, barrier, buildLock>>
      /\ B = {} => pc' = [pc EXCEPT ![b] = "serve"] /\ cache' = cache
      /\ B # {} => /\ pc' = [pc EXCEPT ![b] = "apply"]
                   /\ cache' = [cache EXCEPT ![b] = Install(c, xid[b],
                                [c.eng EXCEPT !.applied = Max(B), !.rows = c.eng.rows \cup B])]
  BY <1>1, <1>3 DEF ApplyBatch, dbVars, txVars
<1>5. /\ View(b) = StatementView(b) /\ EngineGood(b, c) /\ c.aborted = FALSE /\ Covering(b)
      /\ fence = b /\ writers \subseteq {b} /\ xid[b] \in Int
      /\ iso[b] = "rr" => c.fixed # "notEntered"
  BY <1>1, <1>2, <1>4, Sees DEF LocksHeld, CachesInv, CacheStatus, CacheType, Xids, NoXid
<1>6. target[b] \in 0..MaxLog /\ target' = [target EXCEPT ![b] = target[b]] /\ target[b] \in Nat
  BY <1>2, <1>4
<1>7. CommittedXids' = CommittedXids /\ LiveXids' = LiveXids /\ Ids' = Ids /\ HeadIds' = HeadIds
  BY <1>4 DEF CommittedXids, RunningXids, LiveXids, Ids, HeadIds
<1>8. CASE B = {}
  <2>1. PICK p \in PcType : p = "serve"
    BY DEF PcType
  <2>2. cache' = [cache EXCEPT ![b] = c]
    BY <1>1, <1>2, <1>4, <1>8
  <2>3. /\ c \in CacheType /\ (c.fixed = "notEntered" <=> cache[b].fixed = "notEntered")
        /\ p \notin {"out", "loaded", "apply", "applyFenced", "ingest", "ingestFenced"}
    BY <1>1, <1>2, <2>1
  <2>4. QED
    BY <1>4, <1>5, <1>6, <1>8, <2>1, <2>2, <2>3, ApplyStepKeeps
<1>9. CASE B # {}
  <2>1. /\ c.eng \in EngineType /\ c.eng.applied \in Nat /\ c.eng.rows \in SUBSET (1..MaxLog)
        /\ c.fixed \in {"notEntered", "preserved", "changed"}
    BY <1>2 DEF CacheType, EngineType
  <2>2. /\ B \in SUBSET Ids /\ Max(B) \in B /\ Max(B) \in Ids
        /\ \A i \in B : i > c.eng.applied /\ i <= Max(B) /\ RowVisible(i, View(b))
        /\ \A i \in Ids : i > c.eng.applied /\ i <= Max(B) /\ RowVisible(i, View(b)) => i \in B
    BY <1>2, <1>3, <1>6, <1>9, <2>1, BatchFacts
  <2>3. PICK m \in Nat : m = Max(B)
    BY <1>2, <2>2 DEF Ids
  <2>4. PICK e : e = [c.eng EXCEPT !.applied = m, !.rows = c.eng.rows \cup B]
    OBVIOUS
  <2>5. m \in 0..MaxLog /\ m <= Len(log) /\ B \in SUBSET (1..MaxLog) /\ c.eng.applied < m
    BY <1>2, <2>1, <2>2, <2>3 DEF Ids
  <2>6. e \in EngineType /\ e.applied = m /\ e.rows = c.eng.rows \cup B /\ e.gen = c.eng.gen /\ e.built = c.eng.built
    BY <2>1, <2>4, <2>5 DEF EngineType
  <2>7. PICK d : d = Install(c, xid[b], e)
    OBVIOUS
  <2>8. d \in CacheType /\ d.eng = e /\ d.levels = {0} /\ d.aborted = c.aborted /\ d.fixed = Touch(c.fixed)
    BY <1>2, <1>5, <2>6, <2>7, InstallFields
  <2>9. cache' = [cache EXCEPT ![b] = d] /\ cache'[b] = d
    BY <1>2, <1>4, <1>9, <2>3, <2>4, <2>7
  <2>10. c.eng.built /\ (\A i \in Ids : log[i].del \in LiveXids => i \in c.eng.rows)
    BY <1>1, <1>5 DEF Covering
  <2>11. EngineVisible(b, d)
    <3> SUFFICES ASSUME NEW i \in e.rows
                 PROVE  /\ i \in Ids
                        /\ log[i].own \in StatementView(b)
                        /\ i > e.applied => log[i].del \in StatementView(b)
      BY <2>8 DEF EngineVisible
    <3>1. CASE i \in B
      <4>1. i \in Ids /\ i <= m /\ RowVisible(i, View(b)) /\ i \in Nat
        BY <1>2, <2>2, <2>3, <3>1 DEF Ids
      <4>2. QED
        BY <1>5, <2>6, <4>1 DEF RowVisible
    <3>2. CASE i \in c.eng.rows
      <4>1. /\ i \in Ids /\ log[i].own \in StatementView(b)
            /\ i > c.eng.applied => log[i].del \in StatementView(b)
        BY <1>5, <3>2 DEF EngineGood, EngineVisible
      <4>2. i \in Nat
        BY <1>2, <4>1 DEF Ids
      <4>3. QED
        BY <2>1, <2>5, <2>6, <4>1, <4>2
    <3>3. QED
      BY <2>6, <3>1, <3>2
  <2>12. \A i \in 1..m : i \in Ids /\ (log[i].own \in StatementView(b) => i \in e.rows)
    <3> SUFFICES ASSUME NEW i \in 1..m PROVE i \in Ids /\ (log[i].own \in StatementView(b) => i \in e.rows)
      OBVIOUS
    <3>1. i \in Ids /\ i \in Nat /\ i <= m
      BY <1>2, <2>5 DEF Ids
    <3>2. ASSUME log[i].own \in StatementView(b) PROVE i \in e.rows
      <4>1. CASE i <= c.eng.applied
        <5>1. i \in 1..c.eng.applied
          BY <2>1, <4>1
        <5>2. i \in c.eng.rows
          BY <1>5, <3>2, <5>1 DEF EngineGood, EngineComplete
        <5>3. QED
          BY <2>6, <5>2
      <4>2. CASE i > c.eng.applied /\ log[i].del \in View(b)
        <5>1. log[i].del \in LiveXids
          BY <1>2, <1>5, <4>2, ViewBounds
        <5>2. QED
          BY <2>6, <2>10, <3>1, <5>1
      <4>3. CASE i > c.eng.applied /\ log[i].del \notin View(b)
        <5>1. RowVisible(i, View(b))
          BY <1>5, <3>2, <4>3 DEF RowVisible
        <5>2. i \in B
          BY <2>2, <2>3, <3>1, <4>3, <5>1
        <5>3. QED
          BY <2>6, <5>2
      <4>4. QED
        BY <2>1, <3>1, <4>1, <4>2, <4>3
    <3>3. QED
      BY <3>1, <3>2
  <2>13. EngineComplete(b, d)
    <3>1. ASSUME NEW i \in 1..m, d.fixed # "changed"
          PROVE  /\ log[i].own \in RunningXids => log[i].own = xid[b]
                 /\ log[i].own \in CommittedXids => i \in e.rows
      <4>1. iso[b] # "rr"
        BY <1>5, <2>1, <2>8, <3>1 DEF Touch
      <4>2. StatementView(b) = CommittedXids \cup OwnXid(b)
        BY <1>2, <4>1, ViewBounds
      <4>3. QED
        BY <1>5, <2>12, <4>2, FencedDecided
    <3>2. QED
      BY <2>5, <2>6, <2>8, <2>12, <3>1 DEF EngineComplete
  <2>14. EngineBased(b, d)
    BY <1>5, <2>6, <2>8 DEF EngineGood, EngineBased
  <2>15. EngineGood(b, d)
    BY <2>6, <2>8, <2>10, <2>11, <2>13, <2>14 DEF EngineGood, EngineShape
  <2>16. Covering(b)'
    <3>1. c.eng.rows \subseteq d.eng.rows /\ d.eng.built
      BY <2>6, <2>8, <2>10
    <3>2. QED
      BY <1>1, <1>4, <1>5, <1>7, <2>9, <3>1 DEF Covering
  <2>17. PICK p \in PcType : p = "apply"
    BY DEF PcType
  <2>18. d.fixed = "notEntered" <=> cache[b].fixed = "notEntered"
    BY <1>1, <2>1, <2>8 DEF Touch
  <2>19. QED
    BY <1>4, <1>5, <1>6, <1>9, <2>8, <2>9, <2>15, <2>16, <2>17, <2>18, ApplyStepKeeps
<1>10. QED
  BY <1>8, <1>9

\* A statement that writes has an xid afterwards, a running one.
LEMMA XidAssigned ==
    ASSUME TxInv, TxInv', NEW b \in Backends, AssignXid(b)
    PROVE  /\ xid'[b] = XidOf(b) /\ XidOf(b) # NoXid /\ XidOf(b) \in Xids
           /\ XidOf(b) \in 1..Len(xact') /\ XidOf(b) \in RunningXids' /\ XidOf(b) \notin CommittedXids'
           /\ OwnXid(b)' = {XidOf(b)}
<1>1. /\ xid' = [xid EXCEPT ![b] = XidOf(b)] /\ xid \in [Backends -> Xids \cup {NoXid}]
      /\ xid' \in [Backends -> Xids \cup {NoXid}]
  BY DEF AssignXid, TxInv, TxTypes
<1>2. xid'[b] = XidOf(b)
  BY <1>1
<1>3. XidOf(b) # NoXid
  <2>1. NextXid # NoXid
    BY XidNumbers DEF TxInv, NoXid, NextXid
  <2>2. QED
    BY <2>1 DEF XidOf
<1>4. XidOf(b) \in Xids
  BY <1>1, <1>2, <1>3
<1>5. XidOf(b) \in RunningXids'
  BY <1>2, <1>3 DEF TxInv, TxOwned
<1>6. XidOf(b) \in 1..Len(xact') /\ XidOf(b) \notin CommittedXids'
  BY <1>5 DEF RunningXids, CommittedXids
<1>7. QED
  BY <1>2, <1>3, <1>4, <1>5, <1>6 DEF OwnXid

\* A statement that keeps its snapshot as the isolation level says.
LEMMA KeepKeepsTx ==
    ASSUME TxInv, NEW b \in Backends, iso[b] # "none", iso' = iso,
           AssignXid(b) \/ UNCHANGED <<xact, xid>>, KeepSnapshot(b)
    PROVE  TxInv' /\ Worked(b) /\ (iso[b] = "rr" => snap'[b].xmin # 0)
<1>1. PICK s : s = IF iso[b] = "rr" THEN StatementSnapshot(b) ELSE NoSnapshot
  OBVIOUS
<1>2. snap' = [snap EXCEPT ![b] = s] /\ (iso[b] = "rr" => s.xmin # 0)
  <2>1. StatementSnapshot(b).xmin \in 1..NextXid
    BY SnapshotFacts
  <2>2. QED
    BY <1>1, <2>1 DEF KeepSnapshot
<1>3. s = NoSnapshot => iso[b] # "rr"
  BY <1>1, <1>2 DEF NoSnapshot
<1>4. QED
  BY <1>1, <1>2, <1>3, WorkKeepsTx

\* The sync trigger.
LEMMA WriteSourceKeeps ==
    ASSUME IInv, NEW b \in Backends, WriteSource(b)
    PROVE  IInv'
<1>1. PICK r : r = [own |-> XidOf(b), del |-> NoXid]
  OBVIOUS
<1>2. /\ iso[b] # "none" /\ pc[b] = "out" /\ fence = NoBackend /\ Len(log) < MaxLog /\ AssignXid(b)
      /\ log' = Append(log, r) /\ writers' = writers \cup {b} /\ KeepSnapshot(b)
      /\ UNCHANGED <<heads, floors, iso, pc, target, fence, barrier, buildLock, cache>>
  BY <1>1 DEF WriteSource, Idle
<1>3. /\ TxInv /\ Types /\ DbTypes /\ LocksHeld /\ CachesInv /\ LogOwned
      /\ cache \in [Backends -> CacheType] /\ pc \in [Backends -> PcType]
      /\ target \in [Backends -> 0..MaxLog] /\ log \in Seq(RowType) /\ Len(log) \in Nat /\ MaxLog \in Nat
  BY BoundsAssumption DEF IInv, Types, DbTypes, LockTypes
<1>4. TxInv' /\ Worked(b) /\ (iso[b] = "rr" => snap'[b].xmin # 0)
  BY <1>2, <1>3, KeepKeepsTx
<1>5. /\ xid'[b] = XidOf(b) /\ XidOf(b) # NoXid /\ XidOf(b) \in Xids
      /\ XidOf(b) \in 1..Len(xact') /\ XidOf(b) \in RunningXids'
  BY <1>2, <1>3, <1>4, XidAssigned
<1>6. r \in RowType /\ r.own = XidOf(b) /\ r.del = NoXid
  BY <1>1, <1>5 DEF RowType
<1>7. /\ log' \in Seq(RowType) /\ Len(log') = Len(log) + 1 /\ log'[Len(log) + 1] = r
      /\ \A i \in Ids : log'[i] = log[i]
  BY <1>2, <1>3, <1>6 DEF Ids
<1>8. Ids' = Ids \cup {Len(log) + 1} /\ Len(log) + 1 \notin Ids
  BY <1>3, <1>7 DEF Ids
<1>9. LogKept /\ HeadsKept /\ HeadIds' = HeadIds /\ DbTypes'
  <2>1. LogKept
    BY <1>3, <1>7 DEF LogKept
  <2>2. HeadsKept /\ HeadIds' = HeadIds
    BY <1>2, <1>3, Unchanged
  <2>3. DbTypes'
    BY <1>2, <1>3, <1>7 DEF DbTypes
  <2>4. QED
    BY <2>1, <2>2, <2>3
<1>10. NoXid \notin LiveXids' /\ NoXid \notin RunningXids' /\ NoXid \in 0..Len(xact')
  BY <1>4, <1>5 DEF TxInv, TxTypes, LiveXids, CommittedXids, RunningXids, NoXid
<1>11. LogOwned'
  <2> SUFFICES ASSUME NEW i \in Ids'
               PROVE  /\ log'[i].own \in 1..Len(xact')
                      /\ log'[i].del \in 0..Len(xact')
                      /\ log'[i].own \in RunningXids' => \E w \in writers' : xid'[w] = log'[i].own
                      /\ log'[i].del \in RunningXids' => buildLock' \in Backends /\ xid'[buildLock'] = log'[i].del
    BY DEF LogOwned
  <2>1. CASE i \in Ids
    BY <1>2, <1>4, <1>7, <2>1, OldRows
  <2>2. CASE i = Len(log) + 1
    BY <1>2, <1>5, <1>6, <1>7, <1>10, <2>2
  <2>3. QED
    BY <1>8, <2>1, <2>2
<1>12. \A i \in Ids' : log'[i].del \in LiveXids' => i \in Ids /\ log[i].del \in LiveXids
  <2> SUFFICES ASSUME NEW i \in Ids', log'[i].del \in LiveXids' PROVE i \in Ids /\ log[i].del \in LiveXids
    OBVIOUS
  <2>1. i \in Ids
    BY <1>6, <1>7, <1>8, <1>10
  <2>2. log'[i].del = log[i].del /\ log[i].del \in 0..Len(xact)
    BY <1>3, <1>7, <2>1 DEF LogOwned
  <2>3. QED
    BY <1>4, <2>1, <2>2, OldXids
<1>13. HeadsInv'
  <2>1. HeadsOwned' /\ HeadsComplete' /\ HeadsChain' /\ ViewsClosed'
    BY <1>2, <1>4, <1>9, SameHeads
  <2>2. PrunedKept'
    BY <1>4, <1>9, <1>12, PrunedStay
  <2>3. QED
    BY <2>1, <2>2 DEF HeadsInv
<1>14. PICK p \in PcType : p = "out"
  BY DEF PcType
<1>15. pc' = [pc EXCEPT ![b] = p]
  BY <1>2, <1>3, <1>14
<1>16. LocksHeld'
  <2>1. buildLock' = b => iso'[b] = "rc"
    BY <1>2, <1>3 DEF LocksHeld
  <2>2. QED
    BY <1>2, <1>4, <1>14, <1>15, <2>1, LocksStay
<1>17. PICK d \in CacheType : d = cache[b]
  BY <1>3
<1>18. /\ cache' = [cache EXCEPT ![b] = d] /\ target' = [target EXCEPT ![b] = target[b]]
       /\ target[b] \in 0..MaxLog
       /\ d.fixed # "notEntered" => iso'[b] = "rr" /\ snap'[b].xmin # 0
       /\ ~d.aborted => EngineGood(b, d)
  BY <1>2, <1>3, <1>4, <1>17 DEF CachesInv, CacheStatus
<1>19. ~d.aborted => EngineGood(b, d)'
  BY <1>4, <1>9, <1>18, EngineStays
<1>20. /\ writers' \subseteq Backends /\ fence' \in Backends \cup {NoBackend}
       /\ barrier' \in Backends \cup {NoBackend} /\ buildLock' \in Backends \cup {NoBackend}
  BY <1>2, <1>3 DEF Types, LockTypes
<1>21. \A i \in Ids' \ Ids : log'[i].own = xid'[b] /\ xid'[b] # NoXid
  BY <1>5, <1>6, <1>7, <1>8
<1>22. iso'[b] # "none"
  BY <1>2
<1>23. QED
  BY <1>2, <1>4, <1>9, <1>11, <1>12, <1>13, <1>14, <1>15, <1>16, <1>18, <1>19, <1>20, <1>21, <1>22, StepKeeps

\* A publisher has the build lock and reads committed data: it sees every version
\* of the head row that may still become visible to anyone.
LEMMA PublisherView ==
    ASSUME IInv, NEW b \in Backends, iso[b] = "rc", buildLock \in {NoBackend, b}
    PROVE  /\ StatementView(b) = CommittedXids \cup OwnXid(b)
           /\ \A k \in HeadIds : LiveHead(k) <=> heads[k].xid \in StatementView(b)
<1>1. TxInv /\ HeadsOwned
  BY DEF IInv, HeadsInv
<1>2. StatementView(b) = CommittedXids \cup OwnXid(b) /\ StatementView(b) \in SUBSET LiveXids
  BY <1>1, ViewBounds
<1>3. ASSUME NEW k \in HeadIds, heads[k].xid \in RunningXids PROVE heads[k].xid \in OwnXid(b)
  <2>1. buildLock = b /\ xid[b] = heads[k].xid
    BY <1>1, <1>3, BackendsAssumption DEF HeadsOwned, HeadOwned
  <2>2. heads[k].xid # NoXid
    BY <1>1, <1>3, XidNumbers DEF TxInv, LiveXids
  <2>3. QED
    BY <2>1, <2>2 DEF OwnXid
<1>4. QED
  BY <1>2, <1>3 DEF LiveHead, LiveXids

\* A fresh generation id is above that of every version in sight.
LEMMA FreshGen ==
    ASSUME IInv, NEW v \in SUBSET LiveXids, NEW gen \in FreshGenerations(v)
    PROVE  /\ gen \in Nat /\ gen # 0
           /\ \A k \in HeadIds : heads[k].xid \in v => heads[k].gen < gen
<1> DEFINE G == {heads[k].gen : k \in HeadIds}
           M == {0} \cup G
<1>1. Types /\ Len(heads) \in Nat
  BY DEF IInv, Types, DbTypes
<1>2. G \in SUBSET Nat
  BY <1>1, HeadFields
<1>3. IsFiniteSet(M)
  <2>1. IsFiniteSet(HeadIds)
    BY <1>1, FS_Interval DEF HeadIds
  <2>2. IsFiniteSet(G)
    <3>1. [k \in HeadIds |-> heads[k].gen] \in Surjection(HeadIds, G)
      BY DEF Surjection
    <3>2. QED
      BY <2>1, <3>1, FS_Surjection
  <2>3. QED
    BY <2>2, FS_EmptySet, FS_AddElement, FS_Union
<1>4. Max(M) \in M
  <2>1. M \in SUBSET Int /\ M # {}
    BY <1>2
  <2>2. QED
    BY <1>3, <2>1, MaxProperty
<1>5. PICK m \in Nat : m = Max(M)
  BY <1>2, <1>4
<1>6. PICK g \in Nat : g = Published(v).gen
  <2>1. CASE VisibleHeads(v) = {}
    BY <2>1, PublishedIs DEF NoHead
  <2>2. CASE VisibleHeads(v) # {}
    BY <1>1, <2>2, PublishedIs, HeadFields
  <2>3. QED
    BY <2>1, <2>2
<1>7. gen \in (g + 1)..(1 + m)
  BY <1>5, <1>6 DEF FreshGenerations, HeadIds
<1>8. gen \in Nat /\ gen # 0 /\ g < gen
  BY <1>7
<1>9. ASSUME NEW k \in HeadIds, heads[k].xid \in v PROVE heads[k].gen < gen
  <2>1. VisibleHeads(v) # {}
    BY <1>9 DEF VisibleHeads, HeadIds
  <2>2. heads[k].gen <= g
    BY <1>6, <1>9, <2>1, PublishedIs
  <2>3. heads[k].gen \in Nat
    BY <1>1, HeadFields
  <2>4. QED
    BY <1>8, <2>2, <2>3
<1>10. QED
  BY <1>8, <1>9

\* What an ingest starts from, and a generation that is complete up to `last`.
Base(b, m) ==
    /\ heads[m].xid \in StatementView(b) /\ Published(View(b)) = heads[m]
    /\ \A k \in HeadIds : heads[k].xid \in StatementView(b) => heads[k].rows \subseteq heads[m].rows
CompleteTo(b, last, rows) ==
    /\ last \in 0..MaxLog /\ last <= Len(log) /\ rows \in SUBSET (1..MaxLog)
    /\ \A i \in rows :
        i \in Ids /\ log[i].own \in CommittedXids /\ (i > last => log[i].del \in StatementView(b))
    /\ \A i \in 1..last : log[i].own \notin RunningXids /\ (log[i].own \in CommittedXids => i \in rows)

\* publication::publish with a complete generation: everything said of heads holds
\* of the new one, and the engine installed from it is good for its publisher.
LEMMA PublishKeeps ==
    ASSUME IInv, NEW b \in Backends, TxInv', Worked(b), iso[b] = "rc",
           buildLock \in {NoBackend, b}, buildLock' = b,
           UNCHANGED <<log, floors, writers>>,
           NEW h \in HeadType, heads' = Append(heads, h), h.xid = xid'[b], xid'[b] # NoXid,
           h.gen # 0, CompleteTo(b, h.wm, h.rows),
           \A k \in HeadIds : heads[k].xid \in StatementView(b) =>
                heads[k].rows \subseteq h.rows /\ heads[k].gen < h.gen,
           NEW d \in CacheType, d.eng = EngineOf(h), d.levels = {0}
    PROVE  /\ LogKept /\ HeadsKept /\ Ids' = Ids /\ DbTypes' /\ LogOwned' /\ HeadsInv'
           /\ \A k \in HeadIds' \ HeadIds : heads'[k].xid \notin CommittedXids
           /\ \A i \in Ids : log'[i].del \in LiveXids' => log[i].del \in LiveXids
           /\ EngineGood(b, d)'
<1>1. /\ TxInv /\ Types /\ DbTypes /\ LogOwned /\ HeadsInv
      /\ heads \in Seq(HeadType) /\ Len(heads) \in Nat /\ Len(log) \in Nat
  BY DEF IInv, Types, DbTypes
<1>n. PICK n \in Nat : n = Len(heads) + 1
  BY <1>1
<1>c. /\ h.wm <= Len(log)
      /\ \A i \in h.rows :
            i \in Ids /\ log[i].own \in CommittedXids /\ (i > h.wm => log[i].del \in StatementView(b))
      /\ \A i \in 1..h.wm : log[i].own \notin RunningXids /\ (log[i].own \in CommittedXids => i \in h.rows)
  BY DEF CompleteTo
<1>2. heads' \in Seq(HeadType) /\ Len(heads') = n /\ heads'[n] = h /\ \A k \in HeadIds : heads'[k] = heads[k]
  BY <1>n, <1>1 DEF HeadIds
<1>3. HeadIds' = HeadIds \cup {n} /\ n \notin HeadIds
  BY <1>n, <1>1, <1>2 DEF HeadIds
<1>4. HeadsKept /\ LogKept /\ Ids' = Ids
  <2>1. HeadsKept
    <3>1. Len(heads') \in Nat /\ Len(heads) <= Len(heads')
      BY <1>n, <1>1, <1>2
    <3>2. QED
      BY <1>2, <3>1 DEF HeadsKept
  <2>2. QED
    BY <1>1, <2>1, Unchanged
<1>5. DbTypes'
  BY <1>1, <1>2 DEF DbTypes
<1>6. buildLock' = buildLock \/ (buildLock = NoBackend /\ buildLock' = b)
  OBVIOUS
<1>7. Len(xact) \in Nat /\ Len(xact') \in Nat /\ Len(xact) <= Len(xact')
  BY <1>1, XidNumbers DEF TxInv, Worked
<1>8. LogOwned'
  BY <1>4, <1>6, OldRows DEF LogOwned
<1>9. \A i \in Ids : log'[i].del \in LiveXids' => log[i].del \in LiveXids
  BY <1>1, OldXids DEF LogOwned
<1>10. /\ h.xid \in RunningXids' /\ h.xid \notin CommittedXids /\ h.xid \in 1..Len(xact')
       /\ CommittedXids' = CommittedXids
  <2>1. h.xid \in RunningXids'
    BY DEF TxInv, TxOwned
  <2>2. QED
    BY <2>1 DEF Worked, RunningXids, CommittedXids
<1>11. /\ StatementView(b) = CommittedXids \cup OwnXid(b) /\ StatementView(b) \in SUBSET StatementView(b)'
       /\ \A k \in HeadIds : LiveHead(k) <=> heads[k].xid \in StatementView(b)
  BY PublisherView DEF Worked
<1>12. /\ \A k \in HeadIds :
            /\ LiveHead(k)' <=> LiveHead(k)
            /\ HeadOwned(k)' /\ (LiveHead(k) => HeadComplete(k)')
            /\ ClosedAt(k, CommittedXids)' /\ \A c \in Backends : ClosedAt(k, StatementView(c))'
       /\ \A j, k \in HeadIds : j < k => Grown(j, k)'
  BY <1>4, <1>6, HeadsStay
<1>13. HeadOwned(n)'
  BY <1>2, <1>10 DEF HeadOwned
<1>14. \A i \in Ids : log[i].own \in 0..Len(xact)
  BY <1>1, <1>7 DEF LogOwned
<1>15. h.wm \in Nat /\ h.rows \in SUBSET (1..MaxLog) /\ h.gen \in Nat
  BY BoundsAssumption DEF HeadType
<1>16. \A i \in 1..h.wm : i \in Ids
  BY <1>c, <1>1, <1>15 DEF Ids
<1>17. \A i \in 1..h.wm : log[i].own \notin RunningXids' /\ (log[i].own \in CommittedXids => i \in h.rows)
  <2>1. \A i \in Ids : log[i].own \in RunningXids' <=> log[i].own \in RunningXids
    BY <1>14, OldXids
  <2>2. QED
    BY <1>c, <1>16, <2>1
<1>18. HeadComplete(n)'
  BY <1>c, <1>2, <1>4, <1>10, <1>17 DEF HeadComplete
<1>19. HeadsOwned' /\ HeadsComplete'
  BY <1>3, <1>12, <1>13, <1>18 DEF HeadsOwned, HeadsComplete
<1>20. HeadsChain'
  <2> SUFFICES ASSUME NEW j \in HeadIds', NEW k \in HeadIds', j < k PROVE Grown(j, k)'
    BY DEF HeadsChain
  <2>1. CASE k \in HeadIds
    <3>1. j \in HeadIds
      BY <1>n, <1>1, <1>2, <2>1 DEF HeadIds
    <3>2. QED
      BY <1>12, <2>1, <3>1
  <2>2. CASE k = n
    <3>0. j # n
      BY <1>n, <2>2
    <3>1. j \in HeadIds /\ heads'[j] = heads[j] /\ heads'[k] = h
      BY <1>2, <1>3, <2>2, <3>0
    <3>2. LiveHead(j)' => heads[j].xid \in StatementView(b)
      BY <1>11, <1>12, <3>1
    <3>3. QED
      BY <3>1, <3>2 DEF Grown
  <2>3. QED
    BY <1>3, <2>1, <2>2
<1>21. ClosedAt(n, CommittedXids)' /\ \A c \in Backends : ClosedAt(n, StatementView(c))'
  <2>1. ClosedAt(n, CommittedXids)'
    BY <1>2, <1>10 DEF ClosedAt
  <2>2. ASSUME NEW c \in Backends, c # b PROVE ClosedAt(n, StatementView(c))'
    <3>1. StatementView(c)' = StatementView(c) /\ xid'[c] = xid[c]
      BY <2>2 DEF Worked
    <3>2. h.xid # xid[c]
      BY <2>2, <3>1 DEF TxInv, TxOwned
    <3>3. h.xid \notin StatementView(c)'
      BY <1>1, <1>10, <3>1, <3>2, ViewBounds DEF OwnXid
    <3>4. QED
      BY <1>2, <3>3 DEF ClosedAt
  <2>3. ClosedAt(n, StatementView(b))'
    <3>1. \A i \in h.rows : log[i].own \in StatementView(b)' /\ (i > h.wm => log[i].del \in StatementView(b)')
      BY <1>c, <1>11
    <3>2. QED
      BY <1>2, <3>1 DEF ClosedAt
  <2>4. QED
    BY <2>1, <2>2, <2>3
<1>22. ViewsClosed'
  BY <1>3, <1>12, <1>21 DEF ViewsClosed, Closed
<1>23. PrunedKept'
  BY <1>4, <1>9, PrunedStay
<1>24. HeadsInv'
  BY <1>19, <1>20, <1>22, <1>23 DEF HeadsInv
<1>25. EngineGood(b, d)'
  <2>1. d.eng.built = TRUE /\ d.eng.gen = h.gen /\ d.eng.applied = h.wm /\ d.eng.rows = h.rows
    BY DEF EngineOf
  <2>2. \A i \in h.rows : /\ i \in Ids' /\ log'[i].own \in StatementView(b)'
                          /\ i > h.wm => log'[i].del \in StatementView(b)'
    BY <1>c, <1>4, <1>11
  <2>3. EngineVisible(b, d)'
    BY <2>1, <2>2 DEF EngineVisible
  <2>4. StatementView(b)' = CommittedXids \cup OwnXid(b)'
    BY <1>11 DEF Worked, OwnXid
  <2>5. \A i \in 1..h.wm : log[i].own \notin OwnXid(b)'
    BY <1>17 DEF Worked
  <2>6. EngineComplete(b, d)'
    BY <1>c, <1>10, <1>17, <2>1, <2>4, <2>5 DEF EngineComplete
  <2>7. EngineBased(b, d)'
    <3>1. h.xid \in OwnXid(b)'
      BY DEF OwnXid
    <3>2. QED
      BY <1>2, <1>3, <2>1, <3>1 DEF EngineBased
  <2>8. QED
    BY <2>1, <2>3, <2>6, <2>7 DEF EngineGood, EngineShape
<1>26. \A k \in HeadIds' \ HeadIds : heads'[k].xid \notin CommittedXids
  BY <1>2, <1>3, <1>10
<1>27. QED
  BY <1>4, <1>5, <1>8, <1>9, <1>24, <1>25, <1>26

\* A statement that registers its snapshot.
LEMMA RegisterKeepsTx ==
    ASSUME TxInv, NEW b \in Backends, iso[b] # "none", iso' = iso,
           AssignXid(b) \/ UNCHANGED <<xact, xid>>, RegisterSnapshot(b)
    PROVE  TxInv' /\ Worked(b) /\ snap'[b].xmin # 0
<1>1. PICK s : s = StatementSnapshot(b)
  OBVIOUS
<1>2. s.xmin # 0
  <2>1. StatementSnapshot(b).xmin \in 1..NextXid
    BY SnapshotFacts
  <2>2. QED
    BY <1>1, <2>1
<1>3. s # NoSnapshot /\ snap' = [snap EXCEPT ![b] = s]
  BY <1>1, <1>2 DEF NoSnapshot, RegisterSnapshot
<1>4. QED
  BY <1>1, <1>2, <1>3, WorkKeepsTx

\* The start of an ingest: what it found published stays what it sees.
LEMMA IngestBeginKeeps ==
    ASSUME IInv, NEW b \in Backends, IngestBegin(b)
    PROVE  IInv'
<1>1. PICK v : v = StatementView(b)
  OBVIOUS
<1>2. /\ iso[b] = "rc" /\ pc[b] = "out" /\ buildLock \in {NoBackend, b}
      /\ Published(v) # NoHead /\ OwnRowsAfter(b, Published(v).wm) = {}
      /\ AssignXid(b) /\ RegisterSnapshot(b) /\ buildLock' = b
      /\ cache' = [cache EXCEPT ![b] = EnterStatement(b)]
      /\ pc' = [pc EXCEPT ![b] = "ingest"]
      /\ UNCHANGED <<log, heads, floors, iso, target, writers, fence, barrier>>
  BY <1>1 DEF IngestBegin, Idle
<1>3. /\ TxInv /\ Types /\ LocksHeld /\ LogOwned /\ HeadsOwned
      /\ cache \in [Backends -> CacheType] /\ target \in [Backends -> 0..MaxLog]
  BY DEF IInv, Types, LockTypes, HeadsInv
<1>4. TxInv' /\ Worked(b) /\ snap'[b].xmin # 0 /\ iso'[b] = "rc"
  <2>1. iso[b] # "none"
    BY <1>2
  <2>2. QED
    BY <1>2, <1>3, <2>1, RegisterKeepsTx
<1>5. buildLock' = buildLock \/ (buildLock = NoBackend /\ buildLock' = b)
  BY <1>2
<1>6. /\ LogKept /\ HeadsKept /\ Ids' = Ids /\ HeadIds' = HeadIds /\ DbTypes' /\ LogOwned' /\ HeadsInv'
      /\ \A i \in Ids : log'[i].del \in LiveXids' => log[i].del \in LiveXids
  BY <1>2, <1>4, <1>5, QuietKeeps
<1>7. PICK d : d = EnterStatement(b)
  OBVIOUS
<1>8. d \in CacheType /\ d.aborted = FALSE /\ EngineGood(b, d) /\ d.fixed = "notEntered"
  <2>1. iso[b] # "rr"
    BY <1>2
  <2>2. QED
    BY <1>7, <2>1, EnterGood
<1>9. EngineGood(b, d)'
  BY <1>4, <1>6, <1>8, EngineStays
<1>10. PICK p \in PcType : p = "ingest"
  BY DEF PcType
<1>11. LocksHeld'
  <2>1. iso'[b] # "none"
    BY <1>4
  <2>2. QED
    BY <1>2, <1>4, <1>5, <1>10, <2>1, LocksStay
<1>12. Len(xact) \in Nat
  BY <1>3, XidNumbers DEF TxInv
<1>13. View(b)' = StatementView(b)'
  BY <1>4 DEF View, StatementView
<1>14. VisibleHeads(View(b))' = VisibleHeads(v)
  <2>1. \A k \in HeadIds : heads[k].xid \in 0..Len(xact)
    BY <1>3, <1>12 DEF HeadsOwned, HeadOwned
  <2>2. \A k \in HeadIds : heads[k].xid \in StatementView(b)' <=> heads[k].xid \in v
    BY <1>1, <1>4, <2>1, OldXids
  <2>3. QED
    BY <1>2, <1>13, <2>2 DEF VisibleHeads, HeadIds
<1>15. VisibleHeads(v) # {}
  BY <1>2 DEF Published
<1>16. Published(View(b))' = Published(v)
  BY <1>2, <1>14 DEF Published, NoHead
<1>17. PICK w : w = Published(v).wm
  OBVIOUS
<1>18. {i \in Ids : i > w /\ log[i].own = xid'[b]} = {}
  <2>1. \A i \in Ids : log[i].own \in 0..Len(xact) /\ log[i].own # NoXid
    BY <1>3, <1>12 DEF LogOwned, NoXid
  <2>2. \A i \in Ids : log[i].own = xid'[b] <=> log[i].own = xid[b]
    BY <1>4, <2>1, OldXids
  <2>3. QED
    BY <1>2, <1>17, <2>2 DEF OwnRowsAfter
<1>19. OwnRowsAfter(b, Published(View(b)).wm)' = {}
  BY <1>2, <1>6, <1>16, <1>17, <1>18 DEF OwnRowsAfter
<1>20. /\ writers' \subseteq Backends /\ fence' \in Backends \cup {NoBackend}
       /\ barrier' \in Backends \cup {NoBackend} /\ buildLock' \in Backends \cup {NoBackend}
  BY <1>2, <1>3 DEF Types, LockTypes
<1>21. /\ cache' = [cache EXCEPT ![b] = d] /\ target' = [target EXCEPT ![b] = target[b]]
       /\ target[b] \in 0..MaxLog
  BY <1>2, <1>3, <1>7
<1>22. p \notin {"out", "loaded", "apply", "applyFenced"} /\ iso'[b] # "rr" /\ iso'[b] # "none"
  BY <1>4, <1>10
<1>23. xid'[b] # NoXid
  BY <1>2, <1>3, <1>4, XidAssigned
<1>24. QED
  BY <1>2, <1>4, <1>6, <1>8, <1>9, <1>10, <1>11, <1>14, <1>15, <1>19, <1>20, <1>21, <1>22, <1>23, StepKeeps

\* The generation an ingest folds its batch into is complete up to the last id of
\* the batch: behind the fence nobody else is writing, its own transaction has
\* written nothing, and what is missing in the log is in the generation already.
LEMMA IngestComplete ==
    ASSUME IInv, NEW b \in Backends, pc[b] = "ingestFenced", NEW m \in HeadIds, Base(b, m),
           NEW B, B = CapturedBatch(heads[m].wm, Len(log), View(b)), B # {}
    PROVE  Max(B) \in Nat /\ CompleteTo(b, Max(B), heads[m].rows \cup B)
<1>0. PICK last, rows : last = Max(B) /\ rows = heads[m].rows \cup B
  OBVIOUS
<1>1. /\ TxInv /\ Types /\ LocksHeld /\ IngestReady /\ HeadsInv
      /\ Len(log) \in Nat /\ Len(log) <= MaxLog /\ MaxLog \in Nat
  BY BoundsAssumption DEF IInv, Types, DbTypes
<1>2. /\ fence = b /\ buildLock = b /\ writers \subseteq {b} /\ iso[b] = "rc" /\ xid[b] # NoXid
      /\ OwnRowsAfter(b, heads[m].wm) = {}
  BY <1>1 DEF LocksHeld, IngestReady, Base
<1>3. View(b) = StatementView(b) /\ StatementView(b) = CommittedXids \cup OwnXid(b)
  <2>1. iso[b] # "rr"
    BY <1>2
  <2>2. QED
    BY <1>1, <2>1, Sees, ViewBounds
<1>4. /\ heads[m].wm \in Nat /\ heads[m].rows \in SUBSET (1..MaxLog)
      /\ LiveHead(m) /\ HeadComplete(m) /\ ClosedAt(m, StatementView(b))
  <2>1. LiveHead(m)
    BY <1>1, ViewBounds DEF LiveHead, Base
  <2>2. QED
    BY <1>1, <2>1, HeadFields DEF HeadsInv, HeadsComplete, ViewsClosed, Closed
<1>5. /\ B \in SUBSET Ids /\ last \in B /\ last \in Ids
      /\ \A i \in B : i > heads[m].wm /\ i <= last /\ RowVisible(i, View(b))
      /\ \A i \in Ids : i > heads[m].wm /\ i <= last /\ RowVisible(i, View(b)) => i \in B
  BY <1>0, <1>1, <1>4, BatchFacts
<1>6. last \in Nat /\ last \in 0..MaxLog /\ last <= Len(log) /\ heads[m].wm < last
  BY <1>1, <1>4, <1>5 DEF Ids
<1>7. rows \in SUBSET (1..MaxLog)
  BY <1>0, <1>1, <1>4, <1>5 DEF Ids
<1>8. \A i \in Ids : i > heads[m].wm => log[i].own # xid[b]
  BY <1>2 DEF OwnRowsAfter
<1>9. ASSUME NEW i \in rows
      PROVE  i \in Ids /\ log[i].own \in CommittedXids /\ (i > last => log[i].del \in StatementView(b))
  <2>1. CASE i \in B
    <3>1. i \in Ids /\ i \in Nat /\ i > heads[m].wm /\ i <= last /\ log[i].own \in View(b)
      BY <1>1, <1>5, <2>1 DEF RowVisible, Ids
    <3>2. log[i].own \in CommittedXids
      BY <1>3, <1>8, <3>1 DEF OwnXid
    <3>3. QED
      BY <1>6, <3>1, <3>2
  <2>2. CASE i \in heads[m].rows
    <3>1. i \in Ids /\ log[i].own \in CommittedXids /\ (i > heads[m].wm => log[i].del \in StatementView(b))
      BY <1>4, <2>2 DEF HeadComplete, ClosedAt, Base
    <3>2. i \in Nat
      BY <1>1, <3>1 DEF Ids
    <3>3. QED
      BY <1>4, <1>6, <3>1, <3>2
  <2>3. QED
    BY <1>0, <2>1, <2>2
<1>10. ASSUME NEW i \in 1..last
       PROVE  log[i].own \notin RunningXids /\ (log[i].own \in CommittedXids => i \in rows)
  <2>1. i \in Ids /\ i \in Nat /\ i <= last
    BY <1>1, <1>6 DEF Ids
  <2>2. CASE i <= heads[m].wm
    <3>1. i \in 1..heads[m].wm
      BY <1>4, <2>1, <2>2
    <3>2. QED
      BY <1>0, <1>4, <3>1 DEF HeadComplete
  <2>3. CASE i > heads[m].wm
    <3>1. log[i].own \notin RunningXids
      BY <1>2, <1>8, <2>1, <2>3, FencedDecided
    <3>2. CASE log[i].del \in StatementView(b)
      <4>1. log[i].del \in LiveXids
        BY <1>1, <3>2, ViewBounds
      <4>2. Kept(i, StatementView(b))
        BY <1>1, <2>1, <4>1 DEF HeadsInv, PrunedKept
      <4>3. i \in heads[m].rows
        BY <4>2 DEF Kept, Base
      <4>4. QED
        BY <1>0, <3>1, <4>3
    <3>3. CASE log[i].del \notin StatementView(b)
      <4>1. ASSUME log[i].own \in CommittedXids PROVE i \in B
        <5>1. RowVisible(i, View(b))
          BY <1>3, <3>3, <4>1 DEF RowVisible
        <5>2. QED
          BY <1>5, <2>1, <2>3, <5>1
      <4>2. QED
        BY <1>0, <3>1, <4>1
    <3>4. QED
      BY <3>2, <3>3
  <2>4. QED
    BY <1>4, <2>1, <2>2, <2>3
<1>11. QED
  BY <1>0, <1>6, <1>7, <1>9, <1>10 DEF CompleteTo

\* The ingest publishes a generation, or loads the one there is.
LEMMA IngestPublishKeeps ==
    ASSUME IInv, NEW b \in Backends, IngestPublish(b)
    PROVE  IInv'
<1>1. PICK v : v = View(b)
  OBVIOUS
<1>2. PICK load : load = LoadPublished(cache[b], xid[b], v)
  OBVIOUS
<1>3. PICK B : B = CapturedBatch(Published(v).wm, Len(log), v)
  OBVIOUS
<1>4. /\ pc[b] = "ingestFenced" /\ fence' = NoBackend /\ pc' = [pc EXCEPT ![b] = "serve"]
      /\ UNCHANGED <<log, xact, floors, iso, xid, snap, target, writers, barrier, buildLock>>
  BY DEF IngestPublish, txVars
<1>5. \/ B = {} /\ cache' = [cache EXCEPT ![b] = load] /\ heads' = heads
      \/ /\ B # {}
         /\ \E gen \in FreshGenerations(v) :
                LET next == [Published(v) EXCEPT !.gen = gen, !.wm = Max(B), !.rows = @ \cup B] IN
                /\ Publish(b, gen, next.wm, next.rows)
                /\ cache' = [cache EXCEPT ![b] = Install(load, xid[b], EngineOf(next))]
  BY <1>1, <1>2, <1>3 DEF IngestPublish
<1>6. /\ TxInv /\ Types /\ LocksHeld /\ IngestReady /\ CachesInv /\ snap \in [Backends -> SnapType]
      /\ cache \in [Backends -> CacheType] /\ target \in [Backends -> 0..MaxLog]
      /\ xid[b] \in Xids \cup {NoXid} /\ pc \in [Backends -> PcType]
      /\ Len(log) \in Nat
  BY DEF IInv, TxInv, TxTypes, Types, DbTypes, LockTypes
<1>7. /\ fence = b /\ buildLock = b /\ iso[b] = "rc" /\ snap[b].xmin # 0
      /\ xid[b] # NoXid /\ xid[b] \in Xids /\ xid[b] \in Int /\ VisibleHeads(v) # {}
      /\ v = StatementView(b) /\ cache[b].aborted = FALSE
  BY <1>1, <1>4, <1>6, Sees DEF LocksHeld, IngestReady, CachesInv, CacheStatus, CacheType, Xids, NoXid
<1>8. v \in SUBSET LiveXids
  BY <1>6, <1>7, ViewBounds
<1>9. PICK c : c = cache[b]
  OBVIOUS
<1>10. c \in CacheType /\ EngineGood(b, c) /\ c.aborted = FALSE /\ c.fixed = "notEntered"
  <2>1. iso[b] # "rr"
    BY <1>7
  <2>2. QED
    BY <1>6, <1>7, <1>9, <2>1 DEF CachesInv, CacheStatus
<1>11. /\ load \in CacheType /\ load.aborted = FALSE /\ EngineGood(b, load) /\ load.fixed = "notEntered"
  BY <1>2, <1>7, <1>9, <1>10, LoadGood
<1>12. PICK p \in PcType : p = "serve"
  BY DEF PcType
<1>13. p \notin {"out", "loaded", "apply", "applyFenced", "ingest", "ingestFenced"} /\ pc[b] # "out"
  BY <1>4, <1>12
<1>14. target' = [target EXCEPT ![b] = target[b]] /\ target[b] \in 0..MaxLog
  BY <1>4, <1>6
<1>15. CASE B = {}
  <2>1. cache' = [cache EXCEPT ![b] = load] /\ heads' = heads
    BY <1>5, <1>15
  <2>2. load.fixed = "notEntered" <=> cache[b].fixed = "notEntered"
    BY <1>9, <1>10, <1>11
  <2>3. QED
    BY <1>4, <1>7, <1>11, <1>12, <1>13, <1>14, <2>1, <2>2, ApplyStepKeeps
<1>16. CASE B # {}
  <2>1. PICK m \in HeadIds :
            /\ Published(v) = heads[m] /\ heads[m].xid \in v
            /\ \A k \in HeadIds : heads[k].xid \in v => heads[k].rows \subseteq heads[m].rows
    BY <1>7, <1>8, PublishedIs
  <2>2. /\ heads[m] \in HeadType /\ heads[m].wm \in Nat /\ heads[m].rows \in SUBSET (1..MaxLog)
    BY <1>6, HeadFields
  <2>3. PICK last \in Nat : last = Max(B)
    <3>1. Max(B) \in Ids
      BY <1>3, <1>6, <1>16, <2>1, <2>2, BatchFacts
    <3>2. QED
      BY <1>6, <3>1 DEF Ids
  <2>4. PICK rows : rows = heads[m].rows \cup B
    OBVIOUS
  <2>5. CompleteTo(b, last, rows)
    <3>1. Base(b, m) /\ B = CapturedBatch(heads[m].wm, Len(log), View(b)) /\ m \in HeadIds
      BY <1>1, <1>3, <1>7, <2>1 DEF Base
    <3>2. CompleteTo(b, Max(B), heads[m].rows \cup B)
      BY <1>4, <1>16, <3>1, IngestComplete
    <3>3. QED
      BY <2>3, <2>4, <3>2
  <2>6. PICK gen \in FreshGenerations(v) :
            LET next == [Published(v) EXCEPT !.gen = gen, !.wm = Max(B), !.rows = @ \cup B] IN
            /\ Publish(b, gen, next.wm, next.rows)
            /\ cache' = [cache EXCEPT ![b] = Install(load, xid[b], EngineOf(next))]
    BY <1>5, <1>16
  <2>7. gen \in Nat /\ gen # 0 /\ \A k \in HeadIds : heads[k].xid \in v => heads[k].gen < gen
    BY <1>8, FreshGen
  <2>8. PICK h : h = [xid |-> xid[b], gen |-> gen, wm |-> last, rows |-> rows]
    OBVIOUS
  <2>9. h \in HeadType /\ h.xid = xid[b] /\ h.gen = gen /\ h.wm = last /\ h.rows = rows
    BY <1>7, <2>5, <2>7, <2>8 DEF HeadType, CompleteTo
  <2>10. PICK next : next = [heads[m] EXCEPT !.gen = gen, !.wm = last, !.rows = rows]
    OBVIOUS
  <2>11. next.gen = gen /\ next.wm = last /\ next.rows = rows
    BY <2>2, <2>10 DEF HeadType
  <2>12. heads' = Append(heads, h) /\ cache' = [cache EXCEPT ![b] = Install(load, xid[b], EngineOf(next))]
    <3>1. next = [Published(v) EXCEPT !.gen = gen, !.wm = Max(B), !.rows = @ \cup B]
      BY <2>1, <2>3, <2>4, <2>10
    <3>2. Publish(b, gen, last, rows) /\ cache' = [cache EXCEPT ![b] = Install(load, xid[b], EngineOf(next))]
      BY <2>6, <2>11, <3>1
    <3>3. QED
      BY <1>7, <2>8, <3>2 DEF Publish, XidOf
  <2>13. EngineOf(next) = EngineOf(h)
    BY <2>9, <2>11 DEF EngineOf
  <2>14. PICK e \in EngineType : e = EngineOf(h)
    <3>1. EngineOf(h) \in EngineType
      BY <2>5, <2>7, <2>9 DEF EngineOf, EngineType, CompleteTo
    <3>2. QED
      BY <3>1
  <2>15. PICK d : d = Install(load, xid[b], e)
    OBVIOUS
  <2>16. d \in CacheType /\ d.eng = e /\ d.levels = {0} /\ d.aborted = FALSE /\ d.fixed = "notEntered"
    BY <1>7, <1>11, <2>15, InstallFields DEF Touch
  <2>17. TxInv' /\ Worked(b)
    <3>1. PICK s : s = snap[b]
      OBVIOUS
    <3>2. snap' = [snap EXCEPT ![b] = s] /\ iso[b] # "none"
      BY <1>4, <1>6, <1>7, <3>1
    <3>3. QED
      BY <1>4, <1>6, <3>1, <3>2, WorkKeepsTx
  <2>18. /\ LogKept /\ HeadsKept /\ Ids' = Ids /\ DbTypes' /\ LogOwned' /\ HeadsInv'
         /\ \A k \in HeadIds' \ HeadIds : heads'[k].xid \notin CommittedXids
         /\ \A i \in Ids : log'[i].del \in LiveXids' => log[i].del \in LiveXids
         /\ EngineGood(b, d)'
    <3>1. xid'[b] # NoXid /\ h.xid = xid'[b] /\ buildLock' = b
      BY <1>4, <1>7, <2>9
    <3>2. \A k \in HeadIds : heads[k].xid \in StatementView(b) =>
                heads[k].rows \subseteq h.rows /\ heads[k].gen < h.gen
      BY <1>7, <2>1, <2>4, <2>7, <2>9
    <3>3. h.gen # 0 /\ CompleteTo(b, h.wm, h.rows)
      BY <2>5, <2>7, <2>9
    <3>4. d.eng = EngineOf(h)
      BY <2>14, <2>16
    <3>5. QED
      BY <1>4, <1>7, <2>9, <2>12, <2>16, <2>17, <3>1, <3>2, <3>3, <3>4, PublishKeeps
  <2>19. cache' = [cache EXCEPT ![b] = d]
    BY <2>12, <2>13, <2>14, <2>15
  <2>20. LocksHeld'
    <3>1. buildLock' = b /\ iso'[b] = "rc" /\ iso'[b] # "none" /\ snap'[b].xmin # 0
      BY <1>4, <1>7
    <3>2. QED
      BY <1>4, <1>7, <1>12, <1>13, <2>17, <3>1, LocksStay
  <2>21. /\ writers' \subseteq Backends /\ fence' \in Backends \cup {NoBackend}
         /\ barrier' \in Backends \cup {NoBackend} /\ buildLock' \in Backends \cup {NoBackend}
    BY <1>4, <1>6 DEF Types, LockTypes
  <2>22. iso'[b] # "rr" /\ iso'[b] # "none"
    BY <1>4, <1>7
  <2>23. QED
    BY <1>4, <1>7, <1>12, <1>13, <1>14, <2>16, <2>17, <2>18, <2>19, <2>20, <2>21, <2>22, StepKeeps
<1>17. QED
  BY <1>15, <1>16

\* What a build reads is complete up to the largest id still in the log: the source
\* boundary has locked out every writer.
LEMMA BuildComplete ==
    ASSUME IInv, NEW b \in Backends, iso[b] = "rc", writers = {},
           NEW rows, rows = {i \in Ids : log[i].own \in StatementView(b)}
    PROVE  /\ CompleteTo(b, MaxSyncLogId(StatementView(b)), rows)
           /\ \A k \in HeadIds : heads[k].xid \in StatementView(b) => heads[k].rows \subseteq rows
<1>1. /\ TxInv /\ Types /\ LogOwned /\ HeadsInv /\ Len(log) \in Nat /\ Len(log) <= MaxLog /\ MaxLog \in Nat
  BY BoundsAssumption DEF IInv, Types, DbTypes
<1>2. PICK v : v = StatementView(b)
  OBVIOUS
<1>3. v = CommittedXids \cup OwnXid(b) /\ v \in SUBSET LiveXids /\ OwnXid(b) \in SUBSET RunningXids
  <2>1. iso[b] # "rr"
    OBVIOUS
  <2>2. QED
    BY <1>1, <1>2, <2>1, ViewBounds
<1>4. \A i \in Ids : log[i].own \notin RunningXids
  BY <1>1 DEF LogOwned
<1>5. PICK w \in Int : w = MaxSyncLogId(v)
  BY <1>1, MaxIdType
<1>6. w \in 0..Len(log) /\ w \in 0..MaxLog /\ \A i \in Ids : RowVisible(i, v) => i <= w
  BY <1>1, <1>5, MaxIdType
<1>7. rows \in SUBSET (1..MaxLog)
  BY <1>1 DEF Ids
<1>8. ASSUME NEW i \in rows
      PROVE  i \in Ids /\ log[i].own \in CommittedXids /\ (i > w => log[i].del \in v)
  <2>1. i \in Ids /\ i \in Nat /\ log[i].own \in v
    BY <1>1, <1>2 DEF Ids
  <2>2. log[i].own \in CommittedXids
    BY <1>3, <1>4, <2>1
  <2>3. i > w => ~RowVisible(i, v)
    BY <1>6, <2>1
  <2>4. QED
    BY <2>1, <2>2, <2>3 DEF RowVisible
<1>9. ASSUME NEW i \in 1..w
      PROVE  log[i].own \notin RunningXids /\ (log[i].own \in CommittedXids => i \in rows)
  <2>1. i \in Ids
    BY <1>1, <1>6 DEF Ids
  <2>2. QED
    BY <1>2, <1>3, <1>4, <2>1
<1>10. CompleteTo(b, w, rows)
  BY <1>1, <1>2, <1>6, <1>7, <1>8, <1>9 DEF CompleteTo
<1>11. ASSUME NEW k \in HeadIds, heads[k].xid \in v PROVE heads[k].rows \subseteq rows
  <2>1. HeadComplete(k)
    BY <1>1, <1>3, <1>11 DEF HeadsInv, HeadsComplete, LiveHead
  <2>2. QED
    BY <1>2, <1>3, <2>1 DEF HeadComplete
<1>12. QED
  BY <1>2, <1>5, <1>10, <1>11

\* An engine built in memory, with no generation behind it.
LEMMA BuiltGood ==
    ASSUME IInv, NEW b \in Backends, iso[b] = "rc", NEW wm, NEW rows, CompleteTo(b, wm, rows),
           NEW d, d.eng.built = TRUE, d.eng.gen = 0, d.eng.applied = wm, d.eng.rows = rows, d.levels = {0}
    PROVE  EngineGood(b, d)
<1>1. /\ StatementView(b) = CommittedXids \cup OwnXid(b) /\ OwnXid(b) \in SUBSET RunningXids
  BY ViewBounds DEF IInv
<1>2. EngineVisible(b, d)
  BY <1>1 DEF EngineVisible, CompleteTo
<1>3. EngineComplete(b, d)
  BY <1>1 DEF EngineComplete, CompleteTo
<1>4. QED
  BY <1>2, <1>3 DEF EngineGood, EngineShape, EngineBased

\* graph.build().
LEMMA BuildKeeps ==
    ASSUME IInv, NEW b \in Backends, NEW persist \in BOOLEAN, Build(b, persist)
    PROVE  IInv'
<1>1. PICK v : v = StatementView(b)
  OBVIOUS
<1>2. PICK wm : wm = MaxSyncLogId(v)
  OBVIOUS
<1>3. PICK rows : rows = {i \in Ids : log[i].own \in v}
  OBVIOUS
<1>4. /\ iso[b] = "rc" /\ pc[b] = "out" /\ buildLock \in {NoBackend, b} /\ writers = {} /\ fence = NoBackend
      /\ AssignXid(b) /\ RegisterSnapshot(b) /\ buildLock' = b /\ barrier' = b
      /\ pc' = [pc EXCEPT ![b] = "serve"]
      /\ UNCHANGED <<log, floors, iso, target, writers, fence>>
  BY DEF Build, BoundaryAvailable, Idle
<1>5. /\ persist => \E gen \in FreshGenerations(v) :
            /\ Publish(b, gen, wm, rows)
            /\ cache' = [cache EXCEPT ![b] = Install(EnterStatement(b), XidOf(b),
                            EngineOf([NoHead EXCEPT !.gen = gen, !.wm = wm, !.rows = rows]))]
      /\ ~persist =>
            /\ cache' = [cache EXCEPT ![b] = Install(EnterStatement(b), XidOf(b),
                            EngineOf([NoHead EXCEPT !.wm = wm, !.rows = rows]))]
            /\ heads' = heads
  BY <1>1, <1>2, <1>3 DEF Build, BoundaryAvailable
<1>6. /\ TxInv /\ Types /\ LocksHeld
      /\ cache \in [Backends -> CacheType] /\ target \in [Backends -> 0..MaxLog]
  BY DEF IInv, Types, LockTypes
<1>7. TxInv' /\ Worked(b) /\ snap'[b].xmin # 0 /\ iso'[b] = "rc" /\ iso'[b] # "none" /\ iso'[b] # "rr"
  <2>1. iso[b] # "none"
    BY <1>4
  <2>2. QED
    BY <1>4, <1>6, <2>1, RegisterKeepsTx
<1>8. xid'[b] = XidOf(b) /\ XidOf(b) # NoXid /\ XidOf(b) \in Xids /\ XidOf(b) \in Int
  BY <1>4, <1>6, <1>7, XidAssigned DEF Xids
<1>9. /\ CompleteTo(b, wm, rows)
      /\ \A k \in HeadIds : heads[k].xid \in v => heads[k].rows \subseteq rows
  BY <1>1, <1>2, <1>3, <1>4, BuildComplete
<1>10. wm \in 0..MaxLog /\ rows \in SUBSET (1..MaxLog)
  BY <1>9 DEF CompleteTo
<1>11. v \in SUBSET LiveXids
  BY <1>1, <1>6, ViewBounds
<1>12. PICK c : c = EnterStatement(b)
  OBVIOUS
<1>13. c \in CacheType /\ c.aborted = FALSE /\ c.fixed = "notEntered"
  <2>1. iso[b] # "rr"
    BY <1>4
  <2>2. QED
    BY <1>12, <2>1, EnterGood
<1>14. buildLock' = buildLock \/ (buildLock = NoBackend /\ buildLock' = b)
  BY <1>4
<1>15. PICK p \in PcType : p = "serve"
  BY DEF PcType
<1>16. p \notin {"out", "loaded", "apply", "applyFenced", "ingest", "ingestFenced"}
  BY <1>15
<1>17. LocksHeld'
  BY <1>4, <1>7, <1>14, <1>15, <1>16, LocksStay
<1>18. /\ writers' \subseteq Backends /\ fence' \in Backends \cup {NoBackend}
       /\ barrier' \in Backends \cup {NoBackend} /\ buildLock' \in Backends \cup {NoBackend}
  BY <1>4, <1>6 DEF Types, LockTypes
<1>19. target' = [target EXCEPT ![b] = target[b]] /\ target[b] \in 0..MaxLog
  BY <1>4, <1>6
<1>20. CASE persist
  <2>1. PICK gen \in FreshGenerations(v) :
            /\ Publish(b, gen, wm, rows)
            /\ cache' = [cache EXCEPT ![b] = Install(c, XidOf(b),
                            EngineOf([NoHead EXCEPT !.gen = gen, !.wm = wm, !.rows = rows]))]
    BY <1>5, <1>12, <1>20
  <2>2. gen \in Nat /\ gen # 0 /\ \A k \in HeadIds : heads[k].xid \in v => heads[k].gen < gen
    BY <1>11, FreshGen
  <2>3. PICK h : h = [xid |-> XidOf(b), gen |-> gen, wm |-> wm, rows |-> rows]
    OBVIOUS
  <2>4. h \in HeadType /\ h.xid = XidOf(b) /\ h.gen = gen /\ h.wm = wm /\ h.rows = rows
    BY <1>8, <1>10, <2>2, <2>3 DEF HeadType
  <2>5. heads' = Append(heads, h)
    BY <2>1, <2>3 DEF Publish
  <2>6. PICK e \in EngineType : e = EngineOf(h)
    <3>1. EngineOf(h) \in EngineType
      BY <1>10, <2>2, <2>4 DEF EngineOf, EngineType
    <3>2. QED
      BY <3>1
  <2>7. EngineOf([NoHead EXCEPT !.gen = gen, !.wm = wm, !.rows = rows]) = e
    BY <2>4, <2>6 DEF EngineOf, NoHead
  <2>8. PICK d : d = Install(c, XidOf(b), e)
    OBVIOUS
  <2>9. d \in CacheType /\ d.eng = e /\ d.levels = {0} /\ d.aborted = FALSE /\ d.fixed = "notEntered"
    BY <1>8, <1>13, <2>8, InstallFields DEF Touch
  <2>10. cache' = [cache EXCEPT ![b] = d]
    BY <2>1, <2>7, <2>8
  <2>11. /\ LogKept /\ HeadsKept /\ Ids' = Ids /\ DbTypes' /\ LogOwned' /\ HeadsInv'
         /\ \A k \in HeadIds' \ HeadIds : heads'[k].xid \notin CommittedXids
         /\ \A i \in Ids : log'[i].del \in LiveXids' => log[i].del \in LiveXids
         /\ EngineGood(b, d)'
    <3>1. xid'[b] # NoXid /\ h.xid = xid'[b]
      BY <1>8, <2>4
    <3>2. \A k \in HeadIds : heads[k].xid \in StatementView(b) =>
                heads[k].rows \subseteq h.rows /\ heads[k].gen < h.gen
      BY <1>1, <1>9, <2>2, <2>4
    <3>3. h.gen # 0 /\ CompleteTo(b, h.wm, h.rows)
      BY <1>9, <2>2, <2>4
    <3>4. d.eng = EngineOf(h)
      BY <2>6, <2>9
    <3>5. QED
      BY <1>4, <1>7, <2>4, <2>5, <2>9, <3>1, <3>2, <3>3, <3>4, PublishKeeps
  <2>12. QED
    BY <1>4, <1>7, <1>15, <1>16, <1>17, <1>18, <1>19, <2>9, <2>10, <2>11, StepKeeps
<1>21. CASE ~persist
  <2>1. PICK e : e = EngineOf([NoHead EXCEPT !.wm = wm, !.rows = rows])
    OBVIOUS
  <2>2. heads' = heads /\ cache' = [cache EXCEPT ![b] = Install(c, XidOf(b), e)]
    BY <1>5, <1>12, <1>21, <2>1
  <2>3. e = [built |-> TRUE, gen |-> 0, applied |-> wm, rows |-> rows]
    BY <2>1 DEF EngineOf, NoHead
  <2>4. e \in EngineType /\ e.built = TRUE /\ e.gen = 0 /\ e.applied = wm /\ e.rows = rows
    BY <1>10, <2>3 DEF EngineType
  <2>5. PICK d : d = Install(c, XidOf(b), e)
    OBVIOUS
  <2>6. d \in CacheType /\ d.eng = e /\ d.levels = {0} /\ d.aborted = FALSE /\ d.fixed = "notEntered"
    BY <1>8, <1>13, <2>4, <2>5, InstallFields DEF Touch
  <2>7. /\ LogKept /\ HeadsKept /\ Ids' = Ids /\ HeadIds' = HeadIds /\ DbTypes' /\ LogOwned' /\ HeadsInv'
        /\ \A i \in Ids : log'[i].del \in LiveXids' => log[i].del \in LiveXids
    BY <1>4, <1>7, <1>14, <2>2, QuietKeeps
  <2>8. EngineGood(b, d)
    BY <1>4, <1>9, <2>4, <2>6, BuiltGood
  <2>9. EngineGood(b, d)'
    BY <1>7, <2>6, <2>7, <2>8, EngineStays
  <2>10. cache' = [cache EXCEPT ![b] = d]
    BY <2>2, <2>5
  <2>11. QED
    BY <1>4, <1>7, <1>15, <1>16, <1>17, <1>18, <1>19, <2>2, <2>6, <2>7, <2>9, <2>10, StepKeeps
<1>22. QED
  BY <1>20, <1>21

\* GetOldestNonRemovableTransactionId: what precedes it is decided, and every
\* snapshot that is held knows so.
LEMMA Horizon ==
    ASSUME TxInv
    PROVE  /\ OldestNonRemovable \in Nat
           /\ \A x \in RunningXids : OldestNonRemovable <= x
           /\ \A c \in Backends : snap[c].xmin # 0 => OldestNonRemovable <= snap[c].xmin
<1> DEFINE X == {snap[c].xmin : c \in Backends} \ {0}
           R == RunningXids \cup {NextXid} \cup X
<1>1. TxTypes /\ snap \in [Backends -> SnapType] /\ Len(xact) <= MaxXid
  BY DEF TxInv, TxTypes
<1>2. /\ MaxXid \in Nat /\ Len(xact) \in Nat /\ NextXid = Len(xact) + 1 /\ RunningXids \in SUBSET (1..Len(xact))
  BY <1>1, XidNumbers
<1>3. RunningXids \in SUBSET (0..(MaxXid + 1)) /\ NextXid \in 0..(MaxXid + 1)
  BY <1>1, <1>2
<1>4. X \in SUBSET (0..(MaxXid + 1))
  BY <1>1 DEF SnapType
<1>5. R \in SUBSET (0..(MaxXid + 1)) /\ R # {}
  BY <1>3, <1>4
<1>6. IsFiniteSet(R) /\ R \in SUBSET Int
  <2>1. IsFiniteSet(0..(MaxXid + 1)) /\ 0..(MaxXid + 1) \in SUBSET Int
    BY <1>2, FS_Interval
  <2>2. QED
    BY <1>5, <2>1, FS_Subset
<1>7. Min(R) \in R /\ \A y \in R : Min(R) <= y
  BY <1>5, <1>6, MinProperty
<1>8. Min(R) \in Nat
  BY <1>2, <1>5, <1>7
<1>9. OldestNonRemovable = Min(R)
  BY DEF OldestNonRemovable
<1>10. QED
  BY <1>7, <1>8, <1>9

\* A generation before the horizon is committed, and everybody sees it.
LEMMA SettledHead ==
    ASSUME IInv, NEW b \in Backends, NEW m \in HeadIds, heads[m].xid \in StatementView(b),
           ~(OldestNonRemovable <= heads[m].xid)
    PROVE  /\ heads[m].xid \in CommittedXids
           /\ \A c \in Backends : heads[m].xid \in StatementView(c)
           /\ \A c \in Backends : snap[c].xmin # 0 => heads[m].xid < snap[c].xmin
<1>1. TxInv /\ Types /\ HeadsOwned
  BY DEF IInv, HeadsInv
<1>2. Len(xact) \in Nat /\ MaxXid \in Nat
  BY <1>1, XidNumbers DEF TxInv
<1>3. PICK x \in Nat : x = heads[m].xid
  BY <1>1, <1>2 DEF HeadsOwned, HeadOwned
<1>4. PICK o \in Nat : o = OldestNonRemovable
  BY <1>1, Horizon
<1>5. x < o
  BY <1>3, <1>4
<1>6. x \in CommittedXids
  <2>1. x \notin RunningXids
    BY <1>1, <1>4, <1>5, Horizon
  <2>2. QED
    BY <1>1, <1>3, <2>1, ViewBounds DEF LiveXids
<1>7. ASSUME NEW c \in Backends, snap[c].xmin # 0 PROVE x < snap[c].xmin
  <2>1. snap[c] \in SnapType
    BY <1>1 DEF TxInv, TxTypes
  <2>2. PICK s \in Nat : s = snap[c].xmin
    BY <1>2, <2>1 DEF SnapType
  <2>3. o <= s
    BY <1>1, <1>4, <1>7, <2>2, Horizon
  <2>4. QED
    BY <1>5, <2>2, <2>3
<1>8. ASSUME NEW c \in Backends PROVE x \in StatementView(c)
  <2>1. CASE iso[c] = "rr" /\ snap[c].xmin # 0
    <3>1. x \in snap[c].vis
      BY <1>1, <1>6, <1>7, <2>1 DEF TxInv, TxSnaps
    <3>2. QED
      BY <2>1, <3>1, Sees
  <2>2. CASE ~(iso[c] = "rr" /\ snap[c].xmin # 0)
    BY <1>6, <2>2, Sees
  <2>3. QED
    BY <2>1, <2>2
<1>9. QED
  BY <1>3, <1>6, <1>7, <1>8

\* prune_sync_log_if_safe.
LEMMA PruneKeeps ==
    ASSUME IInv, NEW b \in Backends, Prune(b)
    PROVE  IInv'
<1>1. PICK v : v = StatementView(b)
  OBVIOUS
<1>2. /\ iso[b] # "none" /\ pc[b] = "out" /\ buildLock \in {NoBackend, b}
      /\ ~HistoricalGenerationsRequired(b, Published(v)) /\ AssignXid(b)
      /\ buildLock' = b /\ cache' = [cache EXCEPT ![b] = EnterStatement(b)] /\ KeepSnapshot(b)
      /\ UNCHANGED <<heads, iso, pc, target, writers, fence, barrier>>
  BY <1>1 DEF Prune, Idle
<1>3. PICK floor \in 1..Published(v).wm :
        LET removed == {i \in Ids : i <= floor /\ RowVisible(i, v)} IN
        /\ log' = [i \in Ids |-> IF i \in removed THEN [log[i] EXCEPT !.del = XidOf(b)] ELSE log[i]]
        /\ floors' = floors \cup {[xid |-> XidOf(b), floor |-> floor]}
  BY <1>1 DEF Prune
<1>4. PICK removed : removed = {i \in Ids : i <= floor /\ RowVisible(i, v)}
  OBVIOUS
<1>5. /\ TxInv /\ Types /\ DbTypes /\ LocksHeld /\ LogOwned /\ HeadsInv
      /\ cache \in [Backends -> CacheType] /\ target \in [Backends -> 0..MaxLog]
      /\ pc \in [Backends -> PcType] /\ iso \in [Backends -> {"none", "rc", "rr"}]
      /\ log \in Seq(RowType) /\ Len(log) \in Nat /\ Len(log) <= MaxLog /\ MaxLog \in Nat
  BY BoundsAssumption DEF IInv, TxInv, TxTypes, Types, DbTypes, LockTypes
<1>6. iso[b] # "rr" /\ iso[b] = "rc" /\ Published(v) # NoHead /\ ~(OldestNonRemovable <= Published(v).xid)
  BY <1>2, <1>5 DEF HistoricalGenerationsRequired
<1>7. TxInv' /\ Worked(b)
  BY <1>2, <1>5, KeepKeepsTx
<1>8. /\ xid'[b] = XidOf(b) /\ XidOf(b) # NoXid /\ XidOf(b) \in Xids
      /\ XidOf(b) \in 1..Len(xact') /\ XidOf(b) \in RunningXids'
  BY <1>2, <1>5, <1>7, XidAssigned
<1>9. v \in SUBSET LiveXids /\ v = CommittedXids \cup OwnXid(b)
  BY <1>1, <1>5, <1>6, ViewBounds
<1>10. PICK m \in HeadIds : Published(v) = heads[m] /\ heads[m].xid \in v
  <2>1. VisibleHeads(v) # {}
    BY <1>6 DEF Published
  <2>2. QED
    BY <1>9, <2>1, PublishedIs
<1>11. /\ heads[m].xid \in CommittedXids
       /\ \A c \in Backends : heads[m].xid \in StatementView(c)
       /\ \A c \in Backends : snap[c].xmin # 0 => heads[m].xid < snap[c].xmin
  <2>1. ~(OldestNonRemovable <= heads[m].xid) /\ heads[m].xid \in StatementView(b)
    BY <1>1, <1>6, <1>10
  <2>2. QED
    BY <1>10, <2>1, SettledHead
<1>12. heads[m].wm \in Nat /\ heads[m].wm \in 0..MaxLog /\ HeadComplete(m)
  <2>1. LiveHead(m)
    BY <1>9, <1>10 DEF LiveHead
  <2>2. QED
    BY <1>5, <1>10, <2>1, HeadFields DEF HeadsInv, HeadsComplete
<1>13. floor \in Nat /\ floor \in 1..MaxLog /\ floor <= heads[m].wm
  BY <1>5, <1>10, <1>12
<1>14. ASSUME NEW i \in removed PROVE i \in Ids /\ i \in heads[m].rows /\ log[i].del \notin LiveXids
  <2>1. i \in Ids /\ i \in Nat /\ i <= floor /\ log[i].own \in v /\ log[i].del \notin v
    BY <1>4, <1>5 DEF RowVisible, Ids
  <2>2. i \in 1..heads[m].wm
    BY <1>5, <1>12, <1>13, <2>1 DEF Ids
  <2>3. log[i].own \notin RunningXids
    BY <1>12, <2>2 DEF HeadComplete
  <2>4. log[i].own \in CommittedXids
    BY <1>9, <2>1, <2>3 DEF LiveXids
  <2>5. i \in heads[m].rows
    BY <1>12, <2>2, <2>4 DEF HeadComplete
  <2>6. log[i].del \notin RunningXids
    <3> SUFFICES ASSUME log[i].del \in RunningXids PROVE FALSE
      OBVIOUS
    <3>1. buildLock = b /\ xid[b] = log[i].del
      BY <1>2, <1>5, <2>1, BackendsAssumption DEF LogOwned
    <3>2. log[i].del # NoXid
      BY <1>5, XidNumbers DEF TxInv, LiveXids
    <3>3. QED
      BY <1>9, <2>1, <3>1, <3>2 DEF OwnXid
  <2>7. QED
    BY <1>9, <2>1, <2>5, <2>6 DEF LiveXids
<1>15. /\ log' = [i \in Ids |-> IF i \in removed THEN [log[i] EXCEPT !.del = XidOf(b)] ELSE log[i]]
       /\ floors' = floors \cup {[xid |-> XidOf(b), floor |-> floor]}
  BY <1>3, <1>4
<1>16. ASSUME NEW i \in Ids
       PROVE  /\ log'[i] \in RowType /\ log'[i].own = log[i].own
              /\ i \in removed => log'[i].del = XidOf(b)
              /\ i \notin removed => log'[i] = log[i]
  <2>1. log[i] \in RowType
    BY <1>5 DEF Ids
  <2>2. CASE i \in removed
    <3>1. log'[i] = [log[i] EXCEPT !.del = XidOf(b)]
      BY <1>15, <2>2
    <3>2. QED
      BY <1>8, <2>1, <2>2, <3>1 DEF RowType
  <2>3. CASE i \notin removed
    BY <1>15, <2>1, <2>3
  <2>4. QED
    BY <2>2, <2>3
<1>17. log' \in Seq(RowType) /\ Len(log') = Len(log) /\ Ids' = Ids
  <2>1. log' \in [1..Len(log) -> RowType]
    BY <1>15, <1>16 DEF Ids
  <2>2. log' \in Seq(RowType) /\ Len(log') = Len(log)
    BY <1>5, <2>1, SMTT(40)
  <2>3. QED
    BY <2>2 DEF Ids
<1>18. DbTypes'
  <2>1. [xid |-> XidOf(b), floor |-> floor] \in [xid : Xids, floor : 1..MaxLog]
    BY <1>8, <1>13
  <2>2. QED
    BY <1>2, <1>5, <1>15, <1>17, <2>1 DEF DbTypes
<1>19. LogKept /\ HeadsKept /\ HeadIds' = HeadIds
  <2>1. LogKept
    BY <1>5, <1>14, <1>16, <1>17 DEF LogKept
  <2>2. QED
    BY <1>2, <1>5, <2>1, Unchanged
<1>20. buildLock' = buildLock \/ (buildLock = NoBackend /\ buildLock' = b)
  BY <1>2
<1>21. LogOwned'
  <2> SUFFICES ASSUME NEW i \in Ids
               PROVE  /\ log'[i].own \in 1..Len(xact')
                      /\ log'[i].del \in 0..Len(xact')
                      /\ log'[i].own \in RunningXids' => \E w \in writers' : xid'[w] = log'[i].own
                      /\ log'[i].del \in RunningXids' => buildLock' \in Backends /\ xid'[buildLock'] = log'[i].del
    BY <1>17 DEF LogOwned
  <2>1. /\ log[i].own \in 1..Len(xact')
        /\ log[i].del \in 0..Len(xact')
        /\ log[i].own \in RunningXids' => \E w \in writers' : xid'[w] = log[i].own
        /\ log[i].del \in RunningXids' => buildLock' \in Backends /\ xid'[buildLock'] = log[i].del
    BY <1>2, <1>7, <1>20, OldRows
  <2>2. CASE i \notin removed
    BY <1>16, <2>1, <2>2
  <2>3. CASE i \in removed
    <3>1. XidOf(b) \in 0..Len(xact')
      BY <1>8
    <3>2. QED
      BY <1>2, <1>8, <1>16, <2>1, <2>3, <3>1
  <2>4. QED
    BY <2>2, <2>3
<1>22. \A i \in Ids : i \notin removed /\ log'[i].del \in LiveXids' => log[i].del \in LiveXids
  <2>1. \A i \in Ids : log[i].del \in 0..Len(xact)
    BY <1>5 DEF LogOwned
  <2>2. QED
    BY <1>7, <1>16, <2>1, OldXids
<1>23. HeadsInv'
  <2>1. HeadsOwned' /\ HeadsComplete' /\ HeadsChain' /\ ViewsClosed'
    BY <1>2, <1>7, <1>19, <1>20, SameHeads
  <2>2. \A i \in removed : Kept(i, CommittedXids) /\ \A c \in Backends : Kept(i, StatementView(c))
    BY <1>10, <1>11, <1>14 DEF Kept
  <2>3. PrunedKept'
    BY <1>7, <1>17, <1>19, <1>22, <2>2, PrunedStay
  <2>4. QED
    BY <2>1, <2>3 DEF HeadsInv
<1>24. ASSUME NEW c \in Backends \ {b}, pc[c] # "out", Covering(c)
       PROVE  \A i \in Ids' : log'[i].del \in LiveXids' =>
                  (i \in Ids /\ log[i].del \in LiveXids) \/ i \in cache[c].eng.rows
  <2>1. snap[c].xmin # 0
    BY <1>5, <1>24 DEF LocksHeld
  <2>2. heads[m].rows \subseteq cache[c].eng.rows
    BY <1>10, <1>11, <1>24, <2>1 DEF Covering
  <2>3. QED
    BY <1>14, <1>17, <1>22, <2>2
<1>25. PICK d : d = EnterStatement(b)
  OBVIOUS
<1>26. d \in CacheType /\ d.aborted = FALSE /\ EngineGood(b, d) /\ d.fixed = "notEntered"
  BY <1>6, <1>25, EnterGood
<1>27. EngineGood(b, d)'
  BY <1>7, <1>19, <1>26, EngineStays
<1>28. PICK p \in PcType : p = "out"
  BY DEF PcType
<1>29. /\ pc' = [pc EXCEPT ![b] = p] /\ target' = [target EXCEPT ![b] = target[b]] /\ target[b] \in 0..MaxLog
       /\ cache' = [cache EXCEPT ![b] = d] /\ iso'[b] = "rc" /\ iso'[b] # "none"
       /\ p \notin {"loaded", "apply", "applyFenced", "ingest", "ingestFenced"}
  BY <1>2, <1>5, <1>6, <1>25, <1>28
<1>30. LocksHeld'
  BY <1>2, <1>7, <1>20, <1>28, <1>29, LocksStay
<1>31. /\ writers' \subseteq Backends /\ fence' \in Backends \cup {NoBackend}
       /\ barrier' \in Backends \cup {NoBackend} /\ buildLock' \in Backends \cup {NoBackend}
  BY <1>2, <1>5 DEF Types, LockTypes
<1>32. QED
  BY <1>2, <1>7, <1>17, <1>18, <1>19, <1>21, <1>23, <1>24, <1>26, <1>27, <1>28, <1>29, <1>30, <1>31, StepKeeps

----------------------------------------------------------------------------
\* The end of a transaction.

\* Nobody's view shrinks; only the ended transaction can join it, and it joins no
\* snapshot that is fixed.
LEMMA EndViews ==
    ASSUME TxInv, NEW b \in Backends, NEW outcome \in {"commit", "abort"}, Ended(b, outcome)
    PROVE  /\ CommittedXids \in SUBSET CommittedXids' /\ CommittedXids' \in SUBSET (CommittedXids \cup OwnXid(b))
           /\ RunningXids' = RunningXids \ OwnXid(b) /\ LiveXids' \in SUBSET LiveXids
           /\ OwnXid(b) \in SUBSET RunningXids /\ CommittedXids \cap RunningXids = {}
           /\ StatementView(b)' = CommittedXids'
           /\ \A c \in Backends \ {b} :
                /\ iso'[c] = iso[c] /\ xid'[c] = xid[c] /\ snap'[c] = snap[c] /\ OwnXid(c)' = OwnXid(c)
                /\ StatementView(c) \in SUBSET StatementView(c)'
                /\ iso[c] = "rr" /\ snap[c].xmin # 0 => StatementView(c)' = StatementView(c)
                /\ ~(iso[c] = "rr" /\ snap[c].xmin # 0) =>
                        /\ StatementView(c) = CommittedXids \cup OwnXid(c)
                        /\ StatementView(c)' = CommittedXids' \cup OwnXid(c)
<1>1. /\ CommittedXids' = CommittedXids \cup (IF outcome = "commit" THEN OwnXid(b) ELSE {})
      /\ RunningXids' = RunningXids \ OwnXid(b)
      /\ StatementView(b)' = CommittedXids' /\ OwnXid(b) \in SUBSET RunningXids
      /\ CommittedXids \cap RunningXids = {}
  BY ViewBounds, XidNumbers DEF Ended, TxInv
<1>2. CommittedXids \in SUBSET CommittedXids' /\ CommittedXids' \in SUBSET (CommittedXids \cup OwnXid(b))
  BY <1>1
<1>3. LiveXids' \in SUBSET LiveXids
  BY <1>1, <1>2 DEF LiveXids
<1>4. ASSUME NEW c \in Backends \ {b}
      PROVE  /\ iso'[c] = iso[c] /\ xid'[c] = xid[c] /\ snap'[c] = snap[c] /\ OwnXid(c)' = OwnXid(c)
             /\ StatementView(c) \in SUBSET StatementView(c)'
             /\ iso[c] = "rr" /\ snap[c].xmin # 0 => StatementView(c)' = StatementView(c)
             /\ ~(iso[c] = "rr" /\ snap[c].xmin # 0) =>
                     /\ StatementView(c) = CommittedXids \cup OwnXid(c)
                     /\ StatementView(c)' = CommittedXids' \cup OwnXid(c)
  <2>1. iso'[c] = iso[c] /\ xid'[c] = xid[c] /\ snap'[c] = snap[c] /\ OwnXid(c)' = OwnXid(c)
    BY DEF Ended, OwnXid
  <2>2. iso[c] = "rr" /\ snap[c].xmin # 0 => StatementView(c)' = StatementView(c)
    BY DEF Ended
  <2>3. ~(iso[c] = "rr" /\ snap[c].xmin # 0) =>
                     /\ StatementView(c) = CommittedXids \cup OwnXid(c)
                     /\ StatementView(c)' = CommittedXids' \cup OwnXid(c)
    BY Sees DEF Ended
  <2>4. StatementView(c) \in SUBSET StatementView(c)'
    BY <1>2, <2>2, <2>3
  <2>5. QED
    BY <2>1, <2>2, <2>3, <2>4
<1>5. QED
  BY <1>1, <1>2, <1>3, <1>4

\* Commit and rollback keep what is said of the generations: what was undecided was
\* the publisher's alone, and its own view becomes everybody's.
LEMMA EndKeepsHeads ==
    ASSUME IInv, TxInv', NEW b \in Backends, NEW outcome \in {"commit", "abort"}, Ended(b, outcome),
           UNCHANGED <<log, heads>>, buildLock' = ReleaseLock(buildLock, b)
    PROVE  HeadsInv'
<1>1. TxInv /\ Types /\ LogOwned /\ LocksHeld /\ HeadsInv
  BY DEF IInv
<1>2. Ids' = Ids /\ HeadIds' = HeadIds
  BY <1>1, Unchanged
<1>3. /\ CommittedXids \in SUBSET CommittedXids' /\ CommittedXids' \in SUBSET (CommittedXids \cup OwnXid(b))
      /\ RunningXids' = RunningXids \ OwnXid(b) /\ LiveXids' \in SUBSET LiveXids
      /\ OwnXid(b) \in SUBSET RunningXids /\ CommittedXids \cap RunningXids = {}
      /\ StatementView(b)' = CommittedXids'
      /\ \A c \in Backends \ {b} :
            /\ iso'[c] = iso[c] /\ xid'[c] = xid[c] /\ snap'[c] = snap[c] /\ OwnXid(c)' = OwnXid(c)
            /\ StatementView(c) \in SUBSET StatementView(c)'
            /\ iso[c] = "rr" /\ snap[c].xmin # 0 => StatementView(c)' = StatementView(c)
            /\ ~(iso[c] = "rr" /\ snap[c].xmin # 0) =>
                    /\ StatementView(c) = CommittedXids \cup OwnXid(c)
                    /\ StatementView(c)' = CommittedXids' \cup OwnXid(c)
  BY <1>1, EndViews
<1>4. \A k \in HeadIds : LiveHead(k)' => LiveHead(k)
  BY <1>3 DEF LiveHead
<1>5. HeadsOwned'
  <2> SUFFICES ASSUME NEW k \in HeadIds PROVE HeadOwned(k)'
    BY <1>2 DEF HeadsOwned
  <2>1. HeadOwned(k) /\ Len(xact') = Len(xact)
    BY <1>1 DEF HeadsInv, HeadsOwned, Ended
  <2>2. ASSUME heads[k].xid \in RunningXids'
        PROVE  buildLock' \in Backends /\ xid'[buildLock'] = heads[k].xid
    <3>1. buildLock \in Backends /\ xid[buildLock] = heads[k].xid /\ heads[k].xid \notin OwnXid(b)
      BY <1>3, <2>1, <2>2 DEF HeadOwned
    <3>2. heads[k].xid # NoXid
      BY <1>1, <1>3, <2>2, XidNumbers DEF TxInv, LiveXids
    <3>3. buildLock # b
      BY <3>1, <3>2 DEF OwnXid
    <3>4. QED
      BY <1>3, <3>1, <3>3 DEF ReleaseLock
  <2>3. QED
    BY <2>1, <2>2 DEF HeadOwned
<1>6. HeadsComplete'
  <2> SUFFICES ASSUME NEW k \in HeadIds, LiveHead(k)' PROVE HeadComplete(k)'
    BY <1>2 DEF HeadsComplete
  <2>1. HeadComplete(k)
    BY <1>1, <1>4 DEF HeadsInv, HeadsComplete
  <2>2. \A i \in heads[k].rows : i \in Ids /\ log[i].own \in CommittedXids'
    BY <1>3, <2>1 DEF HeadComplete
  <2>3. \A i \in 1..heads[k].wm :
            log[i].own \notin RunningXids' /\ (log[i].own \in CommittedXids' => i \in heads[k].rows)
    BY <1>3, <2>1 DEF HeadComplete
  <2>4. heads[k].wm <= Len(log)
    BY <2>1 DEF HeadComplete
  <2>5. QED
    BY <1>2, <2>2, <2>3, <2>4 DEF HeadComplete
<1>7. HeadsChain'
  <2> SUFFICES ASSUME NEW j \in HeadIds, NEW k \in HeadIds, j < k PROVE Grown(j, k)'
    BY <1>2 DEF HeadsChain
  <2>1. Grown(j, k)
    BY <1>1 DEF HeadsInv, HeadsChain
  <2>2. QED
    BY <1>4, <2>1 DEF Grown
<1>8. ASSUME NEW k \in HeadIds, heads[k].xid \in CommittedXids', NEW i \in heads[k].rows
      PROVE  log[i].own \in CommittedXids' /\ (i > heads[k].wm => log[i].del \in CommittedXids')
  <2>1. CASE heads[k].xid \in CommittedXids
    <3>1. ClosedAt(k, CommittedXids)
      BY <1>1 DEF HeadsInv, ViewsClosed, Closed
    <3>2. QED
      BY <1>3, <2>1, <3>1, <1>8 DEF ClosedAt
  <2>2. CASE heads[k].xid \notin CommittedXids
    <3>1. heads[k].xid \in OwnXid(b) /\ heads[k].xid \in RunningXids
      BY <1>3, <1>8, <2>2
    <3>2. buildLock \in Backends /\ xid[buildLock] = heads[k].xid /\ xid[b] = heads[k].xid /\ xid[b] # NoXid
      BY <1>1, <3>1 DEF HeadsInv, HeadsOwned, HeadOwned, OwnXid
    <3>3. buildLock = b
      BY <1>1, <3>2 DEF TxInv, TxOwned
    <3>4. iso[b] = "rc" /\ iso[b] # "rr"
      BY <1>1, <3>3 DEF LocksHeld
    <3>5. StatementView(b) = CommittedXids \cup OwnXid(b) /\ ClosedAt(k, StatementView(b))
      BY <1>1, <3>4, ViewBounds DEF HeadsInv, ViewsClosed, Closed
    <3>6. CommittedXids' = CommittedXids \cup OwnXid(b)
      BY <1>8, <2>2 DEF Ended
    <3>7. QED
      BY <1>8, <3>1, <3>5, <3>6 DEF ClosedAt
  <2>3. QED
    BY <2>1, <2>2
<1>9. ViewsClosed'
  <2>1. Closed(CommittedXids)'
    BY <1>2, <1>8 DEF Closed, ClosedAt
  <2>2. ASSUME NEW c \in Backends PROVE Closed(StatementView(c))'
    <3>1. CASE c = b
      BY <1>2, <1>3, <1>8, <3>1 DEF Closed, ClosedAt
    <3>2. CASE c # b
      <4> SUFFICES ASSUME NEW k \in HeadIds, heads[k].xid \in StatementView(c)', NEW i \in heads[k].rows
                   PROVE  /\ log[i].own \in StatementView(c)'
                          /\ i > heads[k].wm => log[i].del \in StatementView(c)'
        BY <1>2 DEF Closed, ClosedAt
      <4>1. ClosedAt(k, StatementView(c))
        BY <1>1 DEF HeadsInv, ViewsClosed, Closed
      <4>2. CASE heads[k].xid \in StatementView(c)
        BY <1>3, <3>2, <4>1, <4>2 DEF ClosedAt
      <4>3. CASE heads[k].xid \notin StatementView(c)
        <5>1. StatementView(c)' = CommittedXids' \cup OwnXid(c) /\ StatementView(c) = CommittedXids \cup OwnXid(c)
          BY <1>3, <3>2, <4>3
        <5>2. heads[k].xid \in CommittedXids'
          BY <4>3, <5>1
        <5>3. QED
          BY <1>8, <5>1, <5>2
      <4>4. QED
        BY <4>2, <4>3
    <3>3. QED
      BY <3>1, <3>2
  <2>3. QED
    BY <2>1, <2>2 DEF ViewsClosed
<1>10. PrunedKept'
  <2> SUFFICES ASSUME NEW i \in Ids, log[i].del \in LiveXids'
               PROVE  Kept(i, CommittedXids)' /\ \A c \in Backends : Kept(i, StatementView(c))'
    BY <1>2 DEF PrunedKept
  <2>1. log[i].del \in LiveXids
    BY <1>3
  <2>2. Kept(i, CommittedXids) /\ \A c \in Backends : Kept(i, StatementView(c))
    BY <1>1, <2>1 DEF HeadsInv, PrunedKept
  <2>3. Kept(i, CommittedXids)'
    BY <1>2, <1>3, <2>2 DEF Kept
  <2>4. ASSUME NEW c \in Backends PROVE Kept(i, StatementView(c))'
    <3>1. CASE c = b
      BY <1>3, <2>3, <3>1 DEF Kept
    <3>2. CASE c # b
      BY <1>2, <1>3, <2>2, <3>2 DEF Kept
    <3>3. QED
      BY <3>1, <3>2
  <2>5. QED
    BY <2>3, <2>4
<1>11. QED
  BY <1>5, <1>6, <1>7, <1>9, <1>10 DEF HeadsInv

\* The engine of another backend: the ended transaction wrote nothing below its
\* watermark, unless the snapshot is fixed and does not see the outcome.
LEMMA EndKeepsOther ==
    ASSUME IInv, TxInv', NEW b \in Backends, NEW outcome \in {"commit", "abort"}, Ended(b, outcome),
           UNCHANGED <<log, heads>>, NEW c \in Backends, c # b, NEW d \in CacheType, EngineGood(c, d),
           d.fixed # "notEntered" => iso[c] = "rr" /\ snap[c].xmin # 0
    PROVE  EngineGood(c, d)'
<1>1. TxInv /\ Types
  BY DEF IInv
<1>2. Ids' = Ids /\ HeadIds' = HeadIds
  BY <1>1, Unchanged
<1>3. /\ CommittedXids \in SUBSET CommittedXids' /\ CommittedXids' \in SUBSET (CommittedXids \cup OwnXid(b))
      /\ RunningXids' = RunningXids \ OwnXid(b) /\ OwnXid(b) \in SUBSET RunningXids
      /\ xid'[c] = xid[c] /\ OwnXid(c)' = OwnXid(c)
      /\ StatementView(c) \in SUBSET StatementView(c)'
      /\ iso[c] = "rr" /\ snap[c].xmin # 0 => StatementView(c)' = StatementView(c)
      /\ ~(iso[c] = "rr" /\ snap[c].xmin # 0) =>
              /\ StatementView(c) = CommittedXids \cup OwnXid(c)
              /\ StatementView(c)' = CommittedXids' \cup OwnXid(c)
  BY <1>1, EndViews
<1>4. EngineVisible(c, d)'
  BY <1>2, <1>3 DEF EngineGood, EngineVisible
<1>5. xid[c] \notin OwnXid(b)
  BY <1>1 DEF TxInv, TxOwned, OwnXid
<1>6. EngineComplete(c, d)'
  <2>1. /\ d.eng.applied <= Len(log)
        /\ \A i \in 1..d.eng.applied :
            /\ log[i].own \in StatementView(c) => i \in d.eng.rows
            /\ d.fixed # "changed" =>
                /\ log[i].own \in RunningXids => log[i].own = xid[c]
                /\ log[i].own \in CommittedXids => i \in d.eng.rows
    BY DEF EngineGood, EngineComplete
  <2>2. ASSUME NEW i \in 1..d.eng.applied, d.fixed # "changed"
        PROVE  /\ log[i].own \notin OwnXid(b)
               /\ log[i].own \in RunningXids' => log[i].own = xid[c]
               /\ log[i].own \in CommittedXids' => i \in d.eng.rows
    <3>1. log[i].own \notin OwnXid(b)
      BY <1>3, <1>5, <2>1, <2>2
    <3>2. QED
      BY <1>3, <2>1, <2>2, <3>1
  <2>3. ASSUME NEW i \in 1..d.eng.applied, log[i].own \in StatementView(c)' PROVE i \in d.eng.rows
    <3>1. CASE iso[c] = "rr" /\ snap[c].xmin # 0
      BY <1>3, <2>1, <2>3, <3>1
    <3>2. CASE ~(iso[c] = "rr" /\ snap[c].xmin # 0)
      <4>1. d.fixed # "changed"
        BY <3>2
      <4>2. log[i].own \in StatementView(c)
        BY <1>3, <2>2, <2>3, <3>2, <4>1
      <4>3. QED
        BY <2>1, <4>2
    <3>3. QED
      BY <3>1, <3>2
  <2>4. QED
    BY <1>3, <2>1, <2>2, <2>3 DEF EngineComplete
<1>7. EngineBased(c, d)'
  BY <1>2, <1>3 DEF EngineGood, EngineBased
<1>8. QED
  BY <1>4, <1>6, <1>7 DEF EngineGood, EngineShape, EmptyEngine

\* finish_replay_transaction: what it writes.
LEMMA FinishFields ==
    ASSUME NEW c \in CacheType, NEW outcome \in {"commit", "abort"}, NEW d, d = FinishReplayTransaction(c, outcome)
    PROVE  /\ d \in CacheType /\ d.eng = c.eng /\ d.levels = {} /\ d.fixed = "notEntered"
           /\ ~d.aborted => ~c.aborted /\ c.fixed # "changed" /\ (outcome = "commit" \/ c.levels = {})
<1>1. PICK x \in BOOLEAN : x = Discards(c, outcome, c.aborted \/ (outcome # "commit" /\ c.levels # {}))
  BY DEF Discards, CacheType
<1>2. ~x => ~c.aborted /\ c.fixed # "changed" /\ (outcome = "commit" \/ c.levels = {})
  BY <1>1 DEF Discards
<1>3. PICK s \in StampType : s = FinalStamp(c, x)
  <2>1. Unknown \in StampType /\ c.stamp \in StampType
    BY DEF StampType, Unknown, NoXid, CacheType
  <2>2. Committed(c.stamp.xid) \in StampType
    BY <2>1 DEF StampType, Committed
  <2>3. FinalStamp(c, x) \in StampType
    BY <2>1, <2>2 DEF FinalStamp
  <2>4. QED
    BY <2>3
<1>4. d = [c EXCEPT !.levels = {}, !.aborted = x, !.stamp = s, !.fixed = "notEntered", !.txStamp = Unset]
  BY <1>1, <1>3 DEF FinishReplayTransaction
<1>5. Unset \in Int
  BY DEF Unset
<1>6. d \in CacheType /\ d.eng = c.eng /\ d.levels = {} /\ d.fixed = "notEntered" /\ d.aborted = x
  BY <1>4, <1>5 DEF CacheType
<1>7. QED
  BY <1>2, <1>6

\* The own engine outlives the transaction only with changes that are committed.
LEMMA EndKeepsOwn ==
    ASSUME IInv, TxInv', NEW b \in Backends, NEW outcome \in {"commit", "abort"}, Ended(b, outcome),
           UNCHANGED <<log, heads>>, NEW c \in CacheType, EngineGood(b, c), c.fixed # "changed",
           outcome = "commit" \/ c.levels = {}, NEW d, d.eng = c.eng, d.levels = {}
    PROVE  EngineGood(b, d)'
<1>1. TxInv /\ Types /\ LogOwned
  BY DEF IInv
<1>2. Ids' = Ids /\ HeadIds' = HeadIds
  BY <1>1, Unchanged
<1>3. /\ CommittedXids \in SUBSET CommittedXids' /\ CommittedXids' \in SUBSET (CommittedXids \cup OwnXid(b))
      /\ RunningXids' = RunningXids \ OwnXid(b)
      /\ StatementView(b)' = CommittedXids' /\ xid'[b] = NoXid
      /\ outcome = "commit" => CommittedXids' = CommittedXids \cup OwnXid(b)
      /\ StatementView(b) \in SUBSET (CommittedXids \cup OwnXid(b)) /\ OwnXid(b) \in SUBSET StatementView(b)
  BY <1>1, EndViews, ViewBounds, Sees DEF Ended
<1>4. NoXid \notin CommittedXids'
  BY DEF CommittedXids, NoXid
<1>5. \A x : x \in OwnXid(b) => x = xid[b]
  BY DEF OwnXid
<1>6. EngineVisible(b, d)'
  <2> SUFFICES ASSUME NEW i \in c.eng.rows
               PROVE  /\ i \in Ids
                      /\ log[i].own \in CommittedXids'
                      /\ i > c.eng.applied => log[i].del \in CommittedXids'
    BY <1>2, <1>3, <1>4 DEF EngineVisible
  <2>1. /\ i \in Ids
        /\ log[i].own \in StatementView(b)
        /\ i > c.eng.applied => log[i].del \in StatementView(b)
        /\ c.levels = {} => log[i].own # xid[b] /\ (i > c.eng.applied => log[i].del # xid[b])
    BY DEF EngineGood, EngineVisible
  <2>2. QED
    BY <1>3, <1>5, <2>1
<1>7. EngineComplete(b, d)'
  <2>1. /\ c.eng.applied <= Len(log)
        /\ \A i \in 1..c.eng.applied :
            /\ log[i].own \in StatementView(b) => i \in c.eng.rows
            /\ log[i].own \in RunningXids => log[i].own = xid[b]
            /\ log[i].own \in CommittedXids => i \in c.eng.rows
    BY DEF EngineGood, EngineComplete
  <2>2. c.eng.applied \in Nat /\ Len(log) \in Nat
    BY <1>1 DEF CacheType, EngineType, Types, DbTypes
  <2>3. ASSUME NEW i \in 1..c.eng.applied
        PROVE  log[i].own \notin RunningXids' /\ (log[i].own \in CommittedXids' => i \in c.eng.rows)
    <3>1. i \in Ids
      BY <2>1, <2>2 DEF Ids
    <3>2. log[i].own # NoXid
      BY <1>1, <3>1 DEF LogOwned, NoXid
    <3>3. QED
      BY <1>3, <2>1, <3>2 DEF OwnXid
  <2>4. QED
    BY <1>3, <2>1, <2>3 DEF EngineComplete
<1>8. EngineBased(b, d)'
  <2> SUFFICES ASSUME c.eng.gen # 0
               PROVE  \E k \in HeadIds : /\ heads[k].gen = c.eng.gen /\ heads[k].rows \subseteq c.eng.rows
                                         /\ heads[k].xid \in CommittedXids'
    BY <1>2 DEF EngineBased
  <2>1. PICK k \in HeadIds :
            /\ heads[k].gen = c.eng.gen
            /\ heads[k].rows \subseteq c.eng.rows
            /\ heads[k].xid \in CommittedXids \cup OwnXid(b)
            /\ c.levels = {} => heads[k].xid \in CommittedXids
    BY DEF EngineGood, EngineBased
  <2>2. QED
    BY <1>3, <2>1
<1>9. QED
  BY <1>6, <1>7, <1>8 DEF EngineGood, EngineShape, EmptyEngine

\* COMMIT and ROLLBACK.
LEMMA EndTransactionKeeps ==
    ASSUME IInv, NEW b \in Backends, NEW outcome \in {"commit", "abort"}, EndTransaction(b, outcome)
    PROVE  IInv'
<1>1. PICK d : d = FinishReplayTransaction(cache[b], outcome)
  OBVIOUS
<1>2. /\ FinishXact(b, outcome)
      /\ cache' = [cache EXCEPT ![b] = d]
      /\ pc' = [pc EXCEPT ![b] = "out"] /\ target' = [target EXCEPT ![b] = 0]
      /\ writers' = writers \ {b} /\ fence' = ReleaseLock(fence, b)
      /\ barrier' = ReleaseLock(barrier, b) /\ buildLock' = ReleaseLock(buildLock, b)
      /\ UNCHANGED <<log, heads, floors>>
  BY <1>1 DEF EndTransaction
<1>3. /\ TxInv /\ Types /\ DbTypes /\ LockTypes /\ LogOwned /\ LocksHeld /\ IngestReady /\ HeadsInv /\ CachesInv
      /\ cache \in [Backends -> CacheType] /\ target \in [Backends -> 0..MaxLog] /\ MaxLog \in Nat
      /\ pc \in [Backends -> PcType]
  BY BoundsAssumption DEF IInv, Types, LockTypes
<1>4. TxInv' /\ Ended(b, outcome)
  BY <1>2, <1>3, EndKeepsTx
<1>5. Ids' = Ids /\ HeadIds' = HeadIds
  BY <1>2, <1>3, Unchanged
<1>6. HeadsInv'
  BY <1>2, <1>4, EndKeepsHeads
<1>7. /\ CommittedXids \in SUBSET CommittedXids' /\ CommittedXids' \in SUBSET (CommittedXids \cup OwnXid(b))
      /\ RunningXids' = RunningXids \ OwnXid(b) /\ LiveXids' \in SUBSET LiveXids
      /\ OwnXid(b) \in SUBSET RunningXids
      /\ \A c \in Backends \ {b} :
            iso'[c] = iso[c] /\ xid'[c] = xid[c] /\ snap'[c] = snap[c] /\ OwnXid(c)' = OwnXid(c)
  BY <1>3, <1>4, EndViews
<1>8. /\ d \in CacheType /\ d.eng = cache[b].eng /\ d.levels = {} /\ d.fixed = "notEntered"
      /\ ~d.aborted => /\ ~cache[b].aborted /\ cache[b].fixed # "changed"
                       /\ outcome = "commit" \/ cache[b].levels = {}
  BY <1>1, <1>3, FinishFields
<1>9. /\ cache' \in [Backends -> CacheType] /\ cache'[b] = d
      /\ pc' \in [Backends -> PcType] /\ pc'[b] = "out"
      /\ \A c \in Backends \ {b} : cache'[c] = cache[c] /\ pc'[c] = pc[c]
  BY <1>2, <1>3, <1>8 DEF PcType
<1>10. Types'
  <2>1. target' \in [Backends -> 0..MaxLog]
    BY <1>2, <1>3
  <2>2. /\ writers' \subseteq Backends /\ fence' \in Backends \cup {NoBackend}
        /\ barrier' \in Backends \cup {NoBackend} /\ buildLock' \in Backends \cup {NoBackend}
    BY <1>2, <1>3 DEF LockTypes, ReleaseLock
  <2>3. DbTypes'
    BY <1>2, <1>3 DEF DbTypes
  <2>4. QED
    BY <1>9, <2>1, <2>2, <2>3 DEF Types, LockTypes
<1>11. LogOwned'
  <2> SUFFICES ASSUME NEW i \in Ids
               PROVE  /\ log[i].own \in 1..Len(xact') /\ log[i].del \in 0..Len(xact')
                      /\ log[i].own \in RunningXids' => \E w \in writers' : xid'[w] = log[i].own
                      /\ log[i].del \in RunningXids' => buildLock' \in Backends /\ xid'[buildLock'] = log[i].del
    BY <1>2, <1>5 DEF LogOwned
  <2>1. /\ log[i].own \in 1..Len(xact') /\ log[i].del \in 0..Len(xact')
        /\ NoXid \notin RunningXids
    BY <1>3, <1>4, XidNumbers DEF LogOwned, Ended, TxInv, LiveXids
  <2>2. ASSUME log[i].own \in RunningXids' PROVE \E w \in writers' : xid'[w] = log[i].own
    <3>1. log[i].own \in RunningXids /\ log[i].own \notin OwnXid(b)
      BY <1>7, <2>2
    <3>2. PICK w \in writers : xid[w] = log[i].own
      BY <1>3, <3>1 DEF LogOwned
    <3>3. w # b /\ w \in Backends
      BY <1>3, <2>1, <3>1, <3>2 DEF OwnXid, LockTypes
    <3>4. QED
      BY <1>2, <1>7, <3>2, <3>3
  <2>3. ASSUME log[i].del \in RunningXids' PROVE buildLock' \in Backends /\ xid'[buildLock'] = log[i].del
    <3>1. log[i].del \in RunningXids /\ log[i].del \notin OwnXid(b)
      BY <1>7, <2>3
    <3>2. buildLock \in Backends /\ xid[buildLock] = log[i].del
      BY <1>3, <3>1 DEF LogOwned
    <3>3. buildLock # b
      BY <2>1, <3>1, <3>2 DEF OwnXid
    <3>4. QED
      BY <1>2, <1>7, <3>2, <3>3 DEF ReleaseLock
  <2>4. QED
    BY <2>1, <2>2, <2>3
<1>12. LocksHeld'
  <2>1. fence' \in Backends => writers' \subseteq {fence'}
    BY <1>2, <1>3, BackendsAssumption DEF LocksHeld, ReleaseLock
  <2>2. buildLock' \in Backends => iso'[buildLock'] = "rc"
    BY <1>2, <1>3, <1>7, BackendsAssumption DEF LocksHeld, ReleaseLock
  <2>3. ASSUME NEW c \in Backends
        PROVE  /\ pc'[c] \in {"applyFenced", "ingestFenced"} => fence' = c
               /\ pc'[c] \in {"ingest", "ingestFenced"} => buildLock' = c
               /\ pc'[c] # "out" => iso'[c] # "none" /\ snap'[c].xmin # 0
    <3>1. CASE c = b
      BY <1>9, <3>1
    <3>2. CASE c # b
      BY <1>2, <1>3, <1>7, <1>9, <3>2 DEF LocksHeld, ReleaseLock
    <3>3. QED
      BY <3>1, <3>2
  <2>4. QED
    BY <2>1, <2>2, <2>3 DEF LocksHeld
<1>13. IngestReady'
  <2> SUFFICES ASSUME NEW c \in Backends, pc'[c] \in {"ingest", "ingestFenced"}
               PROVE  xid'[c] # NoXid /\ VisibleHeads(View(c))' # {} /\ OwnRowsAfter(c, Published(View(c)).wm)' = {}
    BY DEF IngestReady
  <2>1. c # b
    BY <1>9
  <2>2. pc[c] \in {"ingest", "ingestFenced"} /\ buildLock = c /\ iso[c] = "rc"
    BY <1>3, <1>9, <2>1 DEF LocksHeld
  <2>3. View(c) = CommittedXids \cup OwnXid(c) /\ View(c)' = CommittedXids' \cup OwnXid(c)
    <3>1. View(c) = CommittedXids \cup OwnXid(c)
      BY <2>2 DEF View, OwnXid
    <3>2. iso'[c] = "rc" /\ OwnXid(c)' = OwnXid(c)
      BY <1>7, <2>1, <2>2
    <3>3. View(c)' = CommittedXids' \cup OwnXid(c)'
      BY <3>2 DEF View, OwnXid
    <3>4. QED
      BY <3>1, <3>2, <3>3
  <2>4. \A k \in HeadIds : heads[k].xid \notin OwnXid(b)
    <3> SUFFICES ASSUME NEW k \in HeadIds, heads[k].xid \in OwnXid(b) PROVE FALSE
      OBVIOUS
    <3>1. xid[c] = heads[k].xid
      BY <1>3, <1>7, <2>2 DEF HeadsInv, HeadsOwned, HeadOwned
    <3>2. xid[b] = heads[k].xid /\ xid[b] # NoXid
      BY DEF OwnXid
    <3>3. QED
      BY <1>3, <2>1, <3>1, <3>2 DEF TxInv, TxOwned
  <2>5. VisibleHeads(View(c))' = VisibleHeads(View(c))
    BY <1>2, <1>7, <2>3, <2>4 DEF VisibleHeads, HeadIds
  <2>6. Published(View(c))' = Published(View(c))
    BY <1>2, <2>5 DEF Published, NoHead
  <2>7. OwnRowsAfter(c, Published(View(c)).wm)' = OwnRowsAfter(c, Published(View(c)).wm)
    BY <1>2, <1>5, <1>7, <2>1, <2>6 DEF OwnRowsAfter
  <2>8. QED
    BY <1>3, <1>7, <2>1, <2>2, <2>5, <2>7 DEF IngestReady
<1>14. CachesInv'
  <2> SUFFICES ASSUME NEW c \in Backends
               PROVE  /\ CacheStatus(c)'
                      /\ ~cache'[c].aborted => EngineGood(c, cache[c])'
                      /\ pc'[c] \in {"loaded", "apply", "applyFenced"} => Covering(c)'
    BY DEF CachesInv
  <2>1. CASE c = b
    <3>1. CacheStatus(b)'
      BY <1>8, <1>9 DEF CacheStatus
    <3>2. ASSUME ~d.aborted PROVE EngineGood(b, cache[b])'
      <4>1. PICK e : e = cache[b]
        OBVIOUS
      <4>2. /\ e \in CacheType /\ EngineGood(b, e) /\ e.fixed # "changed"
            /\ outcome = "commit" \/ e.levels = {}
            /\ d.eng = e.eng /\ d.levels = {}
        BY <1>3, <1>8, <3>2, <4>1 DEF CachesInv
      <4>3. EngineGood(b, d)'
        BY <1>2, <1>4, <4>2, EndKeepsOwn
      <4>4. QED
        BY <1>9, <4>3, CachedGood
    <3>3. QED
      BY <1>9, <2>1, <3>1, <3>2
  <2>2. CASE c # b
    <3>1. PICK e : e = cache[c]
      OBVIOUS
    <3>2. e \in CacheType /\ cache'[c] = e /\ pc'[c] = pc[c] /\ CacheStatus(c)
      BY <1>3, <1>9, <2>2, <3>1 DEF CachesInv
    <3>3. CacheStatus(c)'
      BY <1>7, <2>2, <3>1, <3>2 DEF CacheStatus
    <3>4. ASSUME ~e.aborted PROVE EngineGood(c, cache[c])'
      <4>1. EngineGood(c, e) /\ (e.fixed # "notEntered" => iso[c] = "rr" /\ snap[c].xmin # 0)
        BY <1>3, <3>1, <3>2, <3>4 DEF CachesInv, CacheStatus
      <4>2. EngineGood(c, e)'
        BY <1>2, <1>4, <2>2, <3>2, <4>1, EndKeepsOther
      <4>3. QED
        BY <3>2, <4>2, CachedGood
    <3>5. ASSUME pc[c] \in {"loaded", "apply", "applyFenced"} PROVE Covering(c)'
      <4>1. Covering(c)
        BY <1>3, <3>5 DEF CachesInv
      <4>2. ASSUME NEW k \in HeadIds, heads[k].xid \in CommittedXids', heads[k].xid < snap[c].xmin
            PROVE  heads[k].xid \in CommittedXids
        <5> SUFFICES ASSUME heads[k].xid \notin CommittedXids PROVE FALSE
          OBVIOUS
        <5>1. heads[k].xid \in RunningXids
          BY <1>7, <4>2
        <5>2. snap[c].xmin <= heads[k].xid
          BY <1>3, <5>1 DEF TxInv, TxSnaps
        <5>3. snap[c] \in SnapType /\ MaxXid \in Nat /\ RunningXids \in SUBSET (1..Len(xact)) /\ Len(xact) \in Nat
          BY <1>3, XidNumbers DEF TxInv, TxTypes
        <5>4. snap[c].xmin \in Int /\ heads[k].xid \in Int
          <6>1. snap[c].xmin \in 0..(MaxXid + 1)
            BY <5>3 DEF SnapType
          <6>2. heads[k].xid \in 1..Len(xact)
            BY <5>1, <5>3
          <6>3. QED
            BY <5>3, <6>1, <6>2
        <5>5. QED
          BY <4>2, <5>2, <5>4
      <4>3. QED
        BY <1>2, <1>5, <1>7, <2>2, <3>1, <3>2, <4>1, <4>2 DEF Covering
    <3>6. QED
      BY <3>2, <3>3, <3>4, <3>5
  <2>3. QED
    BY <2>1, <2>2
<1>15. QED
  BY <1>4, <1>6, <1>10, <1>11, <1>12, <1>13, <1>14 DEF IInv

----------------------------------------------------------------------------
\* The invariant and what follows from it.

\* Nothing is running, logged, published or cached at the start.
LEMMA InitInv == Init => IInv
<1> SUFFICES ASSUME Init PROVE IInv
  OBVIOUS
<1>1. /\ xact = << >> /\ iso = [b \in Backends |-> "none"] /\ xid = [b \in Backends |-> NoXid]
      /\ snap = [b \in Backends |-> NoSnapshot]
      /\ log = << >> /\ heads = << >> /\ floors = {}
      /\ pc = [b \in Backends |-> "out"] /\ target = [b \in Backends |-> 0]
      /\ writers = {} /\ fence = NoBackend /\ barrier = NoBackend /\ buildLock = NoBackend
      /\ cache = [b \in Backends |-> NewCache]
  BY DEF Init, TxInit
<1>2. /\ Len(xact) = 0 /\ CommittedXids = {} /\ RunningXids = {} /\ LiveXids = {} /\ NextXid = 1
      /\ Ids = {} /\ HeadIds = {}
  BY <1>1 DEF CommittedXids, RunningXids, LiveXids, NextXid, Ids, HeadIds
<1>3. TxInv
  <2>1. NoSnapshot \in SnapType /\ NoSnapshot.xmin = 0 /\ NoSnapshot.vis = {}
    BY BackendsAssumption DEF NoSnapshot, SnapType
  <2>2. xact \in Seq({"running", "committed", "aborted"}) /\ Len(xact) <= MaxXid
    BY <1>1, <1>2, BackendsAssumption
  <2>3. TxTypes
    BY <1>1, <2>1, <2>2 DEF TxTypes
  <2>4. TxOwned
    BY <1>1 DEF TxOwned
  <2>5. TxSnaps
    BY <1>1, <1>2, <2>1 DEF TxSnaps
  <2>6. QED
    BY <2>3, <2>4, <2>5 DEF TxInv
<1>4. /\ NewCache \in CacheType /\ NewCache.eng = EmptyEngine /\ NewCache.aborted = FALSE
      /\ NewCache.fixed = "notEntered" /\ NewCache.levels = {}
  <2>1. EmptyEngine \in EngineType /\ Unknown \in StampType /\ Unset \in Int
    BY BoundsAssumption DEF EmptyEngine, EngineType, Unknown, StampType, NoXid, Unset
  <2>2. QED
    BY <2>1 DEF NewCache, CacheType
<1>5. Types
  <2>1. DbTypes
    BY <1>1, BoundsAssumption DEF DbTypes
  <2>2. LockTypes
    BY <1>1, BoundsAssumption DEF LockTypes, PcType
  <2>3. QED
    BY <1>1, <1>4, <2>1, <2>2 DEF Types
<1>6. LogOwned /\ LocksHeld /\ IngestReady
  BY <1>1, <1>2, BackendsAssumption DEF LogOwned, LocksHeld, IngestReady
<1>7. HeadsInv
  BY <1>2 DEF HeadsInv, HeadsOwned, HeadsComplete, HeadsChain, ViewsClosed, Closed, PrunedKept
<1>8. CachesInv
  <2> SUFFICES ASSUME NEW b \in Backends
               PROVE  /\ CacheStatus(b)
                      /\ EngineGood(b, cache[b])
                      /\ pc[b] \notin {"loaded", "apply", "applyFenced"}
    BY DEF CachesInv
  <2>1. cache[b] = NewCache /\ pc[b] = "out" /\ Len(log) = 0
    BY <1>1
  <2>2. CacheStatus(b)
    BY <1>4, <2>1 DEF CacheStatus
  <2>3. cache[b].eng.rows = {} /\ cache[b].eng.applied = 0 /\ cache[b].eng.gen = 0 /\ cache[b].eng = EmptyEngine
    BY <1>4, <2>1 DEF EmptyEngine
  <2>4. EngineGood(b, cache[b])
    BY <2>1, <2>3 DEF EngineGood, EngineShape, EngineVisible, EngineComplete, EngineBased
  <2>5. QED
    BY <2>1, <2>2, <2>4
<1>9. QED
  BY <1>3, <1>5, <1>6, <1>7, <1>8 DEF IInv

\* A stuttering step changes nothing.
LEMMA StutterKeeps == IInv /\ UNCHANGED vars => IInv'
<1> SUFFICES ASSUME IInv, UNCHANGED vars PROVE IInv'
  OBVIOUS
<1>1. UNCHANGED <<log, xact, heads, floors, iso, xid, snap, pc, target, writers, fence, barrier, buildLock, cache>>
  BY DEF vars, dbVars, txVars, lockVars
<1>2. TxInv' /\ Types'
  BY <1>1 DEF IInv, TxInv, TxTypes, TxOwned, TxSnaps, CommittedXids, RunningXids, NextXid, NoSnapshot,
              Types, DbTypes, LockTypes
<1>3. CommittedXids' = CommittedXids /\ RunningXids' = RunningXids /\ LiveXids' = LiveXids
      /\ Ids' = Ids /\ HeadIds' = HeadIds
  BY <1>1 DEF CommittedXids, RunningXids, LiveXids, Ids, HeadIds
<1>4. \A b : /\ StatementView(b)' = StatementView(b) /\ View(b)' = View(b) /\ OwnXid(b)' = OwnXid(b)
  BY <1>1, <1>3 DEF StatementView, StatementSnapshot, NextXid, View, OwnXid
<1>5. LogOwned' /\ LocksHeld'
  BY <1>1, <1>3 DEF IInv, LogOwned, LocksHeld
<1>6. IngestReady'
  BY <1>1, <1>3, <1>4 DEF IInv, IngestReady, VisibleHeads, Published, NoHead, OwnRowsAfter
<1>7. HeadsInv'
  BY <1>1, <1>3, <1>4 DEF IInv, HeadsInv, HeadsOwned, HeadOwned, HeadsComplete, HeadComplete, HeadsChain, Grown,
                          LiveHead, ViewsClosed, Closed, ClosedAt, PrunedKept, Kept
<1>8. CachesInv'
  BY <1>1, <1>3, <1>4 DEF IInv, CachesInv, CacheStatus, EngineGood, EngineShape, EmptyEngine, EngineVisible,
                          EngineComplete, EngineBased, Covering
<1>9. QED
  BY <1>2, <1>5, <1>6, <1>7, <1>8 DEF IInv

\* Every step keeps the invariant.
LEMMA NextKeeps == IInv /\ [Next]_vars => IInv'
<1> SUFFICES ASSUME IInv, [Next]_vars PROVE IInv'
  OBVIOUS
<1>1. Sources \subseteq Backends /\ Readers \subseteq Backends /\ Publishers \subseteq Backends /\ Pruners \subseteq Backends
  BY BoundsAssumption
<1>2. ASSUME NEW b \in Backends, Transaction(b) PROVE IInv'
  <2>1. PICK rc \in {"rc", "rr"} : rc = "rc"
    OBVIOUS
  <2>2. PICK rr \in {"rc", "rr"} : rr = "rr"
    OBVIOUS
  <2>3. QED
    BY <1>2, <2>1, <2>2, BeginKeeps, EndTransactionKeeps DEF Transaction
<1>3. ASSUME NEW b \in Backends, AcquireFence(b) \/ EndStatement(b) PROVE IInv'
  BY <1>3, AcquireFenceKeeps, EndStatementKeeps
<1>4. ASSUME NEW b \in Sources, WriteSource(b) PROVE IInv'
  BY <1>1, <1>4, WriteSourceKeeps
<1>5. ASSUME NEW b \in Readers, Query(b) \/ ApplyBegin(b) PROVE IInv'
  BY <1>1, <1>5, QueryKeeps
<1>6. ASSUME NEW b \in Readers, ApplyTarget(b) \/ ApplyBatch(b) PROVE IInv'
  BY <1>1, <1>6, ApplyTargetKeeps, ApplyBatchKeeps
<1>7. ASSUME NEW b \in Publishers, IngestBegin(b) \/ IngestPublish(b) PROVE IInv'
  BY <1>1, <1>7, IngestBeginKeeps, IngestPublishKeeps
<1>8. ASSUME NEW b \in Publishers, NEW persist \in BOOLEAN, Build(b, persist) PROVE IInv'
  BY <1>1, <1>8, BuildKeeps
<1>9. ASSUME NEW b \in Pruners, Prune(b) PROVE IInv'
  BY <1>1, <1>9, PruneKeeps
<1>10. CASE UNCHANGED vars
  BY <1>10, StutterKeeps
<1>11. QED
  BY <1>2, <1>3, <1>4, <1>5, <1>6, <1>7, <1>8, <1>9, <1>10 DEF Next

\* So it holds in every reachable state.
LEMMA IInvAlways == Spec => []IInv
BY InitInv, NextKeeps, PTL DEF Spec

----------------------------------------------------------------------------
\* What the invariant says about the program.

\* The caches, locks and tables keep their types: in particular a watermark never
\* passes the log and no lock is held by anything but a backend.
THEOREM SyncTypes == Spec => []TypeOK
<1>1. IInv => TypeOK
  <2> SUFFICES ASSUME IInv PROVE TypeOK
    OBVIOUS
  <2>1. TxTypes /\ DbTypes /\ LockTypes /\ cache \in [Backends -> CacheType]
    BY DEF IInv, TxInv, Types
  <2>2. TxTypeOK
    BY <2>1 DEF TxTypes, TxTypeOK, SnapType
  <2>3. \A k \in 1..Len(heads) : heads[k] \in HeadType
    BY <2>1 DEF DbTypes
  <2>4. \A b \in Backends : cache[b].eng \in EngineType
    BY <2>1 DEF CacheType
  <2>5. /\ log \in Seq(RowType) /\ Len(log) <= MaxLog
        /\ floors \subseteq [xid : Xids, floor : 1..MaxLog]
    BY <2>1 DEF DbTypes
  <2>6. /\ pc \in [Backends -> PcType] /\ target \in [Backends -> 0..MaxLog]
        /\ writers \subseteq Backends /\ {fence, barrier, buildLock} \subseteq Backends \cup {NoBackend}
    BY <2>1 DEF LockTypes
  <2>7. QED
    BY <2>2, <2>3, <2>4, <2>5, <2>6 DEF TypeOK, RowType, HeadType, PcType
<1>2. QED
  BY <1>1, IInvAlways, PTL

\* A statement that serves its engine: nothing has flagged the cache, and the
\* statement's snapshot is the one the engine was made for.
LEMMA ServedGood ==
    ASSUME IInv, NEW b \in Backends, pc[b] = "serve"
    PROVE  EngineGood(b, cache[b]) /\ View(b) = StatementView(b)
<1>1. LocksHeld /\ CachesInv
  BY DEF IInv
<1>2. snap[b].xmin # 0
  BY <1>1 DEF LocksHeld
<1>3. ~cache[b].aborted /\ EngineGood(b, cache[b])
  BY <1>1 DEF CachesInv, CacheStatus
<1>4. QED
  BY <1>2, <1>3, Sees

\* apply_sync, the ingest and a load from disk leave no gap below the scalar
\* watermark: a served engine holds every change its snapshot sees up to
\* applied_sync_id, whatever the commit order of the log's ids.
THEOREM ReplayLeavesNoGap == Spec => []NoGap
<1>1. IInv => NoGap
  <2> SUFFICES ASSUME IInv, NEW b \in Backends, pc[b] = "serve",
                      NEW i \in 1..cache[b].eng.applied, log[i].own \in View(b)
               PROVE  i \in cache[b].eng.rows
    BY DEF NoGap
  <2>1. EngineComplete(b, cache[b]) /\ View(b) = StatementView(b)
    BY ServedGood DEF EngineGood
  <2>2. QED
    BY <2>1 DEF EngineComplete
<1>2. QED
  BY <1>1, IInvAlways, PTL

\* recover_aborted_replay and the fixed-snapshot provenance keep invisible changes
\* out of what is served: a rolled back replay, and under REPEATABLE READ
\* everything that committed after the snapshot.
THEOREM NothingInvisibleServed == Spec => []NothingInvisible
<1>1. IInv => NothingInvisible
  <2> SUFFICES ASSUME IInv, NEW b \in Backends, pc[b] = "serve", NEW i \in cache[b].eng.rows
               PROVE  log[i].own \in View(b)
    BY DEF NothingInvisible
  <2>1. EngineVisible(b, cache[b]) /\ View(b) = StatementView(b)
    BY ServedGood DEF EngineGood
  <2>2. QED
    BY <2>1 DEF EngineVisible
<1>2. QED
  BY <1>1, IInvAlways, PTL

\* read_captured_sync_log_entries hands out no row whose change the engine already
\* has, also after a generation was loaded whose changes lie above its watermark.
THEOREM NothingReplayedTwice == Spec => NoReplayTwice
<1>1. ASSUME IInv
      PROVE  \A b \in Backends : pc[b] = "applyFenced" /\ pc'[b] = "apply" =>
                CapturedBatch(cache[b].eng.applied, target[b], View(b)) \cap cache[b].eng.rows = {}
  BY <1>1, BatchNew
<1>2. QED
  BY <1>1, IInvAlways, PTL DEF NoReplayTwice

\* A statement that replays leaves that state by a batch, or by an error that ends
\* its transaction.
LEMMA OnlyBatch ==
    ASSUME IInv, [Next]_vars, NEW b \in Backends, pc[b] = "applyFenced", pc'[b] \in {"apply", "serve"}
    PROVE  ApplyBatch(b)
<1>1. /\ Sources \subseteq Backends /\ Readers \subseteq Backends
      /\ Publishers \subseteq Backends /\ Pruners \subseteq Backends
      /\ pc \in [Backends -> PcType]
  BY BoundsAssumption DEF IInv, Types, LockTypes
<1>2. pc' # pc
  OBVIOUS
<1>3. ASSUME NEW c \in Backends, Transaction(c) PROVE FALSE
  BY <1>1, <1>2, <1>3 DEF Transaction, Begin, EndTransaction
<1>4. ASSUME NEW c \in Backends, AcquireFence(c) \/ EndStatement(c) PROVE FALSE
  BY <1>1, <1>4 DEF AcquireFence, EndStatement
<1>5. ASSUME NEW c \in Backends, WriteSource(c) \/ Prune(c) PROVE FALSE
  BY <1>2, <1>5 DEF WriteSource, Prune
<1>6. ASSUME NEW c \in Backends, Query(c) \/ ApplyBegin(c) \/ ApplyTarget(c) PROVE FALSE
  BY <1>1, <1>6 DEF Query, ApplyBegin, ApplyTarget, Idle
<1>7. ASSUME NEW c \in Backends, ApplyBatch(c) PROVE c = b
  <2>1. pc' = [pc EXCEPT ![c] = "serve"] \/ pc' = [pc EXCEPT ![c] = "apply"]
    BY <1>7 DEF ApplyBatch
  <2>2. QED
    BY <1>1, <2>1
<1>8. ASSUME NEW c \in Backends, IngestBegin(c) \/ IngestPublish(c) PROVE FALSE
  BY <1>1, <1>8 DEF IngestBegin, IngestPublish, Idle
<1>9. ASSUME NEW c \in Backends, NEW persist \in BOOLEAN, Build(c, persist) PROVE FALSE
  BY <1>1, <1>9 DEF Build, Idle
<1>10. Next
  BY <1>2 DEF vars
<1>11. QED
  BY <1>1, <1>3, <1>4, <1>5, <1>6, <1>7, <1>8, <1>9, <1>10 DEF Next

\* A batch is empty only when nothing is left to apply.
LEMMA EmptyBatch ==
    ASSUME Types, NEW a, NEW limit, NEW v, CapturedBatch(a, limit, v) = {}
    PROVE  Unapplied(a, limit, v) = {}
<1>1. PICK rows : rows = Unapplied(a, limit, v)
  OBVIOUS
<1> SUFFICES ASSUME rows # {} PROVE FALSE
  BY <1>1
<1>2. Len(log) \in Nat /\ BatchSize \in Nat \ {0}
  BY BoundsAssumption DEF Types, DbTypes
<1>3. rows \in SUBSET (1..Len(log))
  BY <1>1 DEF Unapplied, Ids
<1>4. IsFiniteSet(rows) /\ rows \in SUBSET Int
  <2>1. IsFiniteSet(1..Len(log))
    BY <1>2, FS_Interval
  <2>2. rows \in SUBSET Int
    BY <1>2, <1>3
  <2>3. QED
    BY <1>3, <2>1, <2>2, FS_Subset
<1>5. PICK m \in rows : \A y \in rows : m <= y
  BY <1>4, MinProperty
<1>6. {j \in rows : j < m} = {}
  <2>1. ASSUME NEW j \in rows, j < m PROVE FALSE
    <3>1. m <= j /\ m \in Int /\ j \in Int
      BY <1>4, <1>5
    <3>2. QED
      BY <2>1, <3>1
  <2>2. QED
    BY <2>1
<1>7. m \in CapturedBatch(a, limit, v)
  <2>1. Cardinality({j \in rows : j < m}) = 0
    BY <1>6, FS_EmptySet
  <2>2. Cardinality({j \in rows : j < m}) < BatchSize
    BY <1>2, <2>1
  <2>3. QED
    BY <1>1, <1>5, <2>2 DEF CapturedBatch
<1>8. QED
  BY <1>7

\* One batch brings the watermark nearer to the target and not past it; without a
\* batch the engine has every visible row up to the target.
LEMMA BatchReaches ==
    ASSUME IInv, NEW b \in Backends, ApplyBatch(b)
    PROVE  /\ pc'[b] = "apply" =>
                /\ target'[b] = target[b]
                /\ cache[b].eng.applied < cache'[b].eng.applied /\ cache'[b].eng.applied <= target[b]
           /\ pc'[b] = "serve" =>
                \A i \in Ids : i <= target[b] /\ log[i].own \in View(b) => i \in cache'[b].eng.rows
<1>1. PICK c : c = cache[b]
  OBVIOUS
<1>2. /\ TxInv /\ Types /\ LocksHeld /\ CachesInv
      /\ cache \in [Backends -> CacheType] /\ c \in CacheType /\ pc \in [Backends -> PcType]
      /\ target[b] \in Nat /\ Len(log) \in Nat
  BY <1>1, BoundsAssumption DEF IInv, Types, DbTypes, LockTypes
<1>3. PICK B : B = CapturedBatch(c.eng.applied, target[b], View(b))
  OBVIOUS
<1>4. /\ pc[b] = "applyFenced" /\ target' = target
      /\ B = {} => pc' = [pc EXCEPT ![b] = "serve"] /\ cache' = cache
      /\ B # {} => /\ pc' = [pc EXCEPT ![b] = "apply"]
                   /\ cache' = [cache EXCEPT ![b] = Install(c, xid[b],
                                [c.eng EXCEPT !.applied = Max(B), !.rows = c.eng.rows \cup B])]
  BY <1>1, <1>3 DEF ApplyBatch
<1>5. /\ View(b) = StatementView(b) /\ EngineGood(b, c) /\ Covering(b)
      /\ c.eng \in EngineType /\ c.eng.applied \in Nat
  BY <1>1, <1>2, <1>4, Sees, BoundsAssumption DEF LocksHeld, CachesInv, CacheStatus, CacheType, EngineType
<1>6. CASE B = {}
  <2> SUFFICES ASSUME NEW i \in Ids, i <= target[b], log[i].own \in View(b)
               PROVE  i \in c.eng.rows
    BY <1>1, <1>2, <1>4, <1>6
  <2>1. i \in Nat /\ i >= 1
    BY <1>2 DEF Ids
  <2>2. CASE i <= c.eng.applied
    <3>1. i \in 1..c.eng.applied
      BY <1>5, <2>1, <2>2
    <3>2. QED
      BY <1>5, <3>1 DEF EngineGood, EngineComplete
  <2>3. CASE i > c.eng.applied /\ log[i].del \in View(b)
    <3>1. log[i].del \in LiveXids
      BY <1>2, <1>5, <2>3, ViewBounds
    <3>2. QED
      BY <1>1, <1>5, <3>1 DEF Covering
  <2>4. CASE i > c.eng.applied /\ log[i].del \notin View(b)
    <3>1. i \in Unapplied(c.eng.applied, target[b], View(b))
      BY <2>4 DEF Unapplied, RowVisible
    <3>2. QED
      BY <1>2, <1>3, <1>6, <3>1, EmptyBatch
  <2>5. QED
    BY <1>5, <2>1, <2>2, <2>3, <2>4
<1>7. CASE B # {}
  <2>1. Max(B) \in B /\ \A i \in B : i > c.eng.applied
    BY <1>2, <1>3, <1>5, <1>7, BatchFacts
  <2>2. Max(B) <= target[b] /\ Max(B) > c.eng.applied
    BY <1>3, <2>1 DEF CapturedBatch, Unapplied
  <2>3. cache'[b].eng.applied = Max(B)
    <3>1. PICK e : e = [c.eng EXCEPT !.applied = Max(B), !.rows = c.eng.rows \cup B]
      OBVIOUS
    <3>2. e.applied = Max(B)
      BY <1>5, <3>1 DEF EngineType
    <3>3. Install(c, xid[b], e).eng = e
      BY <1>2, <3>1 DEF Install, Replay, MarkBackendReplay, PrepareBackendReplay, CacheType
    <3>4. QED
      BY <1>2, <1>4, <1>7, <3>1, <3>2, <3>3
  <2>4. pc'[b] = "apply" /\ target'[b] = target[b]
    BY <1>2, <1>4, <1>7
  <2>5. c.eng.applied < Max(B)
    BY <1>3, <1>5, <2>1, <2>2 DEF CapturedBatch, Unapplied, Ids
  <2>6. QED
    BY <1>1, <2>2, <2>3, <2>4, <2>5
<1>8. QED
  BY <1>6, <1>7

\* The loop of apply_sync is bounded by the target that it read once: every batch
\* takes the watermark towards it, none beyond, however many rows other backends
\* append meanwhile, and it stops when the engine has all that it set out for.
THEOREM ReplayBounded == Spec => ReplayReachesTarget
<1>1. ASSUME IInv, [Next]_vars
      PROVE  \A b \in Readers : pc[b] = "applyFenced" =>
          /\ pc'[b] = "apply" =>
                /\ target'[b] = target[b]
                /\ cache[b].eng.applied < cache'[b].eng.applied /\ cache'[b].eng.applied <= target[b]
          /\ pc'[b] = "serve" =>
                \A i \in Ids : i <= target[b] /\ log[i].own \in View(b) => i \in cache'[b].eng.rows
  <2> SUFFICES ASSUME NEW b \in Readers, pc[b] = "applyFenced", pc'[b] \in {"apply", "serve"}
               PROVE  ApplyBatch(b) /\ b \in Backends
    BY <1>1, BatchReaches
  <2>1. QED
    BY <1>1, OnlyBatch, BoundsAssumption
<1>2. QED
  BY <1>1, IInvAlways, PTL DEF Spec, ReplayReachesTarget

\* What execute_build_inner and the ingest publish is complete up to its watermark
\* and holds committed changes only: loading it equals replaying up to there.
THEOREM GenerationsComplete == Spec => []PublishedComplete
<1>1. IInv => PublishedComplete
  <2> SUFFICES ASSUME IInv, NEW k \in 1..Len(heads), heads[k].xid \in CommittedXids
               PROVE  /\ \A i \in heads[k].rows : log[i].own \in CommittedXids
                      /\ \A i \in 1..heads[k].wm : log[i].own \in CommittedXids => i \in heads[k].rows
    BY DEF PublishedComplete
  <2>1. HeadComplete(k)
    BY DEF IInv, HeadsInv, HeadsComplete, HeadIds, LiveHead, LiveXids
  <2>2. QED
    BY <2>1 DEF HeadComplete
<1>2. QED
  BY <1>1, IInvAlways, PTL

\* publication::publish under the build lock loses no other publisher's changes,
\* and generation ids grow although unused candidates are used again.
THEOREM GenerationsGrow == Spec => []HeadsGrow
<1>1. IInv => HeadsGrow
  <2> SUFFICES ASSUME IInv, NEW j \in 1..Len(heads), NEW k \in 1..Len(heads), j < k,
                      heads[j].xid \in CommittedXids, heads[k].xid \in CommittedXids
               PROVE  heads[j].rows \subseteq heads[k].rows /\ heads[j].gen < heads[k].gen
    BY DEF HeadsGrow
  <2>1. LiveHead(j) /\ LiveHead(k)
    BY DEF LiveHead, LiveXids
  <2>2. Grown(j, k)
    BY DEF IInv, HeadsInv, HeadsChain, HeadIds
  <2>3. QED
    BY <2>1, <2>2 DEF Grown
<1>2. QED
  BY <1>1, IInvAlways, PTL

\* A change that some generation a view sees holds is in the one it sees published.
LEMMA KeptPublished ==
    ASSUME IInv, NEW v \in SUBSET LiveXids, NEW i, Kept(i, v)
    PROVE  i \in Published(v).rows
<1>1. PICK k \in HeadIds : heads[k].xid \in v /\ i \in heads[k].rows
  BY DEF Kept
<1>2. VisibleHeads(v) # {}
  BY <1>1 DEF VisibleHeads, HeadIds
<1>3. PICK m \in HeadIds : /\ Published(v) = heads[m]
                           /\ \A j \in HeadIds : heads[j].xid \in v => heads[j].rows \subseteq heads[m].rows
  BY <1>2, PublishedIs
<1>4. QED
  BY <1>1, <1>3

\* prune_sync_log_if_safe asks historical_generations_required for the removal
\* horizon, and so takes only rows that every live and every later snapshot finds
\* in the generation it sees published.
THEOREM PruningCovered == Spec => []PrunedRowsCovered
<1>1. IInv => PrunedRowsCovered
  <2> SUFFICES ASSUME IInv, NEW i \in Ids, log[i].del \in CommittedXids
               PROVE  /\ i \in Published(CommittedXids).rows
                      /\ \A b \in Backends : snap[b].xmin # 0 => i \in Published(View(b)).rows
    BY DEF PrunedRowsCovered
  <2>1. TxInv /\ PrunedKept /\ log[i].del \in LiveXids /\ CommittedXids \in SUBSET LiveXids
    BY DEF IInv, HeadsInv, LiveXids
  <2>2. Kept(i, CommittedXids) /\ \A b \in Backends : Kept(i, StatementView(b))
    BY <2>1 DEF PrunedKept
  <2>3. i \in Published(CommittedXids).rows
    BY <2>1, <2>2, KeptPublished
  <2>4. ASSUME NEW b \in Backends, snap[b].xmin # 0 PROVE i \in Published(View(b)).rows
    <3>1. View(b) = StatementView(b) /\ View(b) \in SUBSET LiveXids
      BY <2>1, <2>4, Sees, ViewBounds
    <3>2. QED
      BY <2>2, <3>1, KeptPublished
  <2>5. QED
    BY <2>3, <2>4
<1>2. QED
  BY <1>1, IInvAlways, PTL
================================================================================
