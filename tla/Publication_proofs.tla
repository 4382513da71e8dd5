-------------------------- MODULE Publication_proofs --------------------------
(***************************************************************************)
(* Proofs about publication, for every set of backends, every bound and    *)
(* every retention floor: no committed publication is lost, the files of   *)
(* an interrupted attempt never stand in the way of the next one, and,     *)
(* without a publisher under REPEATABLE READ, what is published and what   *)
(* an older snapshot sees keep their files.                                *)
(*                                                                         *)
(* All rest on the build lock, which a transaction keeps to its end: the   *)
(* head versions of running transactions all belong to the one that holds  *)
(* it, and so do the replacement under way and the files it creates.       *)
(***************************************************************************)
EXTENDS Publication, SetLemmas

HeadType == [gen : 0..MaxAttempts, by : 0..MaxAttempts, xid : Xids, expected : 0..MaxAttempts]
JobType  == [step : {"none", "planned", "written", "staged", "switched", "published"},
             kind : {"none", "ingest", "compact", "rebuild"}, gen : 0..MaxAttempts,
             by : 0..MaxAttempts, expected : 0..MaxAttempts, manifest : ManifestType]

\* TypeOK with the domains that TLC never needs to be told.
TxTypes ==
    /\ xact \in Seq({"running", "committed", "aborted"}) /\ Len(xact) <= MaxXid
    /\ iso \in [Backends -> {"none", "rc", "rr"}]
    /\ xid \in [Backends -> Xids \cup {NoXid}]
    /\ snap \in [Backends -> [xmin : 0..(MaxXid + 1), vis : SUBSET Xids]]
FileTypes ==
    /\ manifests \in [Generations -> ManifestType]
    /\ artifacts \in [Generations -> 0..MaxAttempts]
    /\ pointer \in [gen : 0..MaxAttempts, by : 0..MaxAttempts]
BackendTypes ==
    /\ buildLock \in Backends \cup {NoBackend}
    /\ marker \in [Backends -> {NoMarker} \cup [expected : 0..MaxAttempts, candidate : Generations]]
    /\ job \in [Backends -> JobType]
    /\ attempts \in 0..MaxAttempts
Types == TxTypes /\ FileTypes /\ BackendTypes /\ heads \in Seq(HeadType)

\* A file has an id that some attempt was given, and attempts bounds the ids:
\* the next id always exists.
FilesBounded ==
    \A g \in Generations : g \in Manifested \/ artifacts[g] # 0 => g <= attempts

\* Whoever runs a replacement holds the build lock, under READ COMMITTED, and
\* its candidate has an id of its own.
JobsLocked ==
    \A b \in Backends : job[b].step # "none" =>
        buildLock = b /\ iso[b] = "rc" /\ job[b].gen \in 1..attempts

\* An assigned xid is running and belongs to one backend.
XidsOwned ==
    /\ \A b \in Backends : xid[b] # NoXid => xid[b] \in 1..Len(xact) /\ xact[xid[b]] = "running"
    /\ \A b, c \in Backends : xid[b] # NoXid /\ xid[b] = xid[c] => b = c

\* Every version of the head row that is not decided yet was written by the
\* transaction that holds the build lock.
HeadsOwned ==
    \A k \in 1..Len(heads) :
        /\ heads[k].xid \in 1..Len(xact)
        /\ xact[heads[k].xid] = "running" => buildLock \in Backends /\ xid[buildLock] = heads[k].xid

\* The versions that are committed, and those that are not aborted.
CommittedHeads == {k \in 1..Len(heads) : heads[k].xid \in CommittedXids}
LiveHeads == {k \in 1..Len(heads) : heads[k].xid \in CommittedXids \cup RunningXids}

Latest(h, C) == IF C = {} THEN 0 ELSE h[Max(C)].gen
Chain(h, C) == \A k \in C : h[k].expected = Latest(h, {j \in C : j < k})

\* Until its head row is written, a replacement derives from the last version
\* that is not aborted.
JobsCurrent ==
    \A b \in Backends : job[b].step \in {"planned", "written", "staged", "switched"} =>
        job[b].expected = Latest(heads, LiveHeads)

Files == FilesBounded /\ JobsLocked /\ CandidateUnreserved
Rows  == XidsOwned /\ HeadsOwned /\ JobsCurrent /\ Chain(heads, CommittedHeads) /\ Chain(heads, LiveHeads)
IInv  == Types /\ Files /\ Rows

\* publication::current returns a version of the head row, or none.
LEMMA PublishedType ==
    ASSUME Types, NEW view
    PROVE  LET C == {k \in 1..Len(heads) : heads[k].xid \in view} IN
           /\ Published(view).gen \in 0..MaxAttempts
           /\ Published(view).by \in 0..MaxAttempts
           /\ Published(view).gen = Latest(heads, C)
<1> DEFINE C == {k \in 1..Len(heads) : heads[k].xid \in view}
<1>1. Len(heads) \in Nat /\ C \in SUBSET (1..Len(heads)) /\ MaxAttempts \in Nat
  BY PublicationAssumption DEF Types, TxTypes, FileTypes, BackendTypes
<1>2. CASE C = {}
  <2>1. Published(view) = NoHead /\ Latest(heads, C) = 0
    BY <1>2 DEF Published, Latest
  <2>2. QED
    BY <1>1, <2>1 DEF NoHead
<1>3. CASE C # {}
  <2>1. Max(C) \in 1..Len(heads)
    BY <1>1, <1>3, IndexMax
  <2>2. heads[Max(C)] \in HeadType
    BY <2>1 DEF Types, TxTypes, FileTypes, BackendTypes
  <2>3. Published(view) = heads[Max(C)] /\ Latest(heads, C) = heads[Max(C)].gen
    BY <1>3 DEF Published, Latest
  <2>4. QED
    BY <2>2, <2>3 DEF HeadType
<1>4. QED
  BY <1>2, <1>3

\* Whoever can have the build lock sees, of the rows that are not aborted, all:
\* nobody else has written one.
LEMMA LockedView ==
    ASSUME Types, XidsOwned, HeadsOwned, NEW b \in Backends, LockAvailable(b)
    PROVE  /\ {k \in 1..Len(heads) : heads[k].xid \in CommittedXids \cup {xid[b]}} = LiveHeads
           /\ iso[b] # "rr" =>
                /\ Published(StatementView(b)).gen = Latest(heads, LiveHeads)
                /\ Published(View(b)) = Published(StatementView(b))
                /\ LiveHeads # {} => Published(View(b)) = heads[Max(LiveHeads)]
<1>1. \A k \in 1..Len(heads) : heads[k].xid \in Xids /\ heads[k].xid # NoXid
  <2>1. \A k \in 1..Len(heads) : heads[k] \in HeadType
    BY DEF Types, TxTypes, FileTypes, BackendTypes
  <2>2. QED
    BY <2>1, BackendsAssumption DEF HeadType, Xids, NoXid
<1>2. \A k \in 1..Len(heads) : heads[k].xid \in RunningXids => heads[k].xid = xid[b]
  BY BackendsAssumption DEF HeadsOwned, RunningXids, LockAvailable
<1>3. \A k \in 1..Len(heads) : heads[k].xid = xid[b] => heads[k].xid \in RunningXids
  BY <1>1 DEF XidsOwned, RunningXids
<1>4. {k \in 1..Len(heads) : heads[k].xid \in CommittedXids \cup {xid[b]}} = LiveHeads
  BY <1>2, <1>3 DEF LiveHeads
<1>5. {k \in 1..Len(heads) : heads[k].xid \in CommittedXids \cup ({xid[b]} \ {NoXid})} = LiveHeads
  BY <1>1, <1>4
<1>6. ASSUME iso[b] # "rr"
      PROVE  View(b) = StatementView(b) /\ View(b) = CommittedXids \cup ({xid[b]} \ {NoXid})
  BY <1>6 DEF View, StatementView
<1>7. ASSUME iso[b] # "rr", LiveHeads # {} PROVE Published(View(b)) = heads[Max(LiveHeads)]
  BY <1>5, <1>6, <1>7 DEF Published
<1>8. QED
  BY <1>4, <1>5, <1>6, <1>7, PublishedType

\* next_rebuild_generation_id is a fresh id, and one that exists while another
\* attempt is allowed.
LEMMA NextGenerationFresh ==
    ASSUME Types, FilesBounded
    PROVE  /\ NextGeneration \in 1..(attempts + 1)
           /\ NextGeneration \in Generations =>
                NextGeneration \notin Manifested /\ artifacts[NextGeneration] = 0
<1> DEFINE R == {0} \cup Manifested \cup {g \in Generations : artifacts[g] # 0}
<1>1. MaxAttempts \in Nat /\ attempts \in Nat
  BY PublicationAssumption DEF Types, TxTypes, FileTypes, BackendTypes
<1>2. R \in SUBSET (0..attempts)
  BY <1>1 DEF FilesBounded, Generations, Manifested
<1>3. IsFiniteSet(R) /\ R \in SUBSET Int
  <2>1. IsFiniteSet(0..attempts)
    BY <1>1, FS_Interval
  <2>2. IsFiniteSet(R)
    BY <1>2, <2>1, FS_Subset
  <2>3. QED
    BY <1>1, <1>2, <2>2
<1>4. Max(R) \in R /\ \A y \in R : Max(R) >= y
  BY <1>3, MaxProperty
<1>5. NextGeneration = 1 + Max(R)
  BY DEF NextGeneration
<1>6. Max(R) \in 0..attempts
  BY <1>2, <1>4
<1> HIDE DEF R
<1>7. NextGeneration \in 1..(attempts + 1) /\ NextGeneration \notin R
  BY <1>1, <1>4, <1>5, <1>6
<1>8. QED
  BY <1>7 DEF R

\* The manifest of a candidate references its own artifact and files that the
\* generation it derives from references.
LEMMA CandidateManifestType ==
    ASSUME Types, NEW kind \in {"ingest", "compact", "rebuild"}, NEW head,
           head.gen \in 0..MaxAttempts, NEW gen \in Generations, NEW by \in 1..MaxAttempts
    PROVE  CandidateManifest(kind, head, gen, by) \in ManifestType
<1> DEFINE old  == IF head.gen \in Manifested THEN manifests[head.gen] ELSE NoManifest
           base == {r \in old.refs : \A q \in old.refs : r.gen <= q.gen}
           keep == [ingest |-> old.refs, compact |-> base, rebuild |-> {}][kind]
           refs == keep \cup {[gen |-> gen, by |-> by]}
           superseded == old.obsolete \cup Paths(old.refs \ keep)
<1>1. MaxAttempts \in Nat
  BY PublicationAssumption
<1>2. old \in ManifestType
  BY <1>1 DEF Types, TxTypes, FileTypes, BackendTypes, ManifestType, NoManifest, Manifested
<1>3. old.refs \subseteq [gen : Generations, by : 1..MaxAttempts] /\ old.obsolete \subseteq Generations
  BY <1>2 DEF ManifestType
<1> HIDE DEF old
<1>4. keep \subseteq old.refs
  OBVIOUS
<1> HIDE DEF keep
<1>5. refs \subseteq [gen : Generations, by : 1..MaxAttempts]
  BY <1>3, <1>4
<1>6. superseded \subseteq Generations
  BY <1>3 DEF Paths
<1>7. by \in 0..MaxAttempts
  BY <1>1
<1>8. CandidateManifest(kind, head, gen, by) =
        [by |-> by, refs |-> refs, obsolete |-> superseded, prev |-> head.gen]
  BY DEF CandidateManifest, keep, old
<1> HIDE DEF refs, superseded
<1>9. QED
  BY <1>5, <1>6, <1>7, <1>8 DEF ManifestType

\* A snapshot that is registered names xids that were assigned.
LEMMA SnapshotType ==
    ASSUME Types
    PROVE  /\ Min(RunningXids \cup {NextXid}) \in 1..(MaxXid + 1)
           /\ CommittedXids \in SUBSET Xids
           /\ \A b \in Backends : StatementSnapshot(b) \in [xmin : 0..(MaxXid + 1), vis : SUBSET Xids]
<1> DEFINE R == RunningXids \cup {NextXid}
<1>1. MaxXid \in Nat /\ Len(xact) \in Nat /\ Len(xact) <= MaxXid
  BY BackendsAssumption DEF Types, TxTypes, FileTypes, BackendTypes
<1>2. R \in SUBSET (1..(MaxXid + 1)) /\ R # {}
  BY <1>1 DEF RunningXids, NextXid
<1>3. IsFiniteSet(1..(MaxXid + 1))
  BY <1>1, FS_Interval
<1>4. IsFiniteSet(R)
  BY <1>2, <1>3, FS_Subset
<1>5. R \in SUBSET Int
  BY <1>1, <1>2
<1>6. Min(R) \in R
  BY <1>2, <1>4, <1>5, MinProperty
<1>7. CommittedXids \in SUBSET Xids
  BY <1>1 DEF CommittedXids, Xids
<1>8. Min(R) \in 1..(MaxXid + 1) /\ Min(R) \in 0..(MaxXid + 1)
  BY <1>1, <1>2, <1>6
<1> HIDE DEF R
<1>9. ASSUME NEW b \in Backends
      PROVE  StatementSnapshot(b) \in [xmin : 0..(MaxXid + 1), vis : SUBSET Xids]
  <2>1. CASE snap[b].xmin # 0
    BY <2>1 DEF Types, TxTypes, FileTypes, BackendTypes, StatementSnapshot
  <2>2. CASE snap[b].xmin = 0
    <3>1. StatementSnapshot(b) = [xmin |-> Min(R), vis |-> IF iso[b] = "rr" THEN CommittedXids ELSE {}]
      BY <2>2 DEF StatementSnapshot, R
    <3>2. QED
      BY <1>7, <1>8, <3>1
  <2>3. QED
    BY <2>1, <2>2
<1>10. QED
  BY <1>7, <1>8, <1>9 DEF R

\* The empty database with an empty store satisfies the inductive invariant.
LEMMA InitInv == Init => IInv
<1> SUFFICES ASSUME Init PROVE IInv
  OBVIOUS
<1>1. MaxXid \in Nat /\ MaxAttempts \in Nat
  BY BackendsAssumption, PublicationAssumption
<1>2. NoManifest \in ManifestType
  BY <1>1 DEF NoManifest, ManifestType
<1>3. NoJob \in JobType
  BY <1>1, <1>2 DEF NoJob, JobType
<1>4. NoSnapshot \in [xmin : 0..(MaxXid + 1), vis : SUBSET Xids]
  BY <1>1 DEF NoSnapshot
<1>5. heads = << >> /\ Len(heads) = 0 /\ xact = << >> /\ Len(xact) = 0
  BY DEF Init, TxInit
<1>6. Types
  BY <1>1, <1>2, <1>3, <1>4, <1>5 DEF Init, TxInit, Types, TxTypes, FileTypes, BackendTypes, NoXid
<1>7. Files
  BY DEF Init, Files, FilesBounded, JobsLocked, CandidateUnreserved, Manifested, NoJob
<1>8. LiveHeads = {} /\ CommittedHeads = {}
  BY <1>5 DEF LiveHeads, CommittedHeads
<1>9. Rows
  BY <1>5, <1>8 DEF Init, TxInit, Rows, XidsOwned, HeadsOwned, JobsCurrent, Chain, NoJob
<1>10. QED
  BY <1>6, <1>7, <1>9 DEF IInv

----------------------------------------------------------------------------
\* A transaction that ends decides its own head versions and no others: the
\* versions of the holder of the build lock become committed or go, and nobody
\* else has any.
LEMMA EndDecides ==
    ASSUME IInv, NEW b \in Backends, NEW outcome \in {"commit", "abort"},
           EndTransaction(b, outcome), heads' = heads
    PROVE  /\ XidsOwned' /\ HeadsOwned'
           /\ \/ CommittedHeads' = CommittedHeads /\ LiveHeads' = LiveHeads
              \/ /\ buildLock = b /\ outcome = "commit"
                 /\ CommittedHeads' = LiveHeads /\ LiveHeads' = LiveHeads
              \/ /\ buildLock = b /\ outcome = "abort"
                 /\ CommittedHeads' = CommittedHeads /\ LiveHeads' = CommittedHeads
<1> DEFINE X == xid[b]
           final == IF outcome = "commit" THEN "committed" ELSE "aborted"
<1>1. /\ xact' = IF X = NoXid THEN xact ELSE [xact EXCEPT ![X] = final]
      /\ xid' = [xid EXCEPT ![b] = NoXid]
      /\ buildLock' = IF buildLock = b THEN NoBackend ELSE buildLock
  BY DEF EndTransaction, FinishXact, ReleaseLock
<1>2. TxTypes /\ XidsOwned /\ HeadsOwned
  BY DEF IInv, Types, Rows
<1>3. X = NoXid \/ (X \in 1..Len(xact) /\ xact[X] = "running")
  BY <1>2 DEF XidsOwned
<1>4. /\ Len(xact') = Len(xact)
      /\ \A x \in 1..Len(xact) : x # X => xact'[x] = xact[x]
      /\ X # NoXid => xact'[X] = final
  BY <1>1, <1>2, <1>3 DEF TxTypes
<1>5. XidsOwned'
  <2>1. ASSUME NEW c \in Backends, xid'[c] # NoXid
        PROVE  c # b /\ xid'[c] = xid[c] /\ xid[c] # X
    BY <1>1, <1>2, <2>1 DEF XidsOwned, TxTypes
  <2>2. QED
    BY <1>2, <1>4, <2>1 DEF XidsOwned
<1>6. \A k \in 1..Len(heads) : heads[k].xid \in 1..Len(xact) /\ heads[k].xid # NoXid
  BY <1>2 DEF HeadsOwned, NoXid, TxTypes
<1>7. HeadsOwned'
  <2> SUFFICES ASSUME NEW k \in 1..Len(heads), xact'[heads[k].xid] = "running"
               PROVE  buildLock' \in Backends /\ xid'[buildLock'] = heads[k].xid
    BY <1>4, <1>6 DEF HeadsOwned
  <2>1. heads[k].xid # X
    BY <1>4, <1>6
  <2>2. xact[heads[k].xid] = "running"
    BY <1>4, <1>6, <2>1
  <2>3. buildLock \in Backends /\ xid[buildLock] = heads[k].xid
    BY <1>2, <2>2 DEF HeadsOwned
  <2>4. buildLock # b
    BY <2>1, <2>3
  <2>5. QED
    BY <1>1, <1>2, <2>3, <2>4 DEF TxTypes
<1>8. CASE X # NoXid /\ buildLock = b
  <2>1. \A k \in 1..Len(heads) : xact[heads[k].xid] = "running" => heads[k].xid = X
    BY <1>2, <1>8 DEF HeadsOwned
  <2>2. outcome = "commit" => CommittedHeads' = LiveHeads /\ LiveHeads' = LiveHeads
    BY <1>3, <1>4, <1>6, <1>8, <2>1 DEF CommittedHeads, LiveHeads, CommittedXids, RunningXids
  <2>3. outcome = "abort" => CommittedHeads' = CommittedHeads /\ LiveHeads' = CommittedHeads
    BY <1>3, <1>4, <1>6, <1>8, <2>1 DEF CommittedHeads, LiveHeads, CommittedXids, RunningXids
  <2>4. QED
    BY <1>5, <1>7, <1>8, <2>2, <2>3
<1>9. CASE X = NoXid \/ buildLock # b
  <2>1. \A k \in 1..Len(heads) : heads[k].xid # X
    <3>1. CASE X = NoXid
      BY <1>6, <3>1
    <3>2. CASE X # NoXid
      BY <1>2, <1>3, <1>9, <3>2 DEF HeadsOwned, XidsOwned
    <3>3. QED
      BY <3>1, <3>2
  <2>2. CommittedHeads' = CommittedHeads /\ LiveHeads' = LiveHeads
    BY <1>4, <1>6, <2>1 DEF CommittedHeads, LiveHeads, CommittedXids, RunningXids
  <2>3. QED
    BY <1>5, <1>7, <2>2
<1>10. QED
  BY <1>8, <1>9

\* The committed versions stay a chain, whether the transaction commits or
\* aborts.
LEMMA EndKeepsRows ==
    ASSUME IInv, NEW b \in Backends, NEW outcome \in {"commit", "abort"},
           EndTransaction(b, outcome), heads' = heads
    PROVE  Rows'
<1>1. Chain(heads, CommittedHeads)' /\ Chain(heads, LiveHeads)'
  BY EndDecides DEF IInv, Rows, Chain, Latest
<1>2. JobsCurrent'
  <2> SUFFICES ASSUME NEW c \in Backends,
                      job'[c].step \in {"planned", "written", "staged", "switched"}
               PROVE  job'[c].expected = Latest(heads, LiveHeads)'
    BY DEF JobsCurrent
  <2>1. c # b /\ job'[c] = job[c]
    BY DEF EndTransaction, IInv, Types, BackendTypes, NoJob
  <2>2. buildLock # b
    BY <2>1 DEF IInv, Files, JobsLocked
  <2>3. LiveHeads' = LiveHeads
    BY <2>2, EndDecides
  <2>4. QED
    BY <2>1, <2>3 DEF IInv, Rows, JobsCurrent
<1>3. QED
  BY <1>1, <1>2, EndDecides DEF Rows

\* A statement that leaves the rows alone, and at most takes a free build lock.
LEMMA QuietKeepsRows ==
    ASSUME IInv, NEW b \in Backends, UNCHANGED <<xact, xid, heads>>,
           buildLock' = buildLock \/ (LockAvailable(b) /\ buildLock' = b)
    PROVE  /\ XidsOwned' /\ HeadsOwned'
           /\ Chain(heads, CommittedHeads)' /\ Chain(heads, LiveHeads)'
           /\ Latest(heads, LiveHeads)' = Latest(heads, LiveHeads)
<1>1. CommittedHeads' = CommittedHeads /\ LiveHeads' = LiveHeads
  BY DEF CommittedHeads, LiveHeads, CommittedXids, RunningXids
<1>2. Chain(heads, CommittedHeads)' /\ Chain(heads, LiveHeads)'
  BY <1>1 DEF IInv, Rows, Chain, Latest
<1>3. XidsOwned' /\ HeadsOwned'
  BY BackendsAssumption DEF IInv, Rows, XidsOwned, HeadsOwned, LockAvailable
<1>4. Latest(heads, LiveHeads)' = Latest(heads, LiveHeads)
  BY <1>1 DEF Latest
<1>5. QED
  BY <1>2, <1>3, <1>4

\* publication::publish and reset() append a version that replaces the last one
\* that is not aborted.
LEMMA AppendKeepsRows ==
    ASSUME IInv, NEW b \in Backends, LockAvailable(b), buildLock' = b, AssignXid(b),
           NEW row, row.xid = XidOf(b), row.expected = Latest(heads, LiveHeads),
           heads' = Append(heads, row)
    PROVE  /\ XidsOwned' /\ HeadsOwned'
           /\ CommittedHeads' = CommittedHeads
           /\ LiveHeads' = LiveHeads \cup {Len(heads) + 1}
           /\ Chain(heads, CommittedHeads)' /\ Chain(heads, LiveHeads)'
<1> DEFINE X == XidOf(b)
           n == Len(heads)
<1>1. /\ TxTypes /\ BackendTypes /\ heads \in Seq(HeadType) /\ n \in Nat
      /\ XidsOwned /\ HeadsOwned
  BY DEF IInv, Types, Files, Rows
<1>2. /\ xid' = [xid EXCEPT ![b] = X]
      /\ xact' = IF xid[b] # NoXid THEN xact ELSE Append(xact, "running")
      /\ X = IF xid[b] # NoXid THEN xid[b] ELSE Len(xact) + 1
  BY DEF AssignXid, XidOf, WithXid, NextXid
<1>3. /\ Len(xact) \in Nat /\ Len(xact') \in Nat /\ Len(xact') >= Len(xact)
      /\ \A x \in 1..Len(xact) : xact'[x] = xact[x]
      /\ X \in 1..Len(xact') /\ xact'[X] = "running"
      /\ xid[b] = NoXid => X = Len(xact) + 1
  BY <1>1, <1>2 DEF TxTypes, XidsOwned
<1>4. XidsOwned'
  <2>1. ASSUME NEW c \in Backends, c # b, xid[c] # NoXid PROVE xid[c] # X
    BY <1>1, <1>2, <1>3, <2>1 DEF XidsOwned
  <2>2. \A c \in Backends : xid'[c] # NoXid => xid'[c] \in 1..Len(xact') /\ xact'[xid'[c]] = "running"
    BY <1>1, <1>2, <1>3 DEF XidsOwned, TxTypes
  <2>3. \A c, d \in Backends : xid'[c] # NoXid /\ xid'[c] = xid'[d] => c = d
    BY <1>1, <1>2, <2>1 DEF XidsOwned, TxTypes
  <2>4. QED
    BY <2>2, <2>3 DEF XidsOwned
<1>5. /\ Len(heads') = n + 1
      /\ \A k \in 1..n : heads'[k] = heads[k]
      /\ heads'[n + 1] = row
  BY <1>1
<1>6. \A k \in 1..n : heads[k].xid \in 1..Len(xact)
  BY <1>1 DEF HeadsOwned
<1>7. HeadsOwned'
  <2>1. ASSUME NEW k \in 1..n, xact[heads[k].xid] = "running" PROVE heads[k].xid = xid[b]
    BY <1>1, <2>1, BackendsAssumption DEF HeadsOwned, LockAvailable
  <2>2. ASSUME NEW k \in 1..n, xact'[heads'[k].xid] = "running" PROVE heads'[k].xid = X
    BY <1>2, <1>3, <1>5, <1>6, <2>1, <2>2 DEF NoXid
  <2>3. \A k \in 1..(n + 1) : xact'[heads'[k].xid] = "running" => heads'[k].xid = X
    BY <1>1, <1>5, <2>2
  <2>4. \A k \in 1..(n + 1) : heads'[k].xid \in 1..Len(xact')
    BY <1>1, <1>3, <1>5, <1>6
  <2>5. xid'[buildLock'] = X
    BY <1>1, <1>2 DEF TxTypes
  <2>6. QED
    BY <1>5, <2>3, <2>4, <2>5 DEF HeadsOwned
<1>8. CommittedHeads' = CommittedHeads
  <2>1. \A k \in 1..n : heads'[k].xid \in CommittedXids' <=> heads[k].xid \in CommittedXids
    BY <1>3, <1>5, <1>6 DEF CommittedXids
  <2>2. heads'[n + 1].xid \notin CommittedXids'
    BY <1>3, <1>5 DEF CommittedXids
  <2>3. QED
    BY <1>1, <1>5, <2>1, <2>2 DEF CommittedHeads
<1>9. LiveHeads' = LiveHeads \cup {n + 1}
  <2>1. \A k \in 1..n : heads'[k].xid \in CommittedXids' \cup RunningXids' <=>
                        heads[k].xid \in CommittedXids \cup RunningXids
    BY <1>3, <1>5, <1>6 DEF CommittedXids, RunningXids
  <2>2. heads'[n + 1].xid \in RunningXids'
    BY <1>3, <1>5 DEF RunningXids
  <2>3. QED
    BY <1>1, <1>5, <2>1, <2>2 DEF LiveHeads
<1>10. ASSUME NEW C \in SUBSET (1..n) PROVE Latest(heads', C) = Latest(heads, C)
  <2>1. CASE C = {}
    BY <2>1 DEF Latest
  <2>2. CASE C # {}
    <3>1. Max(C) \in 1..n
      BY <1>1, <2>2, IndexMax
    <3>2. QED
      BY <1>5, <3>1 DEF Latest
  <2>3. QED
    BY <2>1, <2>2
<1>11. CommittedHeads \in SUBSET (1..n) /\ LiveHeads \in SUBSET (1..n)
  BY DEF CommittedHeads, LiveHeads
<1>12. ASSUME NEW C \in SUBSET (1..n), NEW k \in C, Chain(heads, C)
       PROVE  heads'[k].expected = Latest(heads', {j \in C : j < k})
  BY <1>5, <1>10, <1>12 DEF Chain
<1>13. Chain(heads', CommittedHeads)
  BY <1>11, <1>12 DEF IInv, Rows, Chain
<1>14. Chain(heads', LiveHeads \cup {n + 1})
  <2>1. ASSUME NEW k \in LiveHeads
        PROVE  heads'[k].expected = Latest(heads', {j \in LiveHeads \cup {n + 1} : j < k})
    <3>1. {j \in LiveHeads \cup {n + 1} : j < k} = {j \in LiveHeads : j < k}
      BY <1>1, <1>11
    <3>2. QED
      BY <1>11, <1>12, <3>1 DEF IInv, Rows
  <2>2. {j \in LiveHeads \cup {n + 1} : j < n + 1} = LiveHeads
    <3>1. \A j \in LiveHeads : j < n + 1
      BY <1>1, <1>11
    <3>2. ~(n + 1 < n + 1)
      BY <1>1
    <3>3. QED
      BY <3>1, <3>2
  <2>3. heads'[n + 1].expected = Latest(heads', LiveHeads)
    BY <1>5, <1>10, <1>11
  <2>4. QED
    BY <2>1, <2>2, <2>3 DEF Chain
<1>15. QED
  BY <1>4, <1>7, <1>8, <1>9, <1>13, <1>14

\* Cleanup, collection and failure only remove files, and end replacements
\* without starting any.
LEMMA RemovalKeepsFiles ==
    ASSUME IInv, attempts' = attempts,
           \A g \in Generations : /\ manifests'[g] \in {manifests[g], NoManifest}
                                  /\ artifacts'[g] \in {artifacts[g], 0},
           \A c \in Backends : job'[c] \in {job[c], NoJob}
    PROVE  FilesBounded' /\ CandidateUnreserved'
<1>1. Manifested' \subseteq Manifested
  BY DEF Manifested
<1>2. FilesBounded'
  BY <1>1 DEF IInv, Files, FilesBounded
<1>3. ASSUME NEW c \in Backends, job'[c].step \in {"planned", "written"}
      PROVE  /\ job'[c] = job[c] /\ job[c].gen \in Generations
  <2>1. job'[c] = job[c]
    BY <1>3 DEF NoJob
  <2>2. job[c].gen \in 1..attempts /\ attempts \in 0..MaxAttempts
    BY <1>3, <2>1 DEF IInv, Files, JobsLocked, Types, BackendTypes
  <2>3. QED
    BY <2>1, <2>2, PublicationAssumption DEF Generations
<1>4. CandidateUnreserved'
  BY <1>1, <1>3 DEF IInv, Files, CandidateUnreserved
<1>5. QED
  BY <1>2, <1>4

\* The types of what a transaction that ends changes.
LEMMA EndTypes ==
    ASSUME IInv, NEW b \in Backends, NEW outcome \in {"commit", "abort"},
           EndTransaction(b, outcome), attempts' = attempts
    PROVE  /\ TxTypes' /\ buildLock' \in Backends \cup {NoBackend} /\ job' \in [Backends -> JobType]
           /\ JobsLocked'
           /\ \A c \in Backends : job'[c] \in {job[c], NoJob}
<1>1. /\ xact' = IF xid[b] = NoXid THEN xact
                 ELSE [xact EXCEPT ![xid[b]] = IF outcome = "commit" THEN "committed" ELSE "aborted"]
      /\ iso' = [iso EXCEPT ![b] = "none"]
      /\ xid' = [xid EXCEPT ![b] = NoXid]
      /\ snap' = [snap EXCEPT ![b] = NoSnapshot]
      /\ job' = [job EXCEPT ![b] = NoJob]
      /\ buildLock' = IF buildLock = b THEN NoBackend ELSE buildLock
  BY DEF EndTransaction, FinishXact, ReleaseLock
<1>2. /\ TxTypes /\ BackendTypes /\ XidsOwned /\ JobsLocked
      /\ MaxXid \in Nat /\ MaxAttempts \in Nat
  BY BackendsAssumption, PublicationAssumption DEF IInv, Types, Files, Rows
<1>3. NoManifest \in ManifestType
  BY <1>2 DEF NoManifest, ManifestType
<1>4. NoJob \in JobType
  BY <1>2, <1>3 DEF NoJob, JobType
<1>5. xact' \in Seq({"running", "committed", "aborted"}) /\ Len(xact') = Len(xact)
  <2>1. xact \in Seq({"running", "committed", "aborted"})
    BY <1>2 DEF TxTypes
  <2>2. CASE xid[b] = NoXid
    BY <1>1, <2>1, <2>2
  <2>3. CASE xid[b] # NoXid
    <3>1. xid[b] \in 1..Len(xact)
      BY <1>2, <2>3 DEF XidsOwned
    <3>2. PICK final \in {"committed", "aborted"} : xact' = [xact EXCEPT ![xid[b]] = final]
      BY <1>1, <2>3
    <3>3. QED
      BY <2>1, <3>1, <3>2
  <2>4. QED
    BY <2>2, <2>3
<1>6. NoSnapshot \in [xmin : 0..(MaxXid + 1), vis : SUBSET Xids]
  BY <1>2 DEF NoSnapshot
<1>7. TxTypes'
  BY <1>1, <1>2, <1>5, <1>6 DEF TxTypes
<1>8. JobsLocked'
  BY <1>1, <1>2 DEF JobsLocked, BackendTypes, TxTypes, NoJob
<1>9. job' \in [Backends -> JobType] /\ \A c \in Backends : job'[c] \in {job[c], NoJob}
  BY <1>1, <1>2, <1>4 DEF BackendTypes
<1>10. buildLock' \in Backends \cup {NoBackend}
  BY <1>1, <1>2 DEF BackendTypes
<1>11. QED
  BY <1>7, <1>8, <1>9, <1>10

----------------------------------------------------------------------------
\* A step of a replacement that runs already: it holds the build lock, and the
\* other backends run none.
LEMMA RunningJob ==
    ASSUME IInv, NEW b \in Backends, job[b].step # "none"
    PROVE  /\ buildLock = b /\ LockAvailable(b) /\ iso[b] = "rc"
           /\ job[b] \in JobType /\ job[b].gen \in Generations /\ job[b].gen <= attempts
           /\ \A c \in Backends : c # b => job[c].step = "none"
<1>1. /\ buildLock = b /\ iso[b] = "rc" /\ job[b].gen \in 1..attempts
      /\ \A c \in Backends : c # b => job[c].step = "none"
  BY DEF IInv, Files, JobsLocked
<1>2. job[b] \in JobType /\ attempts \in 0..MaxAttempts
  BY DEF IInv, Types, BackendTypes
<1>3. QED
  BY <1>1, <1>2, PublicationAssumption DEF LockAvailable, Generations

\* begin, commit, rollback, exit.
LEMMA BeginKeeps ==
    ASSUME IInv, NEW b \in Backends, NEW level \in {"rc", "rr"}, Begin(b, level)
    PROVE  IInv'
<1>1. /\ Types /\ Files /\ Rows
      /\ MaxXid \in Nat
  BY BackendsAssumption DEF IInv
<1>2. snap' \in [Backends -> [xmin : 0..(MaxXid + 1), vis : SUBSET Xids]]
  <2>1. /\ Min(RunningXids \cup {NextXid}) \in 0..(MaxXid + 1)
        /\ CommittedXids \in SUBSET Xids
    BY <1>1, SnapshotType
  <2>2. [xmin |-> Min(RunningXids \cup {NextXid}), vis |-> CommittedXids]
           \in [xmin : 0..(MaxXid + 1), vis : SUBSET Xids]
    BY <2>1
  <2>3. NoSnapshot \in [xmin : 0..(MaxXid + 1), vis : SUBSET Xids]
    BY <1>1 DEF NoSnapshot
  <2>4. QED
    BY <1>1, <2>2, <2>3 DEF Begin, Types, TxTypes
<1>3. TxTypes'
  BY <1>1, <1>2 DEF Begin, Types, TxTypes, Xids
<1>4. FileTypes' /\ BackendTypes' /\ (heads \in Seq(HeadType))'
  BY <1>1 DEF Begin, Types, FileTypes, BackendTypes, fileVars
<1>5. JobsLocked'
  BY <1>1 DEF Begin, Files, JobsLocked, Types, TxTypes
<1>6. FilesBounded' /\ CandidateUnreserved'
  BY <1>1 DEF Begin, Files, FilesBounded, CandidateUnreserved, Manifested, fileVars
<1>7. Rows'
  <2>1. UNCHANGED <<xact, xid, heads>> /\ buildLock' = buildLock /\ job' = job
    BY DEF Begin
  <2>2. QED
    BY <1>1, <2>1, QuietKeepsRows DEF Rows, JobsCurrent
<1>8. QED
  BY <1>3, <1>4, <1>5, <1>6, <1>7 DEF IInv, Types, Files

\* COMMIT and ROLLBACK keep the inductive invariant.
LEMMA EndKeeps ==
    ASSUME IInv, NEW b \in Backends, NEW outcome \in {"commit", "abort"}, End(b, outcome)
    PROVE  IInv'
<1>1. EndTransaction(b, outcome) /\ UNCHANGED <<fileVars, heads, marker, attempts>>
  BY DEF End
<1>2. Rows'
  BY <1>1, EndKeepsRows
<1>3. TxTypes' /\ JobsLocked' /\ BackendTypes' /\ \A c \in Backends : job'[c] \in {job[c], NoJob}
  BY <1>1, EndTypes DEF IInv, Types, BackendTypes
<1>4. FilesBounded' /\ CandidateUnreserved'
  BY <1>1, <1>3, RemovalKeepsFiles DEF fileVars
<1>5. FileTypes' /\ (heads \in Seq(HeadType))'
  BY <1>1 DEF IInv, Types, FileTypes, fileVars
<1>6. QED
  BY <1>2, <1>3, <1>4, <1>5 DEF IInv, Types, Files

\* A backend that exits releases its locks and its transaction; the inductive invariant stays.
LEMMA ExitKeeps ==
    ASSUME IInv, NEW b \in Backends, Exit(b)
    PROVE  IInv'
<1>1. EndTransaction(b, "abort") /\ UNCHANGED <<fileVars, heads, attempts>>
  BY DEF Exit
<1>2. Rows'
  BY <1>1, EndKeepsRows
<1>3. marker' \in [Backends -> {NoMarker} \cup [expected : 0..MaxAttempts, candidate : Generations]]
  BY DEF Exit, IInv, Types, BackendTypes
<1>4. TxTypes' /\ JobsLocked' /\ BackendTypes' /\ \A c \in Backends : job'[c] \in {job[c], NoJob}
  BY <1>1, <1>3, EndTypes DEF IInv, Types, BackendTypes
<1>5. FilesBounded' /\ CandidateUnreserved'
  BY <1>1, <1>4, RemovalKeepsFiles DEF fileVars
<1>6. FileTypes' /\ (heads \in Seq(HeadType))'
  BY <1>1 DEF IInv, Types, FileTypes, fileVars
<1>7. QED
  BY <1>2, <1>4, <1>5, <1>6 DEF IInv, Types, Files

\* The steps of a replacement.
LEMMA PlanKeeps ==
    ASSUME IInv, NEW b \in Backends, NEW kind \in {"ingest", "compact", "rebuild"}, Plan(b, kind)
    PROVE  IInv'
<1> DEFINE head == Published(StatementView(b))
           new  == [step |-> "planned", kind |-> kind, gen |-> NextGeneration, by |-> attempts + 1,
                    expected |-> head.gen,
                    manifest |-> CandidateManifest(kind, head, NextGeneration, attempts + 1)]
           mark == [expected |-> head.gen, candidate |-> NextGeneration]
<1>1. /\ job[b] = NoJob /\ iso[b] = "rc" /\ LockAvailable(b) /\ attempts < MaxAttempts
      /\ attempts' = attempts + 1 /\ buildLock' = b
      /\ marker' = [marker EXCEPT ![b] = mark]
      /\ job' = [job EXCEPT ![b] = new]
      /\ snap' = [snap EXCEPT ![b] = StatementSnapshot(b)]
      /\ UNCHANGED <<xact, iso, xid, fileVars, heads>>
  BY DEF Plan, Idle, RegisterSnapshot
<1>2. /\ Types /\ Files /\ Rows /\ MaxAttempts \in Nat /\ attempts \in 0..MaxAttempts
  BY PublicationAssumption DEF IInv, Types, BackendTypes
<1>3. /\ NextGeneration \in 1..(attempts + 1) /\ NextGeneration \in Generations
      /\ NextGeneration \notin Manifested /\ artifacts[NextGeneration] = 0
  <2>1. NextGeneration \in 1..(attempts + 1)
    BY <1>2, NextGenerationFresh DEF Files
  <2>2. NextGeneration \in Generations
    BY <1>1, <1>2, <2>1 DEF Generations
  <2>3. QED
    BY <1>2, <2>1, <2>2, NextGenerationFresh DEF Files
<1>4. head.gen \in 0..MaxAttempts /\ head.gen = Latest(heads, LiveHeads)
  BY <1>1, <1>2, PublishedType, LockedView DEF Rows
<1>5. \A c \in Backends : job[c].step = "none"
  BY <1>1, <1>2, BackendsAssumption DEF Files, JobsLocked, LockAvailable, NoJob
<1>6. attempts + 1 \in 1..MaxAttempts /\ attempts + 1 \in 0..MaxAttempts /\ NextGeneration \in 0..MaxAttempts
  BY <1>1, <1>2, <1>3 DEF Generations
<1>7. CandidateManifest(kind, head, NextGeneration, attempts + 1) \in ManifestType
  BY <1>2, <1>3, <1>4, <1>6, CandidateManifestType
<1>8. mark \in [expected : 0..MaxAttempts, candidate : Generations]
  BY <1>3, <1>4
<1> HIDE DEF head
<1>9. /\ new \in JobType
      /\ new.step = "planned" /\ new.gen = NextGeneration /\ new.expected = head.gen
  BY <1>4, <1>6, <1>7 DEF JobType
<1> HIDE DEF new, mark
<1>10. \A c \in Backends : job'[c] = IF c = b THEN new ELSE job[c]
  BY <1>1, <1>2 DEF Types, BackendTypes
<1>11. Types'
  <2>1. StatementSnapshot(b) \in [xmin : 0..(MaxXid + 1), vis : SUBSET Xids]
    BY <1>2, SnapshotType
  <2>2. TxTypes'
    BY <1>1, <1>2, <2>1 DEF Types, TxTypes, Xids
  <2>3. BackendTypes'
    BY <1>1, <1>2, <1>6, <1>8, <1>9 DEF Types, BackendTypes, Generations
  <2>4. FileTypes' /\ (heads \in Seq(HeadType))'
    BY <1>1, <1>2 DEF Types, FileTypes, fileVars
  <2>5. QED
    BY <2>2, <2>3, <2>4 DEF Types
<1>12. Files'
  <2>1. FilesBounded'
    BY <1>1, <1>2 DEF Files, FilesBounded, Manifested, fileVars, Generations
  <2>2. JobsLocked'
    BY <1>1, <1>2, <1>3, <1>5, <1>9, <1>10 DEF JobsLocked
  <2>3. CandidateUnreserved'
    BY <1>1, <1>3, <1>5, <1>9, <1>10 DEF CandidateUnreserved, Manifested, fileVars
  <2>4. QED
    BY <2>1, <2>2, <2>3 DEF Files
<1>13. Rows'
  BY <1>1, <1>4, <1>5, <1>9, <1>10, QuietKeepsRows DEF Rows, JobsCurrent
<1>14. QED
  BY <1>11, <1>12, <1>13 DEF IInv

\* A step of a replacement that leaves the rows alone.
LEMMA AdvanceKeeps ==
    ASSUME IInv, NEW b \in Backends, NEW step \in {"written", "staged", "switched"},
           job[b].step \in {"planned", "written", "staged"}, Advance(b, step),
           UNCHANGED <<xact, txVars, heads, buildLock, marker, attempts>>
    PROVE  /\ TxTypes' /\ BackendTypes' /\ JobsLocked' /\ Rows' /\ (heads \in Seq(HeadType))'
           /\ \A c \in Backends : c # b => job'[c].step = "none"
           /\ job'[b].step = step /\ job'[b].gen = job[b].gen
<1>1. job \in [Backends -> JobType]
  BY DEF IInv, Types, BackendTypes
<1>2. /\ job'[b] = [job[b] EXCEPT !.step = step]
      /\ \A c \in Backends : c # b => job'[c] = job[c]
      /\ job' \in [Backends -> JobType]
  BY <1>1 DEF Advance, JobType
<1>3. /\ job'[b].step = step /\ job'[b].gen = job[b].gen /\ job'[b].expected = job[b].expected
  BY <1>1, <1>2 DEF JobType
<1>4. \A c \in Backends : c # b => job'[c].step = "none"
  BY <1>2, RunningJob
<1>5. TxTypes' /\ BackendTypes' /\ (heads \in Seq(HeadType))'
  BY <1>2 DEF IInv, Types, TxTypes, BackendTypes, txVars
<1>6. JobsLocked'
  BY <1>3, <1>4 DEF IInv, Files, JobsLocked, txVars
<1>7. Rows'
  BY <1>3, <1>4, QuietKeepsRows DEF IInv, Rows, JobsCurrent, txVars
<1>8. QED
  BY <1>3, <1>4, <1>5, <1>6, <1>7

\* Writing the artifacts of the candidate keeps the inductive invariant.
LEMMA WriteArtifactsKeeps ==
    ASSUME IInv, NEW b \in Backends, WriteArtifacts(b)
    PROVE  IInv'
<1>1. /\ job[b].step = "planned" /\ Advance(b, "written")
      /\ artifacts' = [artifacts EXCEPT ![job[b].gen] = job[b].by]
      /\ UNCHANGED <<xact, txVars, manifests, pointer, heads, buildLock, marker, attempts>>
  BY DEF WriteArtifacts
<1>2. /\ TxTypes' /\ BackendTypes' /\ JobsLocked' /\ Rows' /\ (heads \in Seq(HeadType))'
      /\ \A c \in Backends : c # b => job'[c].step = "none"
      /\ job'[b].step = "written" /\ job'[b].gen = job[b].gen
  BY <1>1, AdvanceKeeps
<1>3. job[b] \in JobType /\ job[b].gen \in Generations /\ job[b].gen <= attempts
  BY <1>1, RunningJob
<1>4. FileTypes'
  BY <1>1, <1>3 DEF IInv, Types, FileTypes, JobType
<1>5. FilesBounded'
  BY <1>1, <1>3 DEF IInv, Files, FilesBounded, Manifested, Types, FileTypes
<1>6. CandidateUnreserved'
  BY <1>1, <1>2 DEF IInv, Files, CandidateUnreserved, Manifested
<1>7. QED
  BY <1>2, <1>4, <1>5, <1>6 DEF IInv, Types, Files

\* Staging the manifest of the candidate keeps the inductive invariant.
LEMMA StageManifestKeeps ==
    ASSUME IInv, NEW b \in Backends, StageManifest(b)
    PROVE  IInv'
<1>1. /\ job[b].step = "written" /\ Advance(b, "staged")
      /\ manifests' = [manifests EXCEPT ![job[b].gen] = job[b].manifest]
      /\ UNCHANGED <<xact, txVars, artifacts, pointer, heads, buildLock, marker, attempts>>
  BY DEF StageManifest
<1>2. /\ TxTypes' /\ BackendTypes' /\ JobsLocked' /\ Rows' /\ (heads \in Seq(HeadType))'
      /\ \A c \in Backends : c # b => job'[c].step = "none"
      /\ job'[b].step = "staged" /\ job'[b].gen = job[b].gen
  BY <1>1, AdvanceKeeps
<1>3. job[b].manifest \in ManifestType /\ job[b].gen \in Generations /\ job[b].gen <= attempts
  BY <1>1, RunningJob DEF JobType
<1>4. FileTypes'
  BY <1>1, <1>3 DEF IInv, Types, FileTypes
<1>5. FilesBounded'
  BY <1>1, <1>3 DEF IInv, Files, FilesBounded, Manifested, Types, FileTypes
<1>6. CandidateUnreserved'
  BY <1>2 DEF CandidateUnreserved
<1>7. QED
  BY <1>2, <1>4, <1>5, <1>6 DEF IInv, Types, Files

\* Switching the pointer file keeps the inductive invariant.
LEMMA SwitchPointerKeeps ==
    ASSUME IInv, NEW b \in Backends, SwitchPointer(b)
    PROVE  IInv'
<1>1. /\ job[b].step = "staged" /\ Advance(b, "switched")
      /\ pointer' = [gen |-> job[b].gen, by |-> job[b].by]
      /\ UNCHANGED <<xact, txVars, manifests, artifacts, heads, buildLock, marker, attempts>>
  BY DEF SwitchPointer
<1>2. /\ TxTypes' /\ BackendTypes' /\ JobsLocked' /\ Rows' /\ (heads \in Seq(HeadType))'
      /\ \A c \in Backends : c # b => job'[c].step = "none"
      /\ job'[b].step = "switched"
  BY <1>1, AdvanceKeeps
<1>3. job[b] \in JobType
  BY <1>1, RunningJob
<1>4. FileTypes'
  BY <1>1, <1>3 DEF IInv, Types, FileTypes, JobType
<1>5. FilesBounded'
  BY <1>1 DEF IInv, Files, FilesBounded, Manifested
<1>6. CandidateUnreserved'
  BY <1>2 DEF CandidateUnreserved
<1>7. QED
  BY <1>2, <1>4, <1>5, <1>6 DEF IInv, Types, Files

\* The types of a row written in b's transaction, which may be its first write.
LEMMA AppendTypes ==
    ASSUME IInv, NEW b \in Backends, AssignXid(b), UNCHANGED <<iso, snap>>,
           NEW gen \in 0..MaxAttempts, NEW by \in 0..MaxAttempts, NEW expected \in 0..MaxAttempts,
           heads' = Append(heads, [gen |-> gen, by |-> by, xid |-> XidOf(b), expected |-> expected])
    PROVE  TxTypes' /\ (heads \in Seq(HeadType))'
<1>1. /\ TxTypes /\ heads \in Seq(HeadType) /\ MaxXid \in Nat /\ Len(xact) \in Nat
  BY BackendsAssumption DEF IInv, Types, TxTypes
<1>2. /\ xid' = [xid EXCEPT ![b] = XidOf(b)]
      /\ xact' = IF xid[b] # NoXid THEN xact ELSE Append(xact, "running")
      /\ XidOf(b) = IF xid[b] # NoXid THEN xid[b] ELSE Len(xact) + 1
      /\ xid[b] # NoXid \/ Len(xact) < MaxXid
  BY DEF AssignXid, XidOf, WithXid, NextXid, CanAssignXid
<1>3. XidOf(b) \in Xids
  BY <1>1, <1>2 DEF TxTypes, Xids
<1>4. xact' \in Seq({"running", "committed", "aborted"}) /\ Len(xact') <= MaxXid
  BY <1>1, <1>2 DEF TxTypes
<1>5. TxTypes'
  BY <1>1, <1>2, <1>3, <1>4 DEF TxTypes, Xids
<1>6. [gen |-> gen, by |-> by, xid |-> XidOf(b), expected |-> expected] \in HeadType
  BY <1>3 DEF HeadType
<1>7. QED
  BY <1>1, <1>5, <1>6

\* Writing the head row appends to the chain of heads and keeps the inductive invariant.
LEMMA WriteHeadKeeps ==
    ASSUME IInv, NEW b \in Backends, WriteHead(b)
    PROVE  IInv'
<1> DEFINE row == [gen |-> job[b].gen, by |-> job[b].by, xid |-> XidOf(b), expected |-> job[b].expected]
<1>1. /\ job[b].step = "switched" /\ AssignXid(b) /\ heads' = Append(heads, row)
      /\ job' = [job EXCEPT ![b].step = "published"]
      /\ UNCHANGED <<iso, snap, fileVars, buildLock, marker, attempts>>
  BY DEF WriteHead, Advance
<1>2. /\ buildLock = b /\ LockAvailable(b) /\ iso[b] = "rc" /\ job[b] \in JobType
      /\ \A c \in Backends : c # b => job[c].step = "none"
      /\ job[b].gen \in 1..attempts
  BY <1>1, RunningJob DEF IInv, Files, JobsLocked
<1>3. job[b].gen \in 0..MaxAttempts /\ job[b].by \in 0..MaxAttempts /\ job[b].expected \in 0..MaxAttempts
  BY <1>2 DEF JobType
<1>4. TxTypes' /\ (heads \in Seq(HeadType))'
  BY <1>1, <1>3, AppendTypes
<1>5. /\ XidsOwned' /\ HeadsOwned'
      /\ Chain(heads, CommittedHeads)' /\ Chain(heads, LiveHeads)'
  <2>1. row.xid = XidOf(b) /\ row.expected = Latest(heads, LiveHeads)
    BY <1>1 DEF IInv, Rows, JobsCurrent
  <2>2. buildLock' = b
    BY <1>1, <1>2
  <2> HIDE DEF row
  <2>3. QED
    BY <1>1, <1>2, <2>1, <2>2, AppendKeepsRows
<1>6. job \in [Backends -> JobType]
  BY DEF IInv, Types, BackendTypes
<1>7. /\ job'[b] = [job[b] EXCEPT !.step = "published"]
      /\ \A c \in Backends : c # b => job'[c] = job[c]
      /\ job' \in [Backends -> JobType]
  BY <1>1, <1>6 DEF JobType
<1>8. job'[b].step = "published" /\ job'[b].gen = job[b].gen
  BY <1>2, <1>7 DEF JobType
<1>9. BackendTypes' /\ FileTypes'
  BY <1>1, <1>7 DEF IInv, Types, BackendTypes, FileTypes, fileVars
<1>10. JobsLocked'
  BY <1>1, <1>2, <1>7, <1>8 DEF JobsLocked
<1>11. FilesBounded' /\ CandidateUnreserved' /\ JobsCurrent'
  BY <1>1, <1>2, <1>7, <1>8
     DEF IInv, Files, FilesBounded, CandidateUnreserved, JobsCurrent, Manifested, fileVars
<1>12. QED
  BY <1>4, <1>5, <1>9, <1>10, <1>11 DEF IInv, Types, Files, Rows

\* Removing the marker of a finished replacement keeps the inductive invariant.
LEMMA FinishReplacementKeeps ==
    ASSUME IInv, NEW b \in Backends, FinishReplacement(b)
    PROVE  IInv'
<1>1. /\ job[b].step = "published" /\ job' = [job EXCEPT ![b] = NoJob]
      /\ marker' = [marker EXCEPT ![b] = NoMarker]
      /\ snap' = [snap EXCEPT ![b] = IF iso[b] = "rr" THEN StatementSnapshot(b) ELSE NoSnapshot]
      /\ UNCHANGED <<xact, iso, xid, fileVars, heads, buildLock, attempts>>
  BY DEF FinishReplacement, KeepSnapshot
<1>2. /\ Types /\ Files /\ Rows /\ MaxXid \in Nat /\ MaxAttempts \in Nat
  BY BackendsAssumption, PublicationAssumption DEF IInv
<1>3. NoManifest \in ManifestType
  BY <1>2 DEF NoManifest, ManifestType
<1>4. NoJob \in JobType
  BY <1>2, <1>3 DEF NoJob, JobType
<1>5. \A c \in Backends : job'[c] = IF c = b THEN NoJob ELSE job[c]
  BY <1>1, <1>2 DEF Types, BackendTypes
<1>6. TxTypes'
  <2>1. StatementSnapshot(b) \in [xmin : 0..(MaxXid + 1), vis : SUBSET Xids]
    BY <1>2, SnapshotType
  <2>2. NoSnapshot \in [xmin : 0..(MaxXid + 1), vis : SUBSET Xids]
    BY <1>2 DEF NoSnapshot
  <2>3. QED
    BY <1>1, <1>2, <2>1, <2>2 DEF Types, TxTypes, Xids
<1>7. BackendTypes' /\ FileTypes' /\ (heads \in Seq(HeadType))'
  BY <1>1, <1>2, <1>4 DEF Types, BackendTypes, FileTypes, fileVars
<1>8. JobsLocked'
  BY <1>1, <1>2, <1>5 DEF Files, JobsLocked, NoJob
<1>9. FilesBounded' /\ CandidateUnreserved'
  BY <1>1, <1>5, RemovalKeepsFiles DEF fileVars
<1>10. Rows'
  BY <1>1, <1>2, <1>5, QuietKeepsRows DEF Rows, JobsCurrent, NoJob
<1>11. QED
  BY <1>6, <1>7, <1>8, <1>9, <1>10 DEF IInv, Types, Files

\* An error removes the files of the candidate, as far as it may, and ends the transaction; the inductive invariant stays.
LEMMA FailKeeps ==
    ASSUME IInv, NEW b \in Backends, Fail(b)
    PROVE  IInv'
<1>1. /\ job[b].step \in {"planned", "written", "staged", "switched"}
      /\ manifests' \in {manifests, [manifests EXCEPT ![job[b].gen] = NoManifest]}
      /\ artifacts' \in {artifacts, [artifacts EXCEPT ![job[b].gen] = 0]}
      /\ EndTransaction(b, "abort")
      /\ UNCHANGED <<pointer, heads, marker, attempts>>
  BY DEF Fail
<1>2. /\ Types /\ MaxAttempts \in Nat /\ job[b].gen \in Generations
  BY <1>1, PublicationAssumption, RunningJob DEF IInv
<1>3. NoManifest \in ManifestType
  BY <1>2 DEF NoManifest, ManifestType
<1>4. FileTypes'
  <2>1. manifests' \in [Generations -> ManifestType]
    <3>1. manifests \in [Generations -> ManifestType]
      BY <1>2 DEF Types, FileTypes
    <3>2. [manifests EXCEPT ![job[b].gen] = NoManifest] \in [Generations -> ManifestType]
      BY <1>3, <3>1
    <3>3. QED
      BY <1>1, <3>1, <3>2
  <2>2. artifacts' \in [Generations -> 0..MaxAttempts]
    <3>1. artifacts \in [Generations -> 0..MaxAttempts]
      BY <1>2 DEF Types, FileTypes
    <3>2. [artifacts EXCEPT ![job[b].gen] = 0] \in [Generations -> 0..MaxAttempts]
      BY <1>2, <3>1
    <3>3. QED
      BY <1>1, <3>1, <3>2
  <2>3. QED
    BY <1>1, <1>2, <2>1, <2>2 DEF Types, FileTypes
<1>5. \A g \in Generations : /\ manifests'[g] \in {manifests[g], NoManifest}
                             /\ artifacts'[g] \in {artifacts[g], 0}
  BY <1>1, <1>2 DEF Types, FileTypes
<1>6. Rows'
  BY <1>1, EndKeepsRows
<1>7. TxTypes' /\ JobsLocked' /\ BackendTypes' /\ \A c \in Backends : job'[c] \in {job[c], NoJob}
  BY <1>1, EndTypes DEF IInv, Types, BackendTypes
<1>8. FilesBounded' /\ CandidateUnreserved'
  BY <1>1, <1>5, <1>7, RemovalKeepsFiles
<1>9. (heads \in Seq(HeadType))'
  BY <1>1, <1>2 DEF Types
<1>10. QED
  BY <1>4, <1>6, <1>7, <1>8, <1>9 DEF IInv, Types, Files

----------------------------------------------------------------------------
\* Reconciliation of an interrupted replacement, and what it removes.
LEMMA ReconcileKeeps ==
    ASSUME IInv, NEW b \in Backends, Reconcile(b)
    PROVE  IInv'
<1> DEFINE unchanged == Published(StatementView(b)).gen = marker[b].expected
<1>1. /\ Types /\ Files /\ Rows /\ MaxAttempts \in Nat
      /\ marker[b].candidate \in Generations
  BY PublicationAssumption DEF IInv, Types, BackendTypes, Reconcile
<1>2. job[b] = NoJob /\ UNCHANGED <<pointer, heads, attempts>>
  BY DEF Reconcile, Idle
<1>3. NoManifest \in ManifestType
  BY <1>1 DEF NoManifest, ManifestType
<1>4. FileTypes' /\ \A g \in Generations : /\ manifests'[g] \in {manifests[g], NoManifest}
                                           /\ artifacts'[g] \in {artifacts[g], 0}
  <2>1. CASE unchanged
    <3>1. CleanupCandidate(marker[b].candidate)
      BY <2>1 DEF Reconcile
    <3>2. PICK gone \in SUBSET Generations :
               artifacts' = [g \in Generations |-> IF g \in gone THEN 0 ELSE artifacts[g]]
      <4> DEFINE gen        == marker[b].candidate
                 candidates == {gen} \cup Paths(manifests[gen].refs)
                 protected  == UNION {Paths(manifests[g].refs) : g \in Manifested \ {gen}}
                 gone       == Generations \cap (candidates \ protected)
      <4>1. artifacts' = [g \in Generations |-> IF g \in candidates \ protected THEN 0 ELSE artifacts[g]]
        BY <3>1 DEF CleanupCandidate
      <4> HIDE DEF candidates, protected
      <4>2. artifacts' = [g \in Generations |-> IF g \in gone THEN 0 ELSE artifacts[g]]
        BY <4>1
      <4>3. QED
        BY <4>2
    <3>3. manifests' = [manifests EXCEPT ![marker[b].candidate] = NoManifest]
      BY <3>1 DEF CleanupCandidate
    <3>4. manifests' \in [Generations -> ManifestType]
      BY <1>1, <1>3, <3>3 DEF Types, FileTypes
    <3>5. artifacts' \in [Generations -> 0..MaxAttempts]
      BY <1>1, <3>2 DEF Types, FileTypes
    <3>6. \A g \in Generations : /\ manifests'[g] \in {manifests[g], NoManifest}
                                 /\ artifacts'[g] \in {artifacts[g], 0}
      BY <1>1, <3>2, <3>3 DEF Types, FileTypes
    <3>7. QED
      BY <1>1, <1>2, <3>4, <3>5, <3>6 DEF Types, FileTypes
  <2>2. CASE ~unchanged
    BY <1>1, <1>2, <2>2 DEF Reconcile, Types, FileTypes
  <2>3. QED
    BY <2>1, <2>2
<1>5. (heads \in Seq(HeadType))'
  BY <1>1, <1>2 DEF Types
<1>6. CASE EndTransaction(b, "abort") /\ UNCHANGED marker
  <2>1. Rows'
    BY <1>2, <1>6, EndKeepsRows
  <2>2. TxTypes' /\ JobsLocked' /\ BackendTypes' /\ \A c \in Backends : job'[c] \in {job[c], NoJob}
    BY <1>1, <1>2, <1>6, EndTypes DEF Types, BackendTypes
  <2>3. FilesBounded' /\ CandidateUnreserved'
    BY <1>2, <1>4, <2>2, RemovalKeepsFiles
  <2>4. QED
    BY <1>4, <1>5, <2>1, <2>2, <2>3 DEF IInv, Types, Files
<1>7. CASE /\ marker' = [marker EXCEPT ![b] = NoMarker]
           /\ buildLock' = IF unchanged THEN b ELSE buildLock
           /\ UNCHANGED <<xact, txVars, job>>
  <2>1. unchanged => LockAvailable(b)
    BY DEF Reconcile
  <2>2. buildLock' = buildLock \/ (LockAvailable(b) /\ buildLock' = b)
    BY <1>7, <2>1
  <2>3. Rows'
    BY <1>1, <1>2, <1>7, <2>2, QuietKeepsRows DEF Rows, JobsCurrent, txVars
  <2>4. TxTypes' /\ BackendTypes'
    BY <1>1, <1>2, <1>7 DEF Types, TxTypes, BackendTypes, txVars
  <2>5. JobsLocked'
    BY <1>1, <1>2, <1>7, <2>2, BackendsAssumption DEF Files, JobsLocked, LockAvailable, NoJob, txVars
  <2>6. FilesBounded' /\ CandidateUnreserved'
    BY <1>2, <1>4, <1>7, RemovalKeepsFiles
  <2>7. QED
    BY <1>4, <1>5, <2>3, <2>4, <2>5, <2>6 DEF IInv, Types, Files
<1>8. QED
  BY <1>6, <1>7 DEF Reconcile

\* Garbage collection.
LEMMA CollectKeeps ==
    ASSUME IInv, NEW b \in Backends, NEW active \in SUBSET Manifested, Collect(b, active)
    PROVE  IInv'
<1>1. /\ Types /\ Files /\ Rows /\ MaxAttempts \in Nat
  BY PublicationAssumption DEF IInv
<1>2. /\ job[b] = NoJob /\ LockAvailable(b) /\ buildLock' = b
      /\ UNCHANGED <<xact, txVars, pointer, heads, marker, job, attempts>>
  BY DEF Collect, Idle
<1>3. NoManifest \in ManifestType
  BY <1>1 DEF NoManifest, ManifestType
<1>4. \E A, M : /\ artifacts' = [g \in Generations |-> IF g \in A THEN 0 ELSE artifacts[g]]
                /\ manifests' = [g \in Generations |-> IF g \in M THEN NoManifest ELSE manifests[g]]
  BY DEF Collect
<1>5. PICK A, M : /\ artifacts' = [g \in Generations |-> IF g \in A THEN 0 ELSE artifacts[g]]
                  /\ manifests' = [g \in Generations |-> IF g \in M THEN NoManifest ELSE manifests[g]]
  BY <1>4
<1>6. FileTypes'
  BY <1>1, <1>2, <1>3, <1>5 DEF Types, FileTypes
<1>7. \A g \in Generations : /\ manifests'[g] \in {manifests[g], NoManifest}
                             /\ artifacts'[g] \in {artifacts[g], 0}
  BY <1>5
<1>8. FilesBounded' /\ CandidateUnreserved'
  BY <1>2, <1>7, RemovalKeepsFiles
<1>9. Rows'
  BY <1>1, <1>2, QuietKeepsRows DEF Rows, JobsCurrent, txVars
<1>10. TxTypes' /\ BackendTypes' /\ (heads \in Seq(HeadType))'
  BY <1>1, <1>2 DEF Types, TxTypes, BackendTypes, txVars
<1>11. JobsLocked'
  BY <1>1, <1>2, BackendsAssumption DEF Files, JobsLocked, LockAvailable, NoJob, txVars
<1>12. QED
  BY <1>6, <1>8, <1>9, <1>10, <1>11 DEF IInv, Types, Files

\* reset().
LEMMA ResetKeeps ==
    ASSUME IInv, NEW b \in Backends, Reset(b)
    PROVE  IInv'
<1> DEFINE head == Published(StatementView(b))
           row  == [gen |-> 0, by |-> 0, xid |-> XidOf(b), expected |-> head.gen]
<1>1. /\ job[b] = NoJob /\ LockAvailable(b) /\ buildLock' = b /\ AssignXid(b)
      /\ head = Published(CommittedXids \cup {xid[b]})
      /\ heads' = Append(heads, row)
      /\ marker' = [marker EXCEPT ![b] = NoMarker]
      /\ UNCHANGED <<iso, snap, fileVars, job, attempts>>
  BY DEF Reset, Idle
<1>2. /\ Types /\ Files /\ Rows /\ MaxAttempts \in Nat
  BY PublicationAssumption DEF IInv
<1>3. head.gen \in 0..MaxAttempts /\ 0 \in 0..MaxAttempts
  <2>1. head.gen \in 0..MaxAttempts
    BY <1>2, PublishedType
  <2>2. QED
    BY <1>2, <2>1
<1>4. head.gen = Latest(heads, LiveHeads)
  <2>1. {k \in 1..Len(heads) : heads[k].xid \in CommittedXids \cup {xid[b]}} = LiveHeads
    BY <1>1, <1>2, LockedView DEF Rows
  <2>2. QED
    BY <1>1, <1>2, <2>1, PublishedType
<1> HIDE DEF head
<1>5. TxTypes' /\ (heads \in Seq(HeadType))'
  BY <1>1, <1>3, AppendTypes
<1>6. row.xid = XidOf(b) /\ row.expected = Latest(heads, LiveHeads)
  BY <1>4
<1> HIDE DEF row
<1>7. /\ XidsOwned' /\ HeadsOwned'
      /\ Chain(heads, CommittedHeads)' /\ Chain(heads, LiveHeads)'
  BY <1>1, <1>6, AppendKeepsRows
<1>8. \A c \in Backends : job'[c].step = "none"
  BY <1>1, <1>2, BackendsAssumption DEF Files, JobsLocked, LockAvailable, NoJob
<1>9. BackendTypes' /\ FileTypes'
  BY <1>1, <1>2 DEF Types, BackendTypes, FileTypes, fileVars
<1>10. Files' /\ JobsCurrent'
  BY <1>1, <1>2, <1>8
     DEF Files, FilesBounded, JobsLocked, CandidateUnreserved, JobsCurrent, Manifested, fileVars
<1>11. QED
  BY <1>5, <1>7, <1>9, <1>10 DEF IInv, Types, Rows

----------------------------------------------------------------------------
\* The inductive invariant.
LEMMA NextInv == IInv /\ [Next]_vars => IInv'
<1> SUFFICES ASSUME IInv, [Next]_vars PROVE IInv'
  OBVIOUS
<1>1. ASSUME NEW b \in Backends, Begin(b, "rc") \/ Exit(b) \/ Reconcile(b) PROVE IInv'
  BY <1>1, BeginKeeps, ExitKeeps, ReconcileKeeps
<1>2. ASSUME NEW b \in Backends, NEW outcome \in {"commit", "abort"}, End(b, outcome) PROVE IInv'
  BY <1>2, EndKeeps
<1>3. ASSUME NEW b \in Fixed, Begin(b, "rr") PROVE IInv'
  BY <1>3, BeginKeeps, PublicationAssumption
<1>4. ASSUME NEW b \in Publishers, Replacement(b) PROVE IInv'
  <2>1. b \in Backends
    BY PublicationAssumption
  <2>2. ASSUME NEW kind \in {"ingest", "compact", "rebuild"}, Plan(b, kind) PROVE IInv'
    BY <2>1, <2>2, PlanKeeps
  <2>3. ASSUME WriteArtifacts(b) \/ StageManifest(b) \/ SwitchPointer(b) PROVE IInv'
    BY <2>1, <2>3, WriteArtifactsKeeps, StageManifestKeeps, SwitchPointerKeeps
  <2>4. ASSUME WriteHead(b) \/ FinishReplacement(b) \/ Fail(b) PROVE IInv'
    BY <2>1, <2>4, WriteHeadKeeps, FinishReplacementKeeps, FailKeeps
  <2>5. QED
    BY <1>4, <2>2, <2>3, <2>4 DEF Replacement
<1>5. ASSUME NEW b \in Collectors, NEW active \in SUBSET Manifested, Collect(b, active) PROVE IInv'
  BY <1>5, CollectKeeps, PublicationAssumption
<1>6. ASSUME NEW b \in Resetters, Reset(b) PROVE IInv'
  BY <1>6, ResetKeeps, PublicationAssumption
<1>7. CASE UNCHANGED vars
  <2>1. /\ UNCHANGED <<xact, xid, iso, snap, heads, buildLock, marker, job, attempts>>
        /\ UNCHANGED <<manifests, artifacts, pointer>>
    BY <1>7 DEF vars, txVars, fileVars
  <2>2. Types' /\ Files'
    BY <2>1 DEF IInv, Types, TxTypes, FileTypes, BackendTypes, Xids,
                Files, FilesBounded, JobsLocked, CandidateUnreserved, Manifested
  <2>3. LiveHeads' = LiveHeads /\ CommittedHeads' = CommittedHeads
    BY <2>1 DEF LiveHeads, CommittedHeads, CommittedXids, RunningXids
  <2>4. Rows'
    BY <2>1, <2>3 DEF IInv, Rows, XidsOwned, HeadsOwned, JobsCurrent, Chain, Latest
  <2>5. QED
    BY <2>2, <2>4 DEF IInv
<1>8. QED
  BY <1>1, <1>2, <1>3, <1>4, <1>5, <1>6, <1>7 DEF Next

\* The inductive invariant holds in every reachable state.
LEMMA IInvAlways == Spec => []IInv
<1>1. QED
  BY InitInv, NextInv, PTL DEF Spec

\* The variables of publication keep their types; in particular the next id is
\* always one that exists, so that a replacement never runs out of ids.
THEOREM PublicationTypes == Spec => []TypeOK
<1>1. IInv => TypeOK
  <2> SUFFICES ASSUME IInv PROVE TypeOK
    OBVIOUS
  <2>1. Types
    BY DEF IInv
  <2>2. TxTypeOK
    BY <2>1 DEF Types, TxTypes, TxTypeOK
  <2>3. \A k \in 1..Len(heads) : heads[k] \in HeadType
    BY <2>1 DEF Types
  <2>4. \A b \in Backends :
          /\ job[b].step \in {"none", "planned", "written", "staged", "switched", "published"}
          /\ job[b].manifest \in ManifestType
    BY <2>1 DEF Types, BackendTypes, JobType
  <2>5. QED
    BY <2>1, <2>2, <2>3, <2>4 DEF TypeOK, Types, FileTypes, BackendTypes, HeadType
<1>2. QED
  BY <1>1, IInvAlways, PTL

\* A planned candidate can always be created: no file that an aborted or
\* interrupted attempt left behind has its id (next_rebuild_generation_id), and
\* nobody creates one before publish_if_current does.
THEOREM CandidateNeverBlocked == Spec => []CandidateUnreserved
<1>1. IInv => CandidateUnreserved
  BY DEF IInv, Files
<1>2. QED
  BY <1>1, IInvAlways, PTL

\* No publication is lost: every committed head of graph._projection_heads
\* replaced the head that was committed, or written by the same transaction,
\* right before it, whatever was aborted, interrupted or reset in between.
THEOREM PublicationsChain == Spec => []NoLostPublication
<1>1. IInv => NoLostPublication
  BY DEF IInv, Rows, Chain, Latest, CommittedHeads, NoLostPublication
<1>2. QED
  BY <1>1, IInvAlways, PTL

------------------------------------------------------------------------------
(***************************************************************************)
(* Proofs that the files of the published generation stay, for every set   *)
(* of backends, every bound and every retention floor, as long as no       *)
(* publisher uses REPEATABLE READ.                                         *)
(*                                                                         *)
(* The head that must stay loadable is the last committed version and,     *)
(* before its commit, the version the holder of the build lock has written *)
(* (it becomes the committed one without another look at the files).  The  *)
(* cleanup of an interrupted replacement spares both because a candidate's *)
(* id is never the id of the generation it derives from; the collector     *)
(* because it retains the current generation and runs only when the last   *)
(* version is committed.                                                   *)
(***************************************************************************)

\* Loadable, of given manifests m and artifacts a.
Loads(m, a, head) ==
    /\ head.gen \in Generations
    /\ m[head.gen] # NoManifest /\ m[head.gen].by = head.by
    /\ \A r \in m[head.gen].refs : a[r.gen] = r.by

\* The last of the head versions C loads; removing generation g's files leaves
\* it alone.
LastLoads(m, a, h, C) == Latest(h, C) # 0 => Loads(m, a, h[Max(C)])
Spares(m, h, C, g) ==
    Latest(h, C) # 0 => Latest(h, C) # g /\ \A r \in m[Latest(h, C)].refs : r.gen # g

HeadsLoadable ==
    /\ LastLoads(manifests, artifacts, heads, CommittedHeads)
    /\ LastLoads(manifests, artifacts, heads, LiveHeads)

Unpublished == {"planned", "written", "staged", "switched"}

\* The files of a replacement under way: the ones it takes over are there, its
\* own are there from the step on that creates them, and no head needs them.
JobFiles ==
    \A b \in Backends : job[b].step \in Unpublished =>
        /\ job[b].by # 0 /\ job[b].manifest.by = job[b].by
        /\ \A r \in job[b].manifest.refs :
              \/ r.gen = job[b].gen /\ r.by = job[b].by
              \/ r.gen # job[b].gen /\ artifacts[r.gen] = r.by
        /\ job[b].step # "planned" => artifacts[job[b].gen] = job[b].by
        /\ job[b].step \in {"staged", "switched"} => manifests[job[b].gen] = job[b].manifest
        /\ Spares(manifests, heads, CommittedHeads, job[b].gen)
        /\ Spares(manifests, heads, LiveHeads, job[b].gen)

\* A marker names a candidate other than the generation it derives from; when
\* the replacement is over, its transaction is too.
Markers ==
    \A b \in Backends : marker[b] # NoMarker =>
        /\ b \in Publishers /\ marker[b].candidate # marker[b].expected
        /\ job[b].step = "none" => xid[b] = NoXid

Levels == \A b \in Backends : iso[b] = "rr" => b \in Fixed

LInv == HeadsLoadable /\ JobFiles /\ Markers /\ Levels

\* Only the files of generation g change: a head that does not need them loads
\* as before.
LEMMA OthersLoad ==
    ASSUME IInv, NEW C, LastLoads(manifests, artifacts, heads, C),
           NEW g \in Generations, Spares(manifests, heads, C, g), NEW m, NEW a,
           \A x \in Generations \ {g} : m[x] = manifests[x] /\ a[x] = artifacts[x]
    PROVE  LastLoads(m, a, heads, C) /\ Spares(m, heads, C, g)
<1> SUFFICES ASSUME Latest(heads, C) # 0
             PROVE  /\ Loads(m, a, heads[Max(C)])
                    /\ Latest(heads, C) # g /\ \A r \in m[Latest(heads, C)].refs : r.gen # g
  BY DEF LastLoads, Spares
<1> DEFINE v == heads[Max(C)].gen
<1>1. Latest(heads, C) = v
  BY DEF Latest
<1>2. Loads(manifests, artifacts, heads[Max(C)])
  BY DEF LastLoads
<1>3. v \in Generations \ {g} /\ \A r \in manifests[v].refs : r.gen # g
  BY <1>1, <1>2 DEF Spares, Loads
<1>4. m[v] = manifests[v]
  BY <1>3
<1>5. manifests[v] \in ManifestType
  BY <1>3 DEF IInv, Types, FileTypes
<1>6. \A r \in manifests[v].refs : r.gen \in Generations
  BY <1>5 DEF ManifestType
<1>7. \A r \in manifests[v].refs : a[r.gen] = artifacts[r.gen]
  BY <1>3, <1>6
<1>8. QED
  BY <1>1, <1>2, <1>3, <1>4, <1>7 DEF Loads

\* Files are only removed, and none that the last head of C needs.
LEMMA NeededStay ==
    ASSUME NEW C, LastLoads(manifests, artifacts, heads, C), NEW m, NEW a,
           Latest(heads, C) # 0 =>
               /\ m[Latest(heads, C)] = manifests[Latest(heads, C)]
               /\ \A r \in manifests[Latest(heads, C)].refs : a[r.gen] = artifacts[r.gen]
    PROVE  LastLoads(m, a, heads, C)
BY DEF LastLoads, Loads, Latest

\* No head needs an id that no file has.
LEMMA FreshSpared ==
    ASSUME IInv, NEW C, LastLoads(manifests, artifacts, heads, C),
           NEW g \in Generations, g \notin Manifested, artifacts[g] = 0
    PROVE  Spares(manifests, heads, C, g)
<1> SUFFICES ASSUME Latest(heads, C) # 0
             PROVE  Latest(heads, C) # g /\ \A r \in manifests[Latest(heads, C)].refs : r.gen # g
  BY DEF Spares
<1> DEFINE v == heads[Max(C)].gen
<1>1. Latest(heads, C) = v /\ Loads(manifests, artifacts, heads[Max(C)])
  BY DEF Latest, LastLoads
<1>2. v \in Generations /\ manifests[v] # NoManifest
  BY <1>1 DEF Loads
<1>3. manifests[v] \in ManifestType
  BY <1>2 DEF IInv, Types, FileTypes
<1>4. \A r \in manifests[v].refs : r.by \in 1..MaxAttempts /\ artifacts[r.gen] = r.by
  BY <1>1, <1>3 DEF ManifestType, Loads
<1>5. \A r \in manifests[v].refs : artifacts[r.gen] # 0
  BY <1>4, PublicationAssumption
<1>6. v # g
  BY <1>2 DEF Manifested
<1>7. QED
  BY <1>1, <1>5, <1>6

\* Initially nothing is published and nobody replaces anything.
LEMMA LoadInit == Init => LInv
<1> SUFFICES ASSUME Init PROVE LInv
  OBVIOUS
<1>1. heads = << >> /\ Len(heads) = 0
  BY DEF Init
<1>2. CommittedHeads = {} /\ LiveHeads = {}
  BY <1>1 DEF CommittedHeads, LiveHeads
<1>3. HeadsLoadable
  BY <1>2 DEF HeadsLoadable, LastLoads, Latest
<1>4. JobFiles /\ Markers /\ Levels
  BY DEF Init, TxInit, JobFiles, Markers, Levels, NoJob, Unpublished
<1>5. QED
  BY <1>3, <1>4 DEF LInv

\* What the end of a transaction does to levels and to the markers that stay.
LEMMA EndMarkers ==
    ASSUME IInv, LInv, NEW b \in Backends, NEW outcome \in {"commit", "abort"},
           EndTransaction(b, outcome), \A c \in Backends : marker'[c] \in {marker[c], NoMarker}
    PROVE  Markers' /\ Levels'
<1>1. /\ iso' = [iso EXCEPT ![b] = "none"]
      /\ xid' = [xid EXCEPT ![b] = NoXid]
      /\ job' = [job EXCEPT ![b] = NoJob]
  BY DEF EndTransaction, FinishXact
<1>2. /\ iso \in [Backends -> {"none", "rc", "rr"}]
      /\ xid \in [Backends -> Xids \cup {NoXid}]
      /\ job \in [Backends -> JobType]
  BY DEF IInv, Types, TxTypes, BackendTypes
<1>3. Levels'
  BY <1>1, <1>2 DEF LInv, Levels
<1>4. \A c \in Backends : c # b => job'[c] = job[c] /\ xid'[c] = xid[c]
  BY <1>1, <1>2
<1>5. xid'[b] = NoXid
  BY <1>1, <1>2
<1>6. Markers'
  BY <1>4, <1>5 DEF LInv, Markers
<1>7. QED
  BY <1>3, <1>6

\* A transaction that ends without touching a file: End and Exit.
LEMMA EndLoads ==
    ASSUME IInv, LInv, NEW b \in Backends, NEW outcome \in {"commit", "abort"},
           EndTransaction(b, outcome), UNCHANGED <<manifests, artifacts, heads>>,
           \A c \in Backends : marker'[c] \in {marker[c], NoMarker}
    PROVE  LInv'
<1>1. HeadsLoadable'
  BY EndDecides DEF LInv, HeadsLoadable
<1>2. JobFiles'
  <2> SUFFICES ASSUME NEW c \in Backends, job'[c].step \in Unpublished
               PROVE  /\ job'[c] = job[c]
                      /\ CommittedHeads' = CommittedHeads /\ LiveHeads' = LiveHeads
    BY DEF LInv, JobFiles
  <2>1. c # b /\ job'[c] = job[c]
    BY DEF EndTransaction, IInv, Types, BackendTypes, NoJob, Unpublished
  <2>2. buildLock # b
    BY <2>1 DEF IInv, Files, JobsLocked, Unpublished
  <2>3. QED
    BY <2>1, <2>2, EndDecides
<1>3. QED
  BY <1>1, <1>2, EndMarkers DEF LInv

\* A statement that writes no row.
LEMMA SameHeads ==
    ASSUME UNCHANGED <<xact, heads>>
    PROVE  CommittedHeads' = CommittedHeads /\ LiveHeads' = LiveHeads
BY DEF CommittedHeads, LiveHeads, CommittedXids, RunningXids

\* BEGIN fixes a snapshot at most; files, heads, jobs and markers stay as they are.
LEMMA BeginLoads ==
    ASSUME IInv, LInv, NEW b \in Backends, NEW level \in {"rc", "rr"}, Begin(b, level),
           level = "rr" => b \in Fixed
    PROVE  LInv'
<1>1. /\ iso' = [iso EXCEPT ![b] = level]
      /\ UNCHANGED <<xact, xid, manifests, artifacts, heads, marker, job>>
  BY DEF Begin, fileVars
<1>2. HeadsLoadable' /\ JobFiles' /\ Markers'
  BY <1>1, SameHeads DEF LInv, HeadsLoadable, JobFiles, Markers
<1>3. Levels'
  BY <1>1 DEF LInv, Levels, IInv, Types, TxTypes
<1>4. QED
  BY <1>2, <1>3 DEF LInv

\* A replacement starts from a head that loads, with an id of its own.
LEMMA PlanLoads ==
    ASSUME IInv, LInv, NEW b \in Publishers, b \in Backends,
           NEW kind \in {"ingest", "compact", "rebuild"}, Plan(b, kind)
    PROVE  LInv'
<1> DEFINE head == Published(StatementView(b))
           gen  == NextGeneration
           by   == attempts + 1
           manifest == CandidateManifest(kind, head, gen, by)
           new  == [step |-> "planned", kind |-> kind, gen |-> gen, by |-> by,
                    expected |-> head.gen, manifest |-> manifest]
<1>1. /\ job[b] = NoJob /\ iso[b] = "rc" /\ LockAvailable(b) /\ attempts < MaxAttempts
      /\ head.gen # 0 => Loadable(head)
      /\ marker' = [marker EXCEPT ![b] = [expected |-> head.gen, candidate |-> gen]]
      /\ job' = [job EXCEPT ![b] = new]
      /\ UNCHANGED <<xact, iso, xid, manifests, artifacts, heads>>
  BY DEF Plan, Idle, fileVars
<1>2. /\ MaxAttempts \in Nat /\ attempts \in 0..MaxAttempts
      /\ FileTypes /\ BackendTypes /\ FilesBounded /\ Types
  BY PublicationAssumption DEF IInv, Types, BackendTypes, Files
<1>3. gen \in Generations /\ gen \notin Manifested /\ artifacts[gen] = 0
  <2>1. gen \in 1..(attempts + 1)
    BY <1>2, NextGenerationFresh
  <2>2. gen \in Generations
    BY <1>1, <1>2, <2>1 DEF Generations
  <2>3. QED
    BY <1>2, <2>1, <2>2, NextGenerationFresh
<1>4. by # 0
  BY <1>2
<1>5. head.gen # gen
  <2>1. CASE head.gen = 0
    BY <1>2, <1>3, <2>1 DEF Generations
  <2>2. CASE head.gen # 0
    BY <1>1, <1>3, <2>2 DEF Loadable, ManifestMatches
  <2>3. QED
    BY <2>1, <2>2
<1>6. \A c \in Backends : job[c].step = "none"
  BY <1>1, BackendsAssumption DEF IInv, Files, JobsLocked, LockAvailable, NoJob
<1>7. manifest.by = by /\ \A r \in manifest.refs :
              \/ r.gen = gen /\ r.by = by
              \/ r.gen # gen /\ artifacts[r.gen] = r.by
  <2> DEFINE old  == IF head.gen \in Manifested THEN manifests[head.gen] ELSE NoManifest
             base == {r \in old.refs : \A q \in old.refs : r.gen <= q.gen}
             keep == [ingest |-> old.refs, compact |-> base, rebuild |-> {}][kind]
             refs == keep \cup {[gen |-> gen, by |-> by]}
             superseded == old.obsolete \cup Paths(old.refs \ keep)
  <2>1. manifest = [by |-> by, refs |-> refs, obsolete |-> superseded, prev |-> head.gen]
    BY DEF CandidateManifest
  <2>2. keep \subseteq old.refs
    OBVIOUS
  <2>3. \A r \in old.refs : artifacts[r.gen] = r.by /\ r.by # 0
    <3>1. CASE head.gen \in Manifested
      <4>1. head.gen # 0 /\ old = manifests[head.gen] /\ manifests[head.gen] \in ManifestType
        BY <1>2, <3>1 DEF Manifested, Generations, FileTypes
      <4>2. \A r \in old.refs : r.by \in 1..MaxAttempts
        BY <4>1 DEF ManifestType
      <4>3. \A r \in old.refs : artifacts[r.gen] = r.by
        BY <1>1, <4>1 DEF Loadable
      <4>4. QED
        BY <1>2, <4>2, <4>3
    <3>2. CASE head.gen \notin Manifested
      BY <3>2 DEF NoManifest
    <3>3. QED
      BY <3>1, <3>2
  <2> HIDE DEF old, keep, superseded, manifest
  <2>4. \A r \in keep : r.gen # gen /\ artifacts[r.gen] = r.by
    BY <1>3, <2>2, <2>3
  <2>5. \A r \in refs : \/ r.gen = gen /\ r.by = by
                        \/ r.gen # gen /\ artifacts[r.gen] = r.by
    BY <2>4
  <2>6. manifest.by = by /\ manifest.refs = refs
    BY <2>1
  <2>7. QED
    BY <2>5, <2>6
<1>8. Spares(manifests, heads, CommittedHeads, gen) /\ Spares(manifests, heads, LiveHeads, gen)
  BY <1>3, FreshSpared DEF LInv, HeadsLoadable
<1>9. CommittedHeads' = CommittedHeads /\ LiveHeads' = LiveHeads
  BY <1>1, SameHeads
<1>10. HeadsLoadable'
  BY <1>1, <1>9 DEF LInv, HeadsLoadable
<1> HIDE DEF manifest, gen, head, by
<1>11. /\ new.step = "planned" /\ new.gen = gen /\ new.by = by /\ new.manifest = manifest
  OBVIOUS
<1>12. \A c \in Backends : job'[c] = IF c = b THEN new ELSE job[c]
  BY <1>1, <1>2 DEF BackendTypes
<1> HIDE DEF new
<1>13. JobFiles'
  BY <1>1, <1>4, <1>6, <1>7, <1>8, <1>9, <1>11, <1>12 DEF JobFiles, Unpublished
<1>14. Markers'
  <2>1. \A c \in Backends : marker'[c] = IF c = b THEN [expected |-> head.gen, candidate |-> gen]
                                          ELSE marker[c]
    BY <1>1, <1>2 DEF BackendTypes
  <2>2. QED
    BY <1>1, <1>5, <1>11, <1>12, <2>1 DEF LInv, Markers
<1>15. Levels'
  BY <1>1 DEF LInv, Levels
<1>16. QED
  BY <1>10, <1>13, <1>14, <1>15 DEF LInv

\* The steps that create files: only those of the candidate change.
LEMMA CreateLoads ==
    ASSUME IInv, LInv, NEW b \in Backends, NEW step \in {"written", "staged", "switched"},
           job[b].step \in {"planned", "written", "staged"}, Advance(b, step),
           UNCHANGED <<xact, txVars, heads, marker>>,
           \A g \in Generations \ {job[b].gen} : manifests'[g] = manifests[g] /\ artifacts'[g] = artifacts[g],
           artifacts'[job[b].gen] = job[b].by,
           step \in {"staged", "switched"} => manifests'[job[b].gen] = job[b].manifest
    PROVE  LInv'
<1>1. job \in [Backends -> JobType]
  BY DEF IInv, Types, BackendTypes
<1>2. job[b].step \in Unpublished /\ job[b].step # "none" /\ job[b].step # "published"
  BY DEF Unpublished
<1>3. /\ job[b].gen \in Generations /\ job[b] \in JobType
      /\ \A c \in Backends : c # b => job[c].step = "none"
  BY <1>2, RunningJob
<1>4. /\ job'[b] = [job[b] EXCEPT !.step = step]
      /\ \A c \in Backends : c # b => job'[c] = job[c]
  BY <1>1 DEF Advance
<1>5. /\ job'[b].step = step /\ job'[b].gen = job[b].gen /\ job'[b].by = job[b].by
      /\ job'[b].manifest = job[b].manifest
  BY <1>1, <1>4 DEF JobType
<1>6. CommittedHeads' = CommittedHeads /\ LiveHeads' = LiveHeads
  BY SameHeads
<1>7. /\ LastLoads(manifests', artifacts', heads, CommittedHeads)
      /\ Spares(manifests', heads, CommittedHeads, job[b].gen)
      /\ LastLoads(manifests', artifacts', heads, LiveHeads)
      /\ Spares(manifests', heads, LiveHeads, job[b].gen)
  BY <1>2, <1>3, OthersLoad DEF LInv, HeadsLoadable, JobFiles
<1>8. HeadsLoadable'
  BY <1>6, <1>7 DEF HeadsLoadable
<1>9. job[b].manifest \in ManifestType
  BY <1>3 DEF JobType
<1>10. \A r \in job[b].manifest.refs : r.gen \in Generations
  BY <1>9 DEF ManifestType
<1>11. \A r \in job[b].manifest.refs :
              \/ r.gen = job[b].gen /\ r.by = job[b].by
              \/ r.gen # job[b].gen /\ artifacts'[r.gen] = r.by
  BY <1>2, <1>10 DEF LInv, JobFiles
<1>12. job[b].by # 0 /\ job[b].manifest.by = job[b].by
  BY <1>2 DEF LInv, JobFiles
<1>13. JobFiles'
  <2>1. \A c \in Backends : job'[c].step \in Unpublished => c = b
    BY <1>3, <1>4 DEF Unpublished
  <2>2. \A r \in job'[b].manifest.refs :
              \/ r.gen = job'[b].gen /\ r.by = job'[b].by
              \/ r.gen # job'[b].gen /\ artifacts'[r.gen] = r.by
    BY <1>5, <1>11
  <2>3. /\ job'[b].by # 0 /\ job'[b].manifest.by = job'[b].by
        /\ artifacts'[job'[b].gen] = job'[b].by
        /\ job'[b].step \in {"staged", "switched"} => manifests'[job'[b].gen] = job'[b].manifest
    BY <1>5, <1>12
  <2>4. /\ Spares(manifests', heads', CommittedHeads', job'[b].gen)
        /\ Spares(manifests', heads', LiveHeads', job'[b].gen)
    BY <1>5, <1>6, <1>7
  <2>5. QED
    BY <2>1, <2>2, <2>3, <2>4 DEF JobFiles
<1>14. Markers' /\ Levels'
  BY <1>2, <1>4, <1>5 DEF LInv, Markers, Levels, txVars
<1>15. QED
  BY <1>8, <1>13, <1>14 DEF LInv

\* Writing the artifacts of a candidate adds files and removes none.
LEMMA WriteArtifactsLoads ==
    ASSUME IInv, LInv, NEW b \in Backends, WriteArtifacts(b)
    PROVE  LInv'
<1>1. /\ job[b].step = "planned" /\ Advance(b, "written")
      /\ artifacts' = [artifacts EXCEPT ![job[b].gen] = job[b].by]
      /\ UNCHANGED <<xact, txVars, manifests, heads, marker>>
  BY DEF WriteArtifacts
<1>2. job[b].gen \in Generations
  BY <1>1, RunningJob
<1>3. /\ artifacts'[job[b].gen] = job[b].by
      /\ \A g \in Generations \ {job[b].gen} : manifests'[g] = manifests[g] /\ artifacts'[g] = artifacts[g]
  BY <1>1, <1>2 DEF IInv, Types, FileTypes
<1>4. QED
  BY <1>1, <1>3, CreateLoads

\* Staging adds the manifest of a candidate and leaves every loadable generation alone.
LEMMA StageManifestLoads ==
    ASSUME IInv, LInv, NEW b \in Backends, StageManifest(b)
    PROVE  LInv'
<1>1. /\ job[b].step = "written" /\ Advance(b, "staged")
      /\ manifests' = [manifests EXCEPT ![job[b].gen] = job[b].manifest]
      /\ UNCHANGED <<xact, txVars, artifacts, heads, marker>>
  BY DEF StageManifest
<1>2. job[b].gen \in Generations
  BY <1>1, RunningJob
<1>3. /\ manifests'[job[b].gen] = job[b].manifest
      /\ \A g \in Generations \ {job[b].gen} : manifests'[g] = manifests[g] /\ artifacts'[g] = artifacts[g]
  BY <1>1, <1>2 DEF IInv, Types, FileTypes
<1>4. artifacts'[job[b].gen] = job[b].by
  BY <1>1 DEF LInv, JobFiles, Unpublished
<1>5. QED
  BY <1>1, <1>3, <1>4, CreateLoads

\* Switching the pointer file leaves artifacts and manifests alone.
LEMMA SwitchPointerLoads ==
    ASSUME IInv, LInv, NEW b \in Backends, SwitchPointer(b)
    PROVE  LInv'
<1>1. /\ job[b].step = "staged" /\ Advance(b, "switched")
      /\ UNCHANGED <<xact, txVars, manifests, artifacts, heads, marker>>
  BY DEF SwitchPointer
<1>2. artifacts'[job[b].gen] = job[b].by /\ manifests'[job[b].gen] = job[b].manifest
  BY <1>1 DEF LInv, JobFiles, Unpublished
<1>3. \A g \in Generations \ {job[b].gen} : manifests'[g] = manifests[g] /\ artifacts'[g] = artifacts[g]
  BY <1>1
<1>4. QED
  BY <1>1, <1>2, <1>3, CreateLoads

\* The last of the versions that are not aborted is the one just written.
LEMMA AppendLast ==
    ASSUME IInv, NEW row
    PROVE  LET n == Len(heads) IN
           /\ Latest(Append(heads, row), CommittedHeads) = Latest(heads, CommittedHeads)
           /\ CommittedHeads # {} =>
                Append(heads, row)[Max(CommittedHeads)] = heads[Max(CommittedHeads)]
           /\ Max(LiveHeads \cup {n + 1}) = n + 1
           /\ Append(heads, row)[n + 1] = row
           /\ Latest(Append(heads, row), LiveHeads \cup {n + 1}) = row.gen
<1> DEFINE n == Len(heads)
<1>1. heads \in Seq(HeadType) /\ n \in Nat
  BY DEF IInv, Types
<1>2. Append(heads, row)[n + 1] = row /\ \A k \in 1..n : Append(heads, row)[k] = heads[k]
  BY <1>1
<1>3. CommittedHeads \in SUBSET (1..n) /\ LiveHeads \in SUBSET (1..n)
  BY DEF CommittedHeads, LiveHeads
<1>4. CommittedHeads # {} => Max(CommittedHeads) \in 1..n
  BY <1>1, <1>3, IndexMax
<1> DEFINE U == LiveHeads \cup {n + 1}
<1>5. U \in SUBSET Int /\ n + 1 \in U /\ \A y \in U : n + 1 >= y
  <2>1. \A y \in LiveHeads : y \in Int /\ n + 1 >= y
    BY <1>1, <1>3
  <2>2. n + 1 \in Int /\ n + 1 >= n + 1
    BY <1>1
  <2>3. QED
    BY <2>1, <2>2
<1>6. Max(U) = n + 1
  BY <1>5, MaxIs
<1>7. QED
  BY <1>2, <1>4, <1>6 DEF Latest

\* publication::publish: the version it writes loads.
LEMMA WriteHeadLoads ==
    ASSUME IInv, LInv, NEW b \in Backends, WriteHead(b)
    PROVE  LInv'
<1> DEFINE row == [gen |-> job[b].gen, by |-> job[b].by, xid |-> XidOf(b), expected |-> job[b].expected]
           n == Len(heads)
<1>1. /\ job[b].step = "switched" /\ AssignXid(b) /\ heads' = Append(heads, row)
      /\ job' = [job EXCEPT ![b].step = "published"]
      /\ UNCHANGED <<iso, manifests, artifacts, buildLock, marker>>
  BY DEF WriteHead, Advance, fileVars
<1>2. /\ buildLock' = b /\ LockAvailable(b) /\ job[b] \in JobType /\ job[b].gen \in Generations
      /\ \A c \in Backends : c # b => job[c].step = "none"
  BY <1>1, RunningJob
<1>3. /\ job[b].by # 0 /\ job[b].manifest.by = job[b].by
      /\ manifests[job[b].gen] = job[b].manifest
      /\ artifacts[job[b].gen] = job[b].by
      /\ \A r \in job[b].manifest.refs : artifacts[r.gen] = r.by
  BY <1>1 DEF LInv, JobFiles, Unpublished
<1>4. Loads(manifests, artifacts, row)
  <2>1. manifests[job[b].gen] # NoManifest
    BY <1>3 DEF NoManifest
  <2>2. row.gen = job[b].gen /\ row.by = job[b].by
    OBVIOUS
  <2> HIDE DEF row
  <2>3. QED
    BY <1>2, <1>3, <2>1, <2>2 DEF Loads
<1>5. row.xid = XidOf(b) /\ row.expected = Latest(heads, LiveHeads)
  BY <1>1 DEF IInv, Rows, JobsCurrent
<1> HIDE DEF row
<1>6. CommittedHeads' = CommittedHeads /\ LiveHeads' = LiveHeads \cup {n + 1}
  BY <1>1, <1>2, <1>5, AppendKeepsRows
<1>7. HeadsLoadable'
  <2>1. LastLoads(manifests', artifacts', heads', CommittedHeads')
    BY <1>1, <1>6, AppendLast DEF LInv, HeadsLoadable, LastLoads, Latest
  <2>2. heads'[Max(LiveHeads')] = row
    BY <1>1, <1>6, AppendLast
  <2>3. LastLoads(manifests', artifacts', heads', LiveHeads')
    BY <1>1, <1>4, <2>2 DEF LastLoads
  <2>4. QED
    BY <2>1, <2>3 DEF HeadsLoadable
<1>8. job \in [Backends -> JobType]
  BY DEF IInv, Types, BackendTypes
<1>9. /\ job'[b].step = "published"
      /\ \A c \in Backends : c # b => job'[c] = job[c]
  BY <1>1, <1>8 DEF JobType
<1>10. JobFiles'
  BY <1>2, <1>9 DEF JobFiles, Unpublished
<1>11. \A c \in Backends : c # b => xid'[c] = xid[c]
  BY <1>1 DEF AssignXid, IInv, Types, TxTypes
<1>12. Markers' /\ Levels'
  BY <1>1, <1>9, <1>11 DEF LInv, Markers, Levels
<1>13. QED
  BY <1>7, <1>10, <1>12 DEF LInv

\* The statement succeeded: the job and its marker go, files and heads stay.
LEMMA FinishReplacementLoads ==
    ASSUME IInv, LInv, NEW b \in Backends, FinishReplacement(b)
    PROVE  LInv'
<1>1. /\ job[b].step = "published" /\ job' = [job EXCEPT ![b] = NoJob]
      /\ marker' = [marker EXCEPT ![b] = NoMarker]
      /\ UNCHANGED <<xact, iso, xid, manifests, artifacts, heads>>
  BY DEF FinishReplacement, fileVars
<1>2. \A c \in Backends : job'[c] = IF c = b THEN NoJob ELSE job[c]
  BY <1>1 DEF IInv, Types, BackendTypes
<1>3. \A c \in Backends : marker'[c] = IF c = b THEN NoMarker ELSE marker[c]
  BY <1>1 DEF IInv, Types, BackendTypes
<1>4. CommittedHeads' = CommittedHeads /\ LiveHeads' = LiveHeads
  BY <1>1, SameHeads
<1>5. HeadsLoadable'
  BY <1>1, <1>4 DEF LInv, HeadsLoadable
<1>6. JobFiles'
  BY <1>1, <1>2, <1>4 DEF LInv, JobFiles, Unpublished, NoJob
<1>7. Markers' /\ Levels'
  BY <1>1, <1>2, <1>3 DEF LInv, Markers, Levels
<1>8. QED
  BY <1>5, <1>6, <1>7 DEF LInv

\* An ordinary error removes files of the candidate only.
LEMMA FailLoads ==
    ASSUME IInv, LInv, NEW b \in Backends, Fail(b)
    PROVE  LInv'
<1>1. /\ job[b].step \in Unpublished
      /\ manifests' \in {manifests, [manifests EXCEPT ![job[b].gen] = NoManifest]}
      /\ artifacts' \in {artifacts, [artifacts EXCEPT ![job[b].gen] = 0]}
      /\ EndTransaction(b, "abort")
      /\ UNCHANGED <<heads, marker>>
  BY DEF Fail, Unpublished
<1>2. job[b].gen \in Generations /\ \A c \in Backends : c # b => job[c].step = "none"
  BY <1>1, RunningJob DEF Unpublished
<1>3. \A g \in Generations \ {job[b].gen} : manifests'[g] = manifests[g] /\ artifacts'[g] = artifacts[g]
  BY <1>1, <1>2 DEF IInv, Types, FileTypes
<1>4. /\ LastLoads(manifests', artifacts', heads, CommittedHeads)
      /\ LastLoads(manifests', artifacts', heads, LiveHeads)
  BY <1>1, <1>2, <1>3, OthersLoad DEF LInv, HeadsLoadable, JobFiles
<1>5. HeadsLoadable'
  BY <1>1, <1>4, EndDecides DEF HeadsLoadable
<1>6. \A c \in Backends : job'[c].step = "none"
  BY <1>1, <1>2 DEF EndTransaction, IInv, Types, BackendTypes, NoJob
<1>7. JobFiles'
  BY <1>6 DEF JobFiles, Unpublished
<1>8. Markers' /\ Levels'
  BY <1>1, EndMarkers
<1>9. QED
  BY <1>5, <1>7, <1>8 DEF LInv

\* Whoever is idle and can have the build lock finds nobody replacing anything.
LEMMA LockedIdle ==
    ASSUME IInv, NEW b \in Backends, Idle(b), LockAvailable(b)
    PROVE  \A c \in Backends : job[c].step = "none"
BY BackendsAssumption DEF IInv, Files, JobsLocked, LockAvailable, Idle, NoJob

\* The cleanup of an interrupted replacement spares the published generation.
LEMMA ReconcileLoads ==
    ASSUME Fixed \cap Publishers = {}, IInv, LInv, NEW b \in Backends, Reconcile(b)
    PROVE  LInv'
<1> DEFINE cand == marker[b].candidate
           unchanged == Published(StatementView(b)).gen = marker[b].expected
<1>1. /\ Idle(b) /\ marker[b] # NoMarker /\ heads' = heads
      /\ \A c \in Backends : marker'[c] \in {marker[c], NoMarker}
  BY DEF Reconcile, IInv, Types, BackendTypes
<1>2. /\ iso[b] = "rc" /\ cand # marker[b].expected /\ xid[b] = NoXid
      /\ cand \in Generations
  <2>1. b \in Publishers /\ cand # marker[b].expected /\ xid[b] = NoXid
    BY <1>1 DEF LInv, Markers, Idle, NoJob
  <2>2. iso[b] \in {"none", "rc", "rr"} /\ cand \in Generations
    BY <1>1 DEF IInv, Types, TxTypes, BackendTypes
  <2>3. QED
    BY <1>1, <2>1, <2>2 DEF LInv, Levels, Idle
<1>3. CASE ~unchanged
  <2>1. UNCHANGED <<manifests, artifacts>>
    BY <1>3 DEF Reconcile
  <2>2. CASE EndTransaction(b, "abort")
    BY <1>1, <2>1, <2>2, EndLoads
  <2>3. CASE UNCHANGED <<xact, txVars, job>>
    BY <1>1, <2>1, <2>3, SameHeads
       DEF LInv, HeadsLoadable, JobFiles, Markers, Levels, txVars
  <2>4. QED
    BY <2>2, <2>3 DEF Reconcile
<1>4. CASE unchanged
  <2>1. LockAvailable(b) /\ CleanupCandidate(cand)
    BY <1>4 DEF Reconcile
  <2>2. Types /\ XidsOwned /\ HeadsOwned
    BY DEF IInv, Rows
  <2>3. Latest(heads, LiveHeads) = marker[b].expected
    BY <1>2, <1>4, <2>1, <2>2, LockedView
  <2>4. LiveHeads = CommittedHeads
    <3>1. {k \in 1..Len(heads) : heads[k].xid \in CommittedXids \cup {NoXid}} = LiveHeads
      BY <1>2, <2>1, <2>2, LockedView
    <3>2. \A k \in 1..Len(heads) : heads[k].xid # NoXid
      BY <2>2 DEF HeadsOwned, NoXid, Types, TxTypes
    <3>3. QED
      BY <3>1, <3>2 DEF CommittedHeads
  <2>5. LastLoads(manifests', artifacts', heads, LiveHeads)
    <3> DEFINE v == Latest(heads, LiveHeads)
               protected  == UNION {Paths(manifests[g].refs) : g \in Manifested \ {cand}}
               candidates == {cand} \cup Paths(manifests[cand].refs)
    <3> SUFFICES ASSUME v # 0
                 PROVE  manifests'[v] = manifests[v] /\ \A r \in manifests[v].refs : artifacts'[r.gen] = artifacts[r.gen]
      BY NeededStay DEF LInv, HeadsLoadable
    <3>1. v \in Manifested /\ v # cand
      BY <1>2, <2>3 DEF LInv, HeadsLoadable, LastLoads, Loads, Latest, Manifested
    <3>2. /\ manifests' = [manifests EXCEPT ![cand] = NoManifest]
          /\ artifacts' = [g \in Generations |-> IF g \in candidates \ protected THEN 0 ELSE artifacts[g]]
      BY <2>1 DEF CleanupCandidate
    <3>3. manifests'[v] = manifests[v] /\ manifests[v] \in ManifestType
      BY <2>2, <3>1, <3>2 DEF Types, FileTypes, Manifested
    <3>4. \A r \in manifests[v].refs : r.gen \in Generations /\ r.gen \in protected
      BY <3>1, <3>3 DEF Paths, ManifestType
    <3> HIDE DEF protected, candidates
    <3>5. QED
      BY <3>2, <3>3, <3>4
  <2>6. CommittedHeads' = CommittedHeads /\ LiveHeads' = LiveHeads
    <3>1. CASE EndTransaction(b, "abort")
      BY <1>1, <2>4, <3>1, EndDecides
    <3>2. CASE UNCHANGED <<xact, txVars, job>>
      BY <1>1, <3>2, SameHeads
    <3>3. QED
      BY <3>1, <3>2 DEF Reconcile
  <2>7. HeadsLoadable'
    BY <1>1, <2>4, <2>5, <2>6 DEF HeadsLoadable
  <2>8. \A c \in Backends : job'[c].step = "none"
    BY <1>1, <2>1, LockedIdle
       DEF Reconcile, EndTransaction, IInv, Types, BackendTypes, NoJob
  <2>9. JobFiles'
    BY <2>8 DEF JobFiles, Unpublished
  <2>10. Markers' /\ Levels'
    <3>1. CASE EndTransaction(b, "abort")
      BY <1>1, <3>1, EndMarkers
    <3>2. CASE UNCHANGED <<xact, txVars, job>>
      BY <1>1, <3>2 DEF LInv, Markers, Levels, txVars
    <3>3. QED
      BY <3>1, <3>2 DEF Reconcile
  <2>11. QED
    BY <2>7, <2>9, <2>10 DEF LInv
<1>5. QED
  BY <1>3, <1>4

\* The removal horizon is not above a running xid.
LEMMA HorizonBelowRunning ==
    ASSUME IInv, NEW x \in RunningXids
    PROVE  OldestNonRemovable <= x
<1> DEFINE S == RunningXids \cup {NextXid} \cup ({snap[b].xmin : b \in Backends} \ {0})
<1>1. MaxXid \in Nat /\ TxTypes /\ Len(xact) \in Nat /\ Len(xact) <= MaxXid
  BY BackendsAssumption DEF IInv, Types, TxTypes
<1>2. \A b \in Backends : snap[b].xmin \in 0..(MaxXid + 1)
  BY <1>1 DEF TxTypes
<1>3. RunningXids \cup {NextXid} \subseteq 0..(MaxXid + 1)
  BY <1>1 DEF RunningXids, NextXid
<1>4. S \in SUBSET (0..(MaxXid + 1)) /\ x \in S
  BY <1>2, <1>3
<1>5. IsFiniteSet(0..(MaxXid + 1))
  BY <1>1, FS_Interval
<1>6. IsFiniteSet(S)
  BY <1>4, <1>5, FS_Subset
<1>7. S \in SUBSET Int /\ S # {}
  BY <1>1, <1>4
<1>8. Min(S) <= x
  BY <1>4, <1>6, <1>7, MinProperty
<1>9. QED
  BY <1>8 DEF OldestNonRemovable

\* The collector keeps the published generation.
LEMMA CollectLoads ==
    ASSUME IInv, LInv, NEW b \in Backends, NEW active \in SUBSET Manifested, Collect(b, active)
    PROVE  LInv'
<1> DEFINE head      == Published(StatementView(b))
           v         == head.gen
           protected == Retained(head.gen) \cup active
           paths     == UNION {Paths(manifests[g].refs) : g \in protected}
           dropped   == Manifested \ protected
           garbage   == UNION {manifests[g].obsolete : g \in Manifested}
                           \cup UNION {Paths(manifests[g].refs) : g \in dropped}
           intents   == {g \in dropped : \E p \in manifests[g].obsolete : p \in paths /\ artifacts[p] # 0}
<1>1. /\ Idle(b) /\ LockAvailable(b) /\ v # 0 /\ ManifestMatches(head)
      /\ iso[b] # "rr" /\ ~(OldestNonRemovable <= head.xid)
      /\ artifacts' = [g \in Generations |-> IF g \in garbage \ paths THEN 0 ELSE artifacts[g]]
      /\ manifests' = [g \in Generations |-> IF g \in dropped \ intents THEN NoManifest ELSE manifests[g]]
      /\ UNCHANGED <<xact, txVars, heads, marker, job>>
  BY DEF Collect, HistoricalGenerationsRequired
<1>2. Types /\ XidsOwned /\ HeadsOwned
  BY DEF IInv, Rows
<1>3. v = Latest(heads, LiveHeads) /\ LiveHeads # {} /\ head = heads[Max(LiveHeads)]
  <2>1. v = Latest(heads, LiveHeads)
    BY <1>1, <1>2, LockedView
  <2>2. LiveHeads # {}
    BY <1>1, <2>1 DEF Latest
  <2>3. QED
    BY <1>1, <1>2, <2>1, <2>2, LockedView
<1>4. CommittedHeads # {} /\ Max(CommittedHeads) = Max(LiveHeads)
  <2>1. Len(heads) \in Nat /\ LiveHeads \in SUBSET (1..Len(heads))
    BY <1>2 DEF Types, LiveHeads
  <2>2. Max(LiveHeads) \in LiveHeads /\ \A j \in LiveHeads : Max(LiveHeads) >= j
    BY <1>3, <2>1, IndexMax
  <2>3. heads[Max(LiveHeads)].xid \notin RunningXids
    BY <1>1, <1>3, HorizonBelowRunning
  <2>4. Max(LiveHeads) \in CommittedHeads /\ CommittedHeads \subseteq LiveHeads
    BY <2>2, <2>3 DEF CommittedHeads, LiveHeads
  <2>5. CommittedHeads \in SUBSET Int /\ \A j \in CommittedHeads : Max(LiveHeads) >= j
    BY <2>1, <2>2, <2>4
  <2>6. QED
    BY <2>4, <2>5, MaxIs
<1>5. v = Latest(heads, CommittedHeads)
  BY <1>3, <1>4 DEF Latest
<1>6. v \in Manifested
  BY <1>1 DEF ManifestMatches
<1> HIDE DEF head
<1>7. v \in protected
  <2>1. 0 \in 0..(RetentionFloor - 1)
    BY PublicationAssumption
  <2>2. v \in 0..MaxAttempts
    BY <1>6, PublicationAssumption DEF Manifested, Generations
  <2> DEFINE line == [i \in 0..0 |-> v]
  <2>3. line \in [0..0 -> 0..MaxAttempts] /\ line[0] = v /\ 0..(0 - 1) = {}
    BY <2>2
  <2>4. \A i \in 0..(0 - 1) : line[i] \in Manifested /\ line[i + 1] = manifests[line[i]].prev
    BY <2>3
  <2> HIDE DEF line
  <2>5. v \in Retained(v)
    BY <1>6, <2>1, <2>3, <2>4 DEF Retained
  <2>6. QED
    BY <2>5
<1>8. manifests'[v] = manifests[v] /\ manifests[v] \in ManifestType
  <2>1. v \in Generations /\ v \notin dropped
    BY <1>6, <1>7 DEF Manifested
  <2>2. QED
    BY <1>1, <1>2, <2>1 DEF Types, FileTypes
<1>9. \A r \in manifests[v].refs : artifacts'[r.gen] = artifacts[r.gen]
  <2>1. \A r \in manifests[v].refs : r.gen \in Generations /\ r.gen \in paths
    BY <1>7, <1>8 DEF Paths, ManifestType
  <2> HIDE DEF paths, garbage
  <2>2. QED
    BY <1>1, <2>1
<1> HIDE DEF v
<1>10. HeadsLoadable'
  <2>1. /\ LastLoads(manifests', artifacts', heads, LiveHeads)
        /\ LastLoads(manifests', artifacts', heads, CommittedHeads)
    BY <1>3, <1>5, <1>8, <1>9, NeededStay DEF LInv, HeadsLoadable
  <2>2. QED
    BY <1>1, <2>1, SameHeads DEF HeadsLoadable
<1>11. JobFiles'
  BY <1>1, LockedIdle DEF JobFiles, Unpublished
<1>12. Markers' /\ Levels'
  BY <1>1 DEF LInv, Markers, Levels, txVars
<1>13. QED
  BY <1>10, <1>11, <1>12 DEF LInv

\* reset() writes a version without a generation.
LEMMA ResetLoads ==
    ASSUME IInv, LInv, NEW b \in Backends, Reset(b)
    PROVE  LInv'
<1> DEFINE head == Published(StatementView(b))
           row  == [gen |-> 0, by |-> 0, xid |-> XidOf(b), expected |-> head.gen]
           n == Len(heads)
<1>1. /\ Idle(b) /\ LockAvailable(b) /\ buildLock' = b /\ AssignXid(b)
      /\ head = Published(CommittedXids \cup {xid[b]})
      /\ heads' = Append(heads, row)
      /\ marker' = [marker EXCEPT ![b] = NoMarker]
      /\ UNCHANGED <<iso, manifests, artifacts, job>>
  BY DEF Reset, fileVars
<1>2. Types /\ XidsOwned /\ HeadsOwned
  BY DEF IInv, Rows
<1>3. head.gen = Latest(heads, LiveHeads)
  <2>1. {k \in 1..Len(heads) : heads[k].xid \in CommittedXids \cup {xid[b]}} = LiveHeads
    BY <1>1, <1>2, LockedView
  <2>2. QED
    BY <1>1, <1>2, <2>1, PublishedType
<1> HIDE DEF head
<1>4. row.xid = XidOf(b) /\ row.expected = Latest(heads, LiveHeads) /\ row.gen = 0
  BY <1>3
<1> HIDE DEF row
<1>5. CommittedHeads' = CommittedHeads /\ LiveHeads' = LiveHeads \cup {n + 1}
  BY <1>1, <1>4, AppendKeepsRows
<1>6. HeadsLoadable'
  <2>1. LastLoads(manifests', artifacts', heads', CommittedHeads')
    BY <1>1, <1>5, AppendLast DEF LInv, HeadsLoadable, LastLoads, Latest
  <2>2. Latest(heads', LiveHeads') = 0
    BY <1>1, <1>4, <1>5, AppendLast
  <2>3. QED
    BY <2>1, <2>2 DEF HeadsLoadable, LastLoads
<1>7. JobFiles'
  BY <1>1, LockedIdle DEF JobFiles, Unpublished
<1>8. \A c \in Backends : c # b => xid'[c] = xid[c] /\ marker'[c] = marker[c]
  BY <1>1 DEF AssignXid, IInv, Types, TxTypes, BackendTypes
<1>9. marker'[b] = NoMarker
  BY <1>1 DEF IInv, Types, BackendTypes
<1>10. Markers' /\ Levels'
  BY <1>1, <1>8, <1>9 DEF LInv, Markers, Levels
<1>11. QED
  BY <1>6, <1>7, <1>10 DEF LInv

----------------------------------------------------------------------------
\* The inductive invariant of the files, on top of that of the rows.
LEMMA LoadNext ==
    ASSUME Fixed \cap Publishers = {}
    PROVE  IInv /\ LInv /\ [Next]_vars => LInv'
<1> SUFFICES ASSUME IInv, LInv, [Next]_vars PROVE LInv'
  OBVIOUS
<1>1. ASSUME NEW b \in Backends, Begin(b, "rc") PROVE LInv'
  BY <1>1, BeginLoads
<1>2. ASSUME NEW b \in Backends, Reconcile(b) PROVE LInv'
  BY <1>2, ReconcileLoads
<1>3. ASSUME NEW b \in Backends, Exit(b) PROVE LInv'
  <2>1. /\ EndTransaction(b, "abort") /\ UNCHANGED <<manifests, artifacts, heads>>
        /\ \A c \in Backends : marker'[c] \in {marker[c], NoMarker}
    BY <1>3 DEF Exit, fileVars, IInv, Types, BackendTypes
  <2>2. QED
    BY <2>1, EndLoads
<1>4. ASSUME NEW b \in Backends, NEW outcome \in {"commit", "abort"}, End(b, outcome) PROVE LInv'
  <2>1. /\ EndTransaction(b, outcome) /\ UNCHANGED <<manifests, artifacts, heads>>
        /\ \A c \in Backends : marker'[c] \in {marker[c], NoMarker}
    BY <1>4 DEF End, fileVars
  <2>2. QED
    BY <2>1, EndLoads
<1>5. ASSUME NEW b \in Fixed, Begin(b, "rr") PROVE LInv'
  BY <1>5, BeginLoads, PublicationAssumption
<1>6. ASSUME NEW b \in Publishers, Replacement(b) PROVE LInv'
  <2>1. b \in Backends
    BY PublicationAssumption
  <2>2. ASSUME NEW kind \in {"ingest", "compact", "rebuild"}, Plan(b, kind) PROVE LInv'
    BY <2>1, <2>2, PlanLoads
  <2>3. ASSUME WriteArtifacts(b) \/ StageManifest(b) \/ SwitchPointer(b) PROVE LInv'
    BY <2>1, <2>3, WriteArtifactsLoads, StageManifestLoads, SwitchPointerLoads
  <2>4. ASSUME WriteHead(b) \/ FinishReplacement(b) \/ Fail(b) PROVE LInv'
    BY <2>1, <2>4, WriteHeadLoads, FinishReplacementLoads, FailLoads
  <2>5. QED
    BY <1>6, <2>2, <2>3, <2>4 DEF Replacement
<1>7. ASSUME NEW b \in Collectors, NEW active \in SUBSET Manifested, Collect(b, active) PROVE LInv'
  BY <1>7, CollectLoads, PublicationAssumption
<1>8. ASSUME NEW b \in Resetters, Reset(b) PROVE LInv'
  BY <1>8, ResetLoads, PublicationAssumption
<1>9. CASE UNCHANGED vars
  <2>1. UNCHANGED <<xact, xid, iso, heads, marker, job, manifests, artifacts>>
    BY <1>9 DEF vars, txVars, fileVars
  <2>2. QED
    BY <2>1, SameHeads DEF LInv, HeadsLoadable, JobFiles, Markers, Levels
<1>10. QED
  BY <1>1, <1>2, <1>3, <1>4, <1>5, <1>6, <1>7, <1>8, <1>9 DEF Next

\* As long as no publisher runs under REPEATABLE READ, the published generation
\* loads: neither the errors and interruptions of later replacements, nor
\* reconcile_interrupted_replacement, nor collect_projection_garbage removes a
\* file that it references, nor does a reused id change one.  (With such a
\* publisher it is false: see the run publication_fixed_recovery.)
THEOREM PublishedFilesStay ==
    ASSUME Fixed \cap Publishers = {}
    PROVE  Spec => []CurrentLoadable
<1>1. IInv /\ LInv /\ [Next]_vars => LInv'
  BY LoadNext
<1>2. IInv /\ LInv => CurrentLoadable
  <2> SUFFICES ASSUME IInv, LInv, Published(CommittedXids).gen # 0
               PROVE  Loadable(Published(CommittedXids))
    BY DEF CurrentLoadable
  <2>1. /\ Published(CommittedXids) = heads[Max(CommittedHeads)]
        /\ Latest(heads, CommittedHeads) # 0
    BY DEF Published, NoHead, CommittedHeads, Latest
  <2>2. Loads(manifests, artifacts, heads[Max(CommittedHeads)])
    BY <2>1 DEF LInv, HeadsLoadable, LastLoads
  <2>3. QED
    BY <2>1, <2>2 DEF Loads, Loadable, ManifestMatches, Manifested
<1>3. QED
  BY <1>1, <1>2, LoadInit, IInvAlways, PTL DEF Spec

----------------------------------------------------------------------------
(***************************************************************************)
(* What a transaction with an old snapshot sees.  The head it reads is not *)
(* the published one any more, and still its files stay: a collector runs  *)
(* only when every snapshot sees the last head, and the cleanup of an      *)
(* interrupted replacement only when the head is what the replacement      *)
(* derives from, whose id is smaller than the candidate's and, as long as  *)
(* ids only grow from head to head, not smaller than any older head's.     *)
(* reset() is what breaks that order.                                      *)
(***************************************************************************)
SeenHeads(b) == {k \in 1..Len(heads) : heads[k].xid \in View(b)}

\* No version of X above those of C is a reset; the last one of X is then at
\* least as new as the last one of C.
NoReset(h, C, X) == \A k \in X : (\A j \in C : j < k) => h[k].gen # 0
Ahead(h, C, X)   == NoReset(h, C, X) => Latest(h, C) <= Latest(h, X)

\* Each head has a larger id than the one it derives from.
Ascending ==
    /\ Ahead(heads, CommittedHeads, LiveHeads)
    /\ \A b \in Backends :
          /\ marker[b] # NoMarker => marker[b].expected < marker[b].candidate
          /\ job[b].step \in Unpublished => job[b].expected < job[b].gen

\* An xid belongs to an open transaction; a fixed snapshot sees every committed
\* xid below its xmin, and none that is not committed.
Opened == \A b \in Backends : iso[b] = "none" => xid[b] = NoXid
Horizons ==
    \A b \in Backends : iso[b] = "rr" =>
        /\ snap[b].xmin \in 1..(Len(xact) + 1) /\ snap[b].vis \subseteq CommittedXids
        /\ \A x \in 1..Len(xact) : x < snap[b].xmin =>
              xact[x] # "running" /\ (xact[x] = "committed" => x \in snap[b].vis)

\* Of the versions C, X the committed ones and L those not aborted: unless the
\* graph was reset since, the last one of C loads and no replacement touches it.
Kept(m, a, h, j, C, X) ==
    NoReset(h, C, X) =>
        /\ LastLoads(m, a, h, C)
        /\ \A c \in Backends : j[c].step \in Unpublished => Spares(m, h, C, j[c].gen)
Sees(m, a, h, j, C, X, L) == Ahead(h, C, X) /\ Ahead(h, C, L) /\ Kept(m, a, h, j, C, X)

SnapshotHeads ==
    \A b \in Backends : iso[b] = "rr" =>
        Sees(manifests, artifacts, heads, job, SeenHeads(b), CommittedHeads, LiveHeads)

SInv == Ascending /\ Opened /\ Horizons /\ SnapshotHeads

LEMMA LatestType ==
    ASSUME Types, NEW C \in SUBSET (1..Len(heads))
    PROVE  Latest(heads, C) \in 0..MaxAttempts
<1>1. Len(heads) \in Nat /\ heads \in Seq(HeadType) /\ MaxAttempts \in Nat
  BY PublicationAssumption DEF Types
<1>2. C # {} => Max(C) \in 1..Len(heads)
  BY <1>1, IndexMax
<1>3. C # {} => heads[Max(C)] \in HeadType
  BY <1>1, <1>2
<1>4. QED
  BY <1>1, <1>3 DEF Latest, HeadType

\* Versions C that stay while others are committed or aborted.
LEMMA DecidedAhead ==
    ASSUME NEW C, Ahead(heads, C, CommittedHeads), Ahead(heads, C, LiveHeads), heads' = heads,
           \/ CommittedHeads' = CommittedHeads /\ LiveHeads' = LiveHeads
           \/ CommittedHeads' = LiveHeads /\ LiveHeads' = LiveHeads
           \/ CommittedHeads' = CommittedHeads /\ LiveHeads' = CommittedHeads
    PROVE  /\ Ahead(heads', C, CommittedHeads') /\ Ahead(heads', C, LiveHeads')
           /\ NoReset(heads', C, CommittedHeads') => NoReset(heads, C, CommittedHeads)
<1>1. CommittedHeads \subseteq LiveHeads
  BY DEF CommittedHeads, LiveHeads
<1>2. Ahead(heads', C, CommittedHeads') /\ Ahead(heads', C, LiveHeads')
  OBVIOUS
<1>3. NoReset(heads, C, LiveHeads) => NoReset(heads, C, CommittedHeads)
  BY <1>1 DEF NoReset
<1>4. QED
  BY <1>2, <1>3

\* Versions C that stay while a newer one, or a reset, is appended.
LEMMA AppendedAhead ==
    ASSUME IInv, NEW C \in SUBSET (1..Len(heads)), NEW row, heads' = Append(heads, row),
           Ahead(heads, C, CommittedHeads), Ahead(heads, C, LiveHeads),
           CommittedHeads' = CommittedHeads, LiveHeads' = LiveHeads \cup {Len(heads) + 1},
           row.gen = 0 \/ (row.gen \in Nat /\ row.gen > Latest(heads, LiveHeads))
    PROVE  /\ Ahead(heads', C, CommittedHeads') /\ Ahead(heads', C, LiveHeads')
           /\ NoReset(heads', C, CommittedHeads') => NoReset(heads, C, CommittedHeads)
           /\ Latest(heads', C) = Latest(heads, C)
           /\ C # {} => heads'[Max(C)] = heads[Max(C)]
<1> DEFINE n == Len(heads)
<1>1. heads \in Seq(HeadType) /\ n \in Nat /\ Types
  BY DEF IInv, Types
<1>2. heads'[n + 1] = row /\ \A k \in 1..n : heads'[k] = heads[k]
  BY <1>1
<1>3. CommittedHeads \in SUBSET (1..n) /\ LiveHeads \in SUBSET (1..n)
  BY DEF CommittedHeads, LiveHeads
<1>4. C # {} => Max(C) \in 1..n
  BY <1>1, IndexMax
<1>5. Latest(heads', C) = Latest(heads, C) /\ (C # {} => heads'[Max(C)] = heads[Max(C)])
  BY <1>2, <1>4 DEF Latest
<1>6. /\ Latest(heads', CommittedHeads) = Latest(heads, CommittedHeads)
      /\ Latest(heads', LiveHeads \cup {n + 1}) = row.gen
  BY AppendLast
<1>7. NoReset(heads', C, CommittedHeads) <=> NoReset(heads, C, CommittedHeads)
  BY <1>2, <1>3 DEF NoReset
<1>8. Ahead(heads', C, CommittedHeads')
  BY <1>5, <1>6, <1>7 DEF Ahead
<1>9. Ahead(heads', C, LiveHeads')
  <2> SUFFICES ASSUME NoReset(heads', C, LiveHeads \cup {n + 1})
               PROVE  Latest(heads, C) <= row.gen
    BY <1>5, <1>6 DEF Ahead
  <2>1. \A j \in C : j < n + 1
    BY <1>1
  <2>2. row.gen # 0
    BY <1>2, <2>1 DEF NoReset
  <2>3. NoReset(heads, C, LiveHeads)
    BY <1>2, <1>3 DEF NoReset
  <2>4. Latest(heads, C) <= Latest(heads, LiveHeads)
    BY <2>3 DEF Ahead
  <2>5. Latest(heads, C) \in Nat /\ Latest(heads, LiveHeads) \in Nat
    BY <1>1, <1>3, LatestType
  <2>6. QED
    BY <2>2, <2>4, <2>5
<1>10. QED
  BY <1>5, <1>7, <1>8, <1>9

\* The last head's id is below the one that the next candidate gets.
LEMMA NextAbove ==
    ASSUME Types, NEW g \in Manifested
    PROVE  g < NextGeneration
<1> DEFINE R == {0} \cup Manifested \cup {x \in Generations : artifacts[x] # 0}
<1>1. MaxAttempts \in Nat
  BY PublicationAssumption
<1>2. R \in SUBSET (0..MaxAttempts) /\ g \in R
  BY <1>1 DEF Manifested, Generations
<1>3. IsFiniteSet(0..MaxAttempts)
  BY <1>1, FS_Interval
<1>4. IsFiniteSet(R) /\ R \in SUBSET Int
  BY <1>1, <1>2, <1>3, FS_Subset
<1>5. Max(R) \in R /\ Max(R) >= g
  <2>1. R # {}
    BY <1>2
  <2> HIDE DEF R
  <2>2. QED
    BY <1>2, <1>4, <2>1, MaxProperty
<1>6. NextGeneration = 1 + Max(R)
  BY DEF NextGeneration
<1>7. g \in Int /\ Max(R) \in Int
  BY <1>2, <1>4, <1>5
<1> HIDE DEF R
<1>8. QED
  BY <1>5, <1>6, <1>7

\* Ids keep growing: a step that starts no replacement and writes no head.
LEMMA QuietAscends ==
    ASSUME IInv, Ascending, heads' = heads,
           \/ CommittedHeads' = CommittedHeads /\ LiveHeads' = LiveHeads
           \/ CommittedHeads' = LiveHeads /\ LiveHeads' = LiveHeads
           \/ CommittedHeads' = CommittedHeads /\ LiveHeads' = CommittedHeads,
           \A c \in Backends : marker'[c] \in {marker[c], NoMarker},
           \A c \in Backends : job'[c].step \in Unpublished =>
               /\ job[c].step \in Unpublished
               /\ job'[c].gen = job[c].gen /\ job'[c].expected = job[c].expected
    PROVE  Ascending'
<1>1. Ahead(heads', CommittedHeads', LiveHeads')
  <2>1. Latest(heads, LiveHeads) \in 0..MaxAttempts /\ Latest(heads, CommittedHeads) \in 0..MaxAttempts
    BY LatestType DEF IInv, CommittedHeads, LiveHeads
  <2>2. Ahead(heads, LiveHeads, LiveHeads) /\ Ahead(heads, CommittedHeads, CommittedHeads)
    BY <2>1, PublicationAssumption DEF Ahead
  <2>3. QED
    BY <2>2 DEF Ascending
<1>2. QED
  BY <1>1 DEF Ascending

LEMMA PlanAscends ==
    ASSUME IInv, Ascending, NEW b \in Backends, NEW kind \in {"ingest", "compact", "rebuild"},
           Plan(b, kind)
    PROVE  Ascending'
<1> DEFINE head == Published(StatementView(b))
           gen  == NextGeneration
<1>1. /\ head.gen # 0 => Loadable(head)
      /\ marker' = [marker EXCEPT ![b] = [expected |-> head.gen, candidate |-> gen]]
      /\ \A c \in Backends : c # b => job'[c] = job[c]
      /\ job'[b].gen = gen /\ job'[b].expected = head.gen
      /\ UNCHANGED <<xact, heads>> /\ attempts < MaxAttempts
  BY DEF Plan, fileVars, IInv, Types, BackendTypes
<1>2. head.gen < gen
  <2>1. Types /\ FilesBounded
    BY DEF IInv, Types, Files
  <2>2. gen \in 1..(attempts + 1) /\ attempts \in Nat
    BY <2>1, NextGenerationFresh DEF Types, BackendTypes
  <2>3. head.gen # 0 => head.gen \in Manifested
    BY <1>1 DEF Loadable, ManifestMatches
  <2>4. QED
    BY <2>1, <2>2, <2>3, NextAbove
<1> HIDE DEF head, gen
<1>3. \A c \in Backends : marker'[c] = IF c = b THEN [expected |-> head.gen, candidate |-> gen]
                                       ELSE marker[c]
  BY <1>1 DEF IInv, Types, BackendTypes
<1>4. Ahead(heads', CommittedHeads', LiveHeads')
  BY <1>1, SameHeads DEF Ascending
<1>5. QED
  BY <1>1, <1>2, <1>3, <1>4 DEF Ascending

\* A head is written for a candidate above the last head, or removes it.
LEMMA AppendAscends ==
    ASSUME IInv, Ascending, NEW row, heads' = Append(heads, row),
           CommittedHeads' = CommittedHeads, LiveHeads' = LiveHeads \cup {Len(heads) + 1},
           row.gen = 0 \/ (row.gen \in Nat /\ row.gen > Latest(heads, LiveHeads)),
           \A c \in Backends : marker'[c] \in {marker[c], NoMarker},
           \A c \in Backends : job'[c].step \in Unpublished => job'[c] = job[c]
    PROVE  Ascending'
<1>1. Ahead(heads, CommittedHeads, CommittedHeads)
  BY LatestType DEF IInv, CommittedHeads, Ahead
<1>2. CommittedHeads \in SUBSET (1..Len(heads))
  BY DEF CommittedHeads
<1>3. Ahead(heads', CommittedHeads, LiveHeads')
  BY <1>1, <1>2, AppendedAhead DEF Ascending
<1>4. QED
  BY <1>3 DEF Ascending

LEMMA WriteHeadRow ==
    ASSUME IInv, LInv, Ascending, NEW b \in Backends, WriteHead(b)
    PROVE  \E row : /\ heads' = Append(heads, row) /\ row.xid = XidOf(b)
                    /\ row.gen \in Nat /\ row.gen > Latest(heads, LiveHeads)
                    /\ CommittedHeads' = CommittedHeads /\ LiveHeads' = LiveHeads \cup {Len(heads) + 1}
<1> DEFINE row == [gen |-> job[b].gen, by |-> job[b].by, xid |-> XidOf(b), expected |-> job[b].expected]
<1>1. /\ job[b].step = "switched" /\ AssignXid(b) /\ heads' = Append(heads, row)
      /\ UNCHANGED buildLock
  BY DEF WriteHead
<1>2. /\ buildLock' = b /\ LockAvailable(b) /\ job[b].gen \in Generations
  BY <1>1, RunningJob
<1>3. job[b].expected = Latest(heads, LiveHeads)
  BY <1>1 DEF IInv, Rows, JobsCurrent
<1>4. row.gen \in Nat /\ row.gen > Latest(heads, LiveHeads)
  BY <1>1, <1>2, <1>3, PublicationAssumption DEF Ascending, Unpublished, Generations
<1>5. row.xid = XidOf(b) /\ row.expected = Latest(heads, LiveHeads)
  BY <1>3
<1> HIDE DEF row
<1>6. CommittedHeads' = CommittedHeads /\ LiveHeads' = LiveHeads \cup {Len(heads) + 1}
  BY <1>1, <1>2, <1>5, AppendKeepsRows
<1>7. QED
  BY <1>1, <1>4, <1>5, <1>6

LEMMA ResetRow ==
    ASSUME IInv, NEW b \in Backends, Reset(b)
    PROVE  \E row : /\ heads' = Append(heads, row) /\ row.xid = XidOf(b) /\ row.gen = 0
                    /\ CommittedHeads' = CommittedHeads /\ LiveHeads' = LiveHeads \cup {Len(heads) + 1}
<1> DEFINE head == Published(StatementView(b))
           row  == [gen |-> 0, by |-> 0, xid |-> XidOf(b), expected |-> head.gen]
<1>1. /\ LockAvailable(b) /\ buildLock' = b /\ AssignXid(b)
      /\ head = Published(CommittedXids \cup {xid[b]})
      /\ heads' = Append(heads, row)
  BY DEF Reset
<1>2. Types /\ XidsOwned /\ HeadsOwned
  BY DEF IInv, Rows
<1>3. head.gen = Latest(heads, LiveHeads)
  BY <1>1, <1>2, LockedView, PublishedType
<1> HIDE DEF head
<1>4. row.xid = XidOf(b) /\ row.expected = Latest(heads, LiveHeads) /\ row.gen = 0
  BY <1>3
<1> HIDE DEF row
<1>5. CommittedHeads' = CommittedHeads /\ LiveHeads' = LiveHeads \cup {Len(heads) + 1}
  BY <1>1, <1>4, AppendKeepsRows
<1>6. QED
  BY <1>1, <1>4, <1>5

----------------------------------------------------------------------------
\* Every step keeps the order of the ids.
LEMMA AscendingNext ==
    ASSUME Fixed \cap Publishers = {}, IInv, LInv, Ascending, [Next]_vars
    PROVE  Ascending'
<1> DEFINE Fewer == /\ \A c \in Backends : marker'[c] \in {marker[c], NoMarker}
                    /\ \A c \in Backends : job'[c] \in {job[c], NoJob}
<1>1. ASSUME Fewer
      PROVE  \A c \in Backends : job'[c].step \in Unpublished => job'[c] = job[c]
  BY <1>1 DEF NoJob, Unpublished
<1>2. ASSUME NEW b \in Backends, NEW outcome \in {"commit", "abort"}, EndTransaction(b, outcome),
             heads' = heads, \A c \in Backends : marker'[c] \in {marker[c], NoMarker}
      PROVE  Ascending'
  <2>1. Fewer
    BY <1>2 DEF EndTransaction, IInv, Types, BackendTypes
  <2>2. QED
    BY <1>1, <1>2, <2>1, EndDecides, QuietAscends
<1>3. ASSUME UNCHANGED <<xact, heads>>, Fewer PROVE Ascending'
  BY <1>1, <1>3, SameHeads, QuietAscends
<1>4. ASSUME NEW b \in Backends, Begin(b, "rc") \/ Begin(b, "rr") PROVE Ascending'
  BY <1>3, <1>4 DEF Begin
<1>5. ASSUME NEW b \in Backends, NEW outcome \in {"commit", "abort"}, End(b, outcome) PROVE Ascending'
  BY <1>2, <1>5 DEF End
<1>6. ASSUME NEW b \in Backends, Exit(b) PROVE Ascending'
  BY <1>2, <1>6 DEF Exit, IInv, Types, BackendTypes
<1>7. ASSUME NEW b \in Backends, Reconcile(b) PROVE Ascending'
  <2>1. heads' = heads /\ \A c \in Backends : marker'[c] \in {marker[c], NoMarker}
    BY <1>7 DEF Reconcile, IInv, Types, BackendTypes
  <2>2. CASE EndTransaction(b, "abort")
    BY <1>2, <2>1, <2>2
  <2>3. CASE UNCHANGED <<xact, txVars, job>>
    BY <1>3, <2>1, <2>3
  <2>4. QED
    BY <1>7, <2>2, <2>3 DEF Reconcile
<1>8. ASSUME NEW b \in Backends, NEW kind \in {"ingest", "compact", "rebuild"}, Plan(b, kind)
      PROVE  Ascending'
  BY <1>8, PlanAscends
<1>9. ASSUME NEW b \in Backends, WriteArtifacts(b) \/ StageManifest(b) \/ SwitchPointer(b)
      PROVE  Ascending'
  <2>1. /\ UNCHANGED <<xact, heads, marker>> /\ job[b].step \in Unpublished
        /\ \E step \in {"written", "staged", "switched"} : Advance(b, step)
    BY <1>9 DEF WriteArtifacts, StageManifest, SwitchPointer, Unpublished
  <2>2. \A c \in Backends : job'[c].step \in Unpublished =>
            /\ job[c].step \in Unpublished
            /\ job'[c].gen = job[c].gen /\ job'[c].expected = job[c].expected
    BY <2>1 DEF Advance, IInv, Types, BackendTypes, JobType
  <2>3. QED
    BY <2>1, <2>2, SameHeads, QuietAscends
<1>10. ASSUME NEW b \in Backends, WriteHead(b) PROVE Ascending'
  <2>1. marker' = marker /\ job' = [job EXCEPT ![b].step = "published"]
    BY <1>10 DEF WriteHead, Advance
  <2>2. \A c \in Backends : job'[c].step \in Unpublished => job'[c] = job[c]
    BY <2>1 DEF Unpublished, IInv, Types, BackendTypes, JobType
  <2>3. QED
    BY <1>10, <2>1, <2>2, WriteHeadRow, AppendAscends
<1>11. ASSUME NEW b \in Backends, FinishReplacement(b) PROVE Ascending'
  BY <1>3, <1>11 DEF FinishReplacement, IInv, Types, BackendTypes
<1>12. ASSUME NEW b \in Backends, Fail(b) PROVE Ascending'
  BY <1>2, <1>12 DEF Fail
<1>13. ASSUME NEW b \in Backends, NEW active \in SUBSET Manifested, Collect(b, active)
       PROVE  Ascending'
  BY <1>3, <1>13 DEF Collect
<1>14. ASSUME NEW b \in Backends, Reset(b) PROVE Ascending'
  <2>1. job' = job /\ \A c \in Backends : marker'[c] \in {marker[c], NoMarker}
    BY <1>14 DEF Reset, IInv, Types, BackendTypes
  <2>2. QED
    BY <1>14, <2>1, ResetRow, AppendAscends
<1>15. CASE UNCHANGED vars
  BY <1>3, <1>15 DEF vars
<1>16. QED
  BY <1>4, <1>5, <1>6, <1>7, <1>8, <1>9, <1>10, <1>11, <1>12, <1>13, <1>14, <1>15,
     PublicationAssumption DEF Next, Replacement

\* Only a statement of an open transaction assigns an xid.
LEMMA OpenedNext ==
    ASSUME IInv, Opened, [Next]_vars
    PROVE  Opened'
<1>1. TxTypes /\ JobsLocked
  BY DEF IInv, Types, Files
<1>2. ASSUME NEW b \in Backends, NEW level \in {"rc", "rr"}, Begin(b, level) PROVE Opened'
  BY <1>1, <1>2 DEF Begin, Opened, TxTypes
<1>3. ASSUME NEW b \in Backends, NEW outcome \in {"commit", "abort"}, EndTransaction(b, outcome)
      PROVE  Opened'
  BY <1>1, <1>3 DEF EndTransaction, FinishXact, Opened, TxTypes
<1>4. ASSUME NEW b \in Backends, iso[b] # "none", AssignXid(b), iso' = iso PROVE Opened'
  BY <1>1, <1>4 DEF AssignXid, Opened, TxTypes
<1>5. ASSUME UNCHANGED <<iso, xid>> PROVE Opened'
  BY <1>5 DEF Opened
<1>6. ASSUME NEW b \in Backends, Reconcile(b) PROVE Opened'
  BY <1>3, <1>5, <1>6 DEF Reconcile, txVars
<1>7. ASSUME NEW b \in Backends, WriteHead(b) PROVE Opened'
  <2>1. iso[b] = "rc" /\ AssignXid(b) /\ iso' = iso
    BY <1>1, <1>7 DEF WriteHead, JobsLocked
  <2>2. QED
    BY <1>4, <2>1
<1>8. ASSUME NEW b \in Backends, Reset(b) PROVE Opened'
  BY <1>4, <1>8 DEF Reset, Idle
<1>9. ASSUME NEW b \in Backends, Exit(b) \/ Fail(b) \/ End(b, "commit") \/ End(b, "abort")
      PROVE  Opened'
  BY <1>3, <1>9 DEF Exit, Fail, End
<1>10. ASSUME NEW b \in Backends, NEW kind \in {"ingest", "compact", "rebuild"}, Plan(b, kind)
       PROVE  Opened'
  BY <1>5, <1>10 DEF Plan
<1>11. ASSUME NEW b \in Backends,
              WriteArtifacts(b) \/ StageManifest(b) \/ SwitchPointer(b) \/ FinishReplacement(b)
       PROVE  Opened'
  BY <1>5, <1>11 DEF WriteArtifacts, StageManifest, SwitchPointer, FinishReplacement, txVars
<1>12. ASSUME NEW b \in Backends, NEW active \in SUBSET Manifested, Collect(b, active)
       PROVE  Opened'
  BY <1>5, <1>12 DEF Collect, txVars
<1>13. CASE UNCHANGED vars
  BY <1>5, <1>13 DEF vars, txVars
<1>14. QED
  BY <1>2, <1>6, <1>7, <1>8, <1>9, <1>10, <1>11, <1>12, <1>13,
     PublicationAssumption DEF Next, Replacement

\* A fixed snapshot sees the same xids whatever the other transactions do.
LEMMA HorizonsNext ==
    ASSUME IInv, LInv, Horizons, [Next]_vars
    PROVE  Horizons'
<1>1. TxTypes /\ XidsOwned /\ Types /\ JobsLocked /\ Len(xact) \in Nat
  BY DEF IInv, Types, Rows, Files, TxTypes
<1>2. ASSUME NEW b \in Backends, NEW level \in {"rc", "rr"}, Begin(b, level) PROVE Horizons'
  <2>1. /\ iso[b] = "none" /\ iso' = [iso EXCEPT ![b] = level] /\ xact' = xact
        /\ snap' = [snap EXCEPT ![b] =
                      IF level = "rr" THEN [xmin |-> Min(RunningXids \cup {NextXid}), vis |-> CommittedXids]
                      ELSE NoSnapshot]
    BY <1>2 DEF Begin
  <2> DEFINE R == RunningXids \cup {NextXid}
  <2>2. R \in SUBSET (1..(Len(xact) + 1)) /\ R \in SUBSET Int /\ R # {}
    BY <1>1 DEF RunningXids, NextXid
  <2>3. IsFiniteSet(R)
    <3> HIDE DEF R
    <3>1. IsFiniteSet(1..(Len(xact) + 1))
      BY <1>1, FS_Interval
    <3>2. QED
      BY <2>2, <3>1, FS_Subset
  <2>4. Min(R) \in R /\ \A x \in R : Min(R) <= x
    <3> HIDE DEF R
    <3>1. QED
      BY <2>2, <2>3, MinProperty
  <2>5. Min(R) \in 1..(Len(xact) + 1) /\ \A x \in RunningXids : ~(x < Min(R))
    <3>1. Min(R) \in 1..(Len(xact) + 1)
      BY <2>2, <2>4
    <3>2. \A x \in RunningXids : x \in Int /\ Min(R) <= x
      BY <2>2, <2>4
    <3> HIDE DEF R
    <3>3. QED
      BY <1>1, <3>1, <3>2
  <2>6. \A x \in 1..Len(xact) : x < Min(R) =>
            xact[x] # "running" /\ (xact[x] = "committed" => x \in CommittedXids)
    BY <2>5 DEF RunningXids, CommittedXids
  <2> HIDE DEF R
  <2>7. CommittedXids' = CommittedXids
    BY <2>1 DEF CommittedXids
  <2> SUFFICES ASSUME NEW d \in Backends, iso'[d] = "rr"
               PROVE  /\ snap'[d].xmin \in 1..(Len(xact) + 1) /\ snap'[d].vis \subseteq CommittedXids
                      /\ \A x \in 1..Len(xact) : x < snap'[d].xmin =>
                            xact[x] # "running" /\ (xact[x] = "committed" => x \in snap'[d].vis)
    BY <2>1, <2>7 DEF Horizons
  <2>8. CASE d = b
    <3>1. snap'[d] = [xmin |-> Min(R), vis |-> CommittedXids]
      BY <1>1, <2>1, <2>8 DEF TxTypes, R
    <3>2. QED
      BY <2>5, <2>6, <3>1
  <2>9. CASE d # b
    BY <1>1, <2>1, <2>9 DEF Horizons, TxTypes
  <2>10. QED
    BY <2>8, <2>9
<1>3. ASSUME NEW b \in Backends, NEW outcome \in {"commit", "abort"}, EndTransaction(b, outcome)
      PROVE  Horizons'
  <2> DEFINE final == IF outcome = "commit" THEN "committed" ELSE "aborted"
  <2>1. /\ xact' = IF xid[b] = NoXid THEN xact ELSE [xact EXCEPT ![xid[b]] = final]
        /\ iso' = [iso EXCEPT ![b] = "none"]
        /\ snap' = [snap EXCEPT ![b] = NoSnapshot]
    BY <1>3 DEF EndTransaction, FinishXact
  <2>2. xid[b] # NoXid => xid[b] \in 1..Len(xact) /\ xact[xid[b]] = "running"
    BY <1>1 DEF XidsOwned
  <2>3. /\ Len(xact') = Len(xact)
        /\ \A x \in 1..Len(xact) : xact'[x] = xact[x] \/ xact[x] = "running"
    BY <1>1, <2>1, <2>2 DEF TxTypes
  <2>4. CommittedXids \subseteq CommittedXids'
    BY <2>3 DEF CommittedXids
  <2>5. QED
    BY <1>1, <2>1, <2>3, <2>4 DEF Horizons, TxTypes
<1>4. ASSUME NEW b \in Backends, AssignXid(b), UNCHANGED <<iso, snap>> PROVE Horizons'
  <2>1. xact' = xact \/ xact' = Append(xact, "running")
    BY <1>4 DEF AssignXid, WithXid
  <2>2. /\ Len(xact') \in Nat /\ Len(xact') >= Len(xact)
        /\ \A x \in 1..Len(xact) : xact'[x] = xact[x]
        /\ \A x \in 1..Len(xact') : x \in 1..Len(xact) \/ x >= Len(xact) + 1
    BY <1>1, <2>1 DEF TxTypes
  <2>3. CommittedXids \subseteq CommittedXids'
    BY <2>2 DEF CommittedXids
  <2>4. ASSUME NEW d \in Backends, iso[d] = "rr"
        PROVE  /\ snap[d].xmin \in 1..(Len(xact') + 1)
               /\ snap[d].vis \subseteq CommittedXids'
               /\ \A x \in 1..Len(xact') : x < snap[d].xmin =>
                     xact'[x] # "running" /\ (xact'[x] = "committed" => x \in snap[d].vis)
    <3>1. snap[d].xmin \in 1..(Len(xact) + 1) /\ snap[d].vis \subseteq CommittedXids
      BY <2>4 DEF Horizons
    <3>2. ASSUME NEW x \in 1..Len(xact'), x < snap[d].xmin PROVE x \in 1..Len(xact)
      BY <1>1, <2>2, <3>1, <3>2
    <3>3. QED
      BY <1>1, <2>2, <2>3, <2>4, <3>1, <3>2 DEF Horizons
  <2>5. QED
    BY <1>4, <2>4 DEF Horizons
<1>5. ASSUME UNCHANGED <<xact, iso>>, \A d \in Backends : iso[d] = "rr" => snap'[d] = snap[d]
      PROVE  Horizons'
  BY <1>5 DEF Horizons, CommittedXids
<1>6. ASSUME NEW b \in Backends, Reconcile(b) PROVE Horizons'
  BY <1>3, <1>5, <1>6 DEF Reconcile, txVars
<1>7. ASSUME NEW b \in Backends, NEW kind \in {"ingest", "compact", "rebuild"}, Plan(b, kind)
      PROVE  Horizons'
  BY <1>1, <1>5, <1>7 DEF Plan, RegisterSnapshot, TxTypes
<1>8. ASSUME NEW b \in Backends, FinishReplacement(b) PROVE Horizons'
  <2>1. iso[b] = "rc" /\ UNCHANGED <<xact, iso>> /\ KeepSnapshot(b)
    BY <1>1, <1>8 DEF FinishReplacement, JobsLocked
  <2>2. QED
    BY <1>1, <1>5, <2>1 DEF KeepSnapshot, TxTypes
<1>9. ASSUME NEW b \in Backends, WriteArtifacts(b) \/ StageManifest(b) \/ SwitchPointer(b)
      PROVE  Horizons'
  BY <1>5, <1>9 DEF WriteArtifacts, StageManifest, SwitchPointer, txVars
<1>10. ASSUME NEW b \in Backends, NEW active \in SUBSET Manifested, Collect(b, active)
       PROVE  Horizons'
  BY <1>5, <1>10 DEF Collect, txVars
<1>11. ASSUME NEW b \in Backends, WriteHead(b) \/ Reset(b) PROVE Horizons'
  BY <1>4, <1>11 DEF WriteHead, Reset
<1>12. ASSUME NEW b \in Backends, Exit(b) \/ Fail(b) \/ End(b, "commit") \/ End(b, "abort")
       PROVE  Horizons'
  BY <1>3, <1>12 DEF Exit, Fail, End
<1>13. CASE UNCHANGED vars
  BY <1>5, <1>13 DEF vars, txVars
<1>14. QED
  BY <1>2, <1>6, <1>7, <1>8, <1>9, <1>10, <1>11, <1>12, <1>13,
     PublicationAssumption DEF Next, Replacement

----------------------------------------------------------------------------
\* A backend with a fixed snapshot sees the heads it saw.
LEMMA SeenStay ==
    ASSUME NEW d \in Backends, iso[d] = "rr", iso'[d] = "rr", snap'[d] = snap[d], xid'[d] = xid[d],
           heads' = heads
    PROVE  SeenHeads(d)' = SeenHeads(d)
BY DEF SeenHeads, View

\* It sees nothing that is aborted.
LEMMA SeenLive ==
    ASSUME IInv, Horizons, NEW d \in Backends, iso[d] = "rr"
    PROVE  SeenHeads(d) \subseteq LiveHeads /\ SeenHeads(d) \in SUBSET (1..Len(heads))
<1>1. snap[d].vis \subseteq CommittedXids
  BY DEF Horizons
<1>2. xid[d] # NoXid => xid[d] \in RunningXids
  BY DEF IInv, Rows, XidsOwned, RunningXids
<1>3. QED
  BY <1>1, <1>2 DEF SeenHeads, View, LiveHeads

\* What a transaction sees loads on when no head is written and the step spares
\* the files it needs.
LEMMA QuietSees ==
    ASSUME IInv, NEW C, heads' = heads,
           Sees(manifests, artifacts, heads, job, C, CommittedHeads, LiveHeads),
           \/ CommittedHeads' = CommittedHeads /\ LiveHeads' = LiveHeads
           \/ CommittedHeads' = LiveHeads /\ LiveHeads' = LiveHeads
           \/ CommittedHeads' = CommittedHeads /\ LiveHeads' = CommittedHeads,
           NoReset(heads, C, CommittedHeads) =>
               /\ LastLoads(manifests', artifacts', heads, C)
               /\ \A c \in Backends : job'[c].step \in Unpublished =>
                     Spares(manifests', heads, C, job'[c].gen)
    PROVE  Sees(manifests', artifacts', heads', job', C, CommittedHeads', LiveHeads')
<1>1. /\ Ahead(heads', C, CommittedHeads') /\ Ahead(heads', C, LiveHeads')
      /\ NoReset(heads', C, CommittedHeads') => NoReset(heads, C, CommittedHeads)
  BY DecidedAhead DEF Sees
<1>2. QED
  BY <1>1 DEF Sees, Kept

\* Files as they are, and no new replacement.
LEMMA SameFilesSee ==
    ASSUME IInv, NEW C, UNCHANGED <<heads, manifests, artifacts>>,
           Sees(manifests, artifacts, heads, job, C, CommittedHeads, LiveHeads),
           \/ CommittedHeads' = CommittedHeads /\ LiveHeads' = LiveHeads
           \/ CommittedHeads' = LiveHeads /\ LiveHeads' = LiveHeads
           \/ CommittedHeads' = CommittedHeads /\ LiveHeads' = CommittedHeads,
           \A c \in Backends : job'[c].step \in Unpublished =>
               job[c].step \in Unpublished /\ job'[c].gen = job[c].gen
    PROVE  Sees(manifests', artifacts', heads', job', C, CommittedHeads', LiveHeads')
<1>1. NoReset(heads, C, CommittedHeads) =>
          /\ LastLoads(manifests', artifacts', heads, C)
          /\ \A c \in Backends : job'[c].step \in Unpublished =>
                Spares(manifests', heads, C, job'[c].gen)
  BY DEF Sees, Kept
<1>2. QED
  BY <1>1, QuietSees

\* The files of the only replacement under way change.
LEMMA CandidateFilesSee ==
    ASSUME IInv, NEW C, heads' = heads,
           Sees(manifests, artifacts, heads, job, C, CommittedHeads, LiveHeads),
           \/ CommittedHeads' = CommittedHeads /\ LiveHeads' = LiveHeads
           \/ CommittedHeads' = LiveHeads /\ LiveHeads' = LiveHeads
           \/ CommittedHeads' = CommittedHeads /\ LiveHeads' = CommittedHeads,
           NEW b \in Backends, job[b].step \in Unpublished,
           \A x \in Generations \ {job[b].gen} : manifests'[x] = manifests[x] /\ artifacts'[x] = artifacts[x],
           \A c \in Backends : job'[c].step \in Unpublished => c = b /\ job'[c].gen = job[b].gen
    PROVE  Sees(manifests', artifacts', heads', job', C, CommittedHeads', LiveHeads')
<1>1. job[b].gen \in Generations
  BY RunningJob DEF Unpublished
<1>2. ASSUME NoReset(heads, C, CommittedHeads)
      PROVE  LastLoads(manifests', artifacts', heads, C) /\ Spares(manifests', heads, C, job[b].gen)
  BY <1>1, <1>2, OthersLoad DEF Sees, Kept
<1>3. QED
  BY <1>2, QuietSees

\* A newer head, or a reset, is written.
LEMMA AppendSees ==
    ASSUME IInv, NEW C \in SUBSET (1..Len(heads)),
           Sees(manifests, artifacts, heads, job, C, CommittedHeads, LiveHeads),
           NEW row, heads' = Append(heads, row),
           CommittedHeads' = CommittedHeads, LiveHeads' = LiveHeads \cup {Len(heads) + 1},
           row.gen = 0 \/ (row.gen \in Nat /\ row.gen > Latest(heads, LiveHeads)),
           UNCHANGED <<manifests, artifacts>>,
           \A c \in Backends : job'[c].step \in Unpublished => job'[c] = job[c]
    PROVE  Sees(manifests', artifacts', heads', job', C, CommittedHeads', LiveHeads')
<1>1. /\ Ahead(heads', C, CommittedHeads') /\ Ahead(heads', C, LiveHeads')
      /\ NoReset(heads', C, CommittedHeads') => NoReset(heads, C, CommittedHeads)
      /\ Latest(heads', C) = Latest(heads, C)
      /\ C # {} => heads'[Max(C)] = heads[Max(C)]
  BY AppendedAhead DEF Sees
<1>2. Latest(heads, C) # 0 => C # {}
  BY DEF Latest
<1>3. QED
  BY <1>1, <1>2 DEF Sees, Kept, LastLoads, Spares

\* The snapshot of a transaction that begins sees what is committed.
LEMMA BeginSees ==
    ASSUME IInv, LInv, Ascending, Opened, SnapshotHeads, NEW b \in Backends, NEW level \in {"rc", "rr"},
           Begin(b, level)
    PROVE  SnapshotHeads'
<1>1. /\ iso[b] = "none" /\ iso' = [iso EXCEPT ![b] = level]
      /\ snap' = [snap EXCEPT ![b] =
                    IF level = "rr" THEN [xmin |-> Min(RunningXids \cup {NextXid}), vis |-> CommittedXids]
                    ELSE NoSnapshot]
      /\ UNCHANGED <<xact, xid, heads, manifests, artifacts, job>>
  BY DEF Begin, fileVars
<1>2. TxTypes /\ Types /\ XidsOwned
  BY DEF IInv, Types, Rows
<1>3. CommittedHeads' = CommittedHeads /\ LiveHeads' = LiveHeads
  BY <1>1, SameHeads
<1> SUFFICES ASSUME NEW d \in Backends, iso'[d] = "rr"
             PROVE  Sees(manifests', artifacts', heads', job', SeenHeads(d)', CommittedHeads', LiveHeads')
  BY DEF SnapshotHeads
<1>4. CASE d # b
  <2>1. iso[d] = "rr" /\ snap'[d] = snap[d] /\ xid'[d] = xid[d]
    BY <1>1, <1>2, <1>4 DEF TxTypes
  <2>2. SeenHeads(d)' = SeenHeads(d)
    BY <1>1, <2>1, SeenStay
  <2>3. QED
    BY <1>1, <1>3, <2>1, <2>2, SameFilesSee DEF SnapshotHeads
<1>5. CASE d = b
  <2> DEFINE C == CommittedHeads
  <2>1. SeenHeads(d)' = C
    <3>1. View(d)' = CommittedXids \cup ({xid[d]} \ {NoXid})
      BY <1>1, <1>2, <1>5 DEF TxTypes, View
    <3>2. xid[d] = NoXid
      BY <1>1, <1>5 DEF Opened
    <3>3. QED
      BY <1>1, <3>1, <3>2 DEF SeenHeads, CommittedHeads
  <2>2. Ahead(heads, C, CommittedHeads) /\ Ahead(heads, C, LiveHeads)
    BY <1>2, LatestType, PublicationAssumption DEF Ascending, Ahead, CommittedHeads
  <2>3. Sees(manifests, artifacts, heads, job, C, CommittedHeads, LiveHeads)
    BY <2>2 DEF Sees, Kept, LInv, HeadsLoadable, JobFiles
  <2>4. QED
    BY <1>1, <1>3, <2>1, <2>3
<1>6. QED
  BY <1>4, <1>5

\* Whoever has a fixed snapshot after a step that is not its BEGIN had it before.
LEMMA StaysOpen ==
    ASSUME IInv, NEW b \in Backends,
           \/ \E outcome \in {"commit", "abort"} : EndTransaction(b, outcome)
           \/ UNCHANGED <<iso, xid>> /\ \A c \in Backends : iso[c] = "rr" => snap'[c] = snap[c],
           NEW d \in Backends, iso'[d] = "rr"
    PROVE  iso[d] = "rr" /\ snap'[d] = snap[d] /\ xid'[d] = xid[d]
BY DEF EndTransaction, FinishXact, IInv, Types, TxTypes

\* The end of a transaction that leaves the files alone.
LEMMA EndSees ==
    ASSUME IInv, SnapshotHeads, NEW b \in Backends, NEW outcome \in {"commit", "abort"},
           EndTransaction(b, outcome), UNCHANGED <<heads, manifests, artifacts>>
    PROVE  SnapshotHeads'
<1>1. \A c \in Backends : job'[c].step \in Unpublished =>
          job[c].step \in Unpublished /\ job'[c].gen = job[c].gen
  BY DEF EndTransaction, IInv, Types, BackendTypes, NoJob, Unpublished
<1> SUFFICES ASSUME NEW d \in Backends, iso'[d] = "rr"
             PROVE  Sees(manifests', artifacts', heads', job', SeenHeads(d)', CommittedHeads', LiveHeads')
  BY DEF SnapshotHeads
<1>2. iso[d] = "rr" /\ SeenHeads(d)' = SeenHeads(d)
  BY StaysOpen, SeenStay
<1>3. QED
  BY <1>1, <1>2, EndDecides, SameFilesSee DEF SnapshotHeads

\* A step within a transaction that leaves rows and files alone and starts nothing.
LEMMA StillSees ==
    ASSUME IInv, SnapshotHeads, NEW b \in Backends,
           UNCHANGED <<xact, iso, xid, heads, manifests, artifacts>>,
           \A c \in Backends : iso[c] = "rr" => snap'[c] = snap[c],
           \A c \in Backends : job'[c].step \in Unpublished =>
               job[c].step \in Unpublished /\ job'[c].gen = job[c].gen
    PROVE  SnapshotHeads'
<1> SUFFICES ASSUME NEW d \in Backends, iso'[d] = "rr"
             PROVE  Sees(manifests', artifacts', heads', job', SeenHeads(d)', CommittedHeads', LiveHeads')
  BY DEF SnapshotHeads
<1>1. iso[d] = "rr" /\ SeenHeads(d)' = SeenHeads(d)
  BY StaysOpen, SeenStay
<1>2. QED
  BY <1>1, SameHeads, SameFilesSee DEF SnapshotHeads

\* A new candidate has an id that no visible head needs.
LEMMA PlanSees ==
    ASSUME IInv, SnapshotHeads, NEW b \in Backends,
           NEW kind \in {"ingest", "compact", "rebuild"}, Plan(b, kind)
    PROVE  SnapshotHeads'
<1> DEFINE gen == NextGeneration
<1>1. /\ iso[b] = "rc" /\ job'[b].gen = gen /\ RegisterSnapshot(b) /\ attempts < MaxAttempts
      /\ \A c \in Backends : c # b => job'[c] = job[c]
      /\ UNCHANGED <<xact, iso, xid, heads, manifests, artifacts>>
  BY DEF Plan, fileVars, IInv, Types, BackendTypes
<1>2. \A c \in Backends : iso[c] = "rr" => snap'[c] = snap[c]
  BY <1>1 DEF RegisterSnapshot, IInv, Types, TxTypes
<1>3. gen \in Generations /\ gen \notin Manifested /\ artifacts[gen] = 0
  <2>1. Types /\ FilesBounded /\ MaxAttempts \in Nat /\ attempts \in 0..MaxAttempts
    BY PublicationAssumption DEF IInv, Types, Files, BackendTypes
  <2>2. gen \in 1..(attempts + 1)
    BY <2>1, NextGenerationFresh
  <2>3. gen \in Generations
    BY <1>1, <2>1, <2>2 DEF Generations
  <2>4. QED
    BY <2>1, <2>3, NextGenerationFresh
<1> HIDE DEF gen
<1> SUFFICES ASSUME NEW d \in Backends, iso'[d] = "rr"
             PROVE  Sees(manifests', artifacts', heads', job', SeenHeads(d)', CommittedHeads', LiveHeads')
  BY DEF SnapshotHeads
<1> DEFINE C == SeenHeads(d)
<1>4. iso[d] = "rr" /\ SeenHeads(d)' = C
  BY <1>1, <1>2, StaysOpen, SeenStay
<1>5. Sees(manifests, artifacts, heads, job, C, CommittedHeads, LiveHeads)
  BY <1>4 DEF SnapshotHeads
<1> HIDE DEF C
<1>6. ASSUME NoReset(heads, C, CommittedHeads)
      PROVE  /\ LastLoads(manifests', artifacts', heads, C)
             /\ \A c \in Backends : job'[c].step \in Unpublished => Spares(manifests', heads, C, job'[c].gen)
  <2>1. /\ LastLoads(manifests, artifacts, heads, C)
        /\ \A c \in Backends : job[c].step \in Unpublished => Spares(manifests, heads, C, job[c].gen)
    BY <1>5, <1>6 DEF Sees, Kept
  <2>2. Spares(manifests, heads, C, gen)
    BY <1>3, <2>1, FreshSpared
  <2>3. QED
    BY <1>1, <2>1, <2>2
<1>7. QED
  BY <1>1, <1>4, <1>5, <1>6, SameHeads, QuietSees

\* Writing and staging a candidate touch its own files.
LEMMA CreateSees ==
    ASSUME IInv, SnapshotHeads, NEW b \in Backends, WriteArtifacts(b) \/ StageManifest(b)
    PROVE  SnapshotHeads'
<1>1. /\ job[b].step \in Unpublished /\ UNCHANGED <<xact, txVars, heads>>
      /\ \E step \in {"written", "staged"} : Advance(b, step)
      /\ \/ /\ artifacts' = [artifacts EXCEPT ![job[b].gen] = job[b].by]
            /\ manifests' = manifests
         \/ /\ manifests' = [manifests EXCEPT ![job[b].gen] = job[b].manifest]
            /\ artifacts' = artifacts
  BY DEF WriteArtifacts, StageManifest, Unpublished
<1>2. job[b].gen \in Generations /\ \A c \in Backends : c # b => job[c].step = "none"
  BY <1>1, RunningJob DEF Unpublished
<1>3. \A x \in Generations \ {job[b].gen} : manifests'[x] = manifests[x] /\ artifacts'[x] = artifacts[x]
  BY <1>1, <1>2 DEF IInv, Types, FileTypes
<1>4. \A c \in Backends : job'[c].step \in Unpublished => c = b /\ job'[c].gen = job[b].gen
  BY <1>1, <1>2 DEF Advance, Unpublished, IInv, Types, BackendTypes, JobType
<1> SUFFICES ASSUME NEW d \in Backends, iso'[d] = "rr"
             PROVE  Sees(manifests', artifacts', heads', job', SeenHeads(d)', CommittedHeads', LiveHeads')
  BY DEF SnapshotHeads
<1>5. iso[d] = "rr" /\ SeenHeads(d)' = SeenHeads(d)
  BY <1>1, StaysOpen, SeenStay DEF txVars
<1>6. QED
  BY <1>1, <1>3, <1>4, <1>5, SameHeads, CandidateFilesSee DEF SnapshotHeads

\* A failure removes files of its own candidate.
LEMMA FailSees ==
    ASSUME IInv, SnapshotHeads, NEW b \in Backends, Fail(b)
    PROVE  SnapshotHeads'
<1>1. /\ job[b].step \in Unpublished
      /\ manifests' \in {manifests, [manifests EXCEPT ![job[b].gen] = NoManifest]}
      /\ artifacts' \in {artifacts, [artifacts EXCEPT ![job[b].gen] = 0]}
      /\ EndTransaction(b, "abort") /\ heads' = heads
  BY DEF Fail, Unpublished
<1>2. job[b].gen \in Generations /\ \A c \in Backends : c # b => job[c].step = "none"
  BY <1>1, RunningJob DEF Unpublished
<1>3. \A x \in Generations \ {job[b].gen} : manifests'[x] = manifests[x] /\ artifacts'[x] = artifacts[x]
  BY <1>1, <1>2 DEF IInv, Types, FileTypes
<1>4. \A c \in Backends : job'[c].step \notin Unpublished
  BY <1>1, <1>2 DEF EndTransaction, IInv, Types, BackendTypes, NoJob, Unpublished
<1> SUFFICES ASSUME NEW d \in Backends, iso'[d] = "rr"
             PROVE  Sees(manifests', artifacts', heads', job', SeenHeads(d)', CommittedHeads', LiveHeads')
  BY DEF SnapshotHeads
<1>5. iso[d] = "rr" /\ SeenHeads(d)' = SeenHeads(d)
  BY <1>1, StaysOpen, SeenStay
<1>6. QED
  BY <1>1, <1>3, <1>4, <1>5, EndDecides, CandidateFilesSee DEF SnapshotHeads

\* The candidate that a cleanup removes is above every head that a snapshot still
\* sees, unless the graph was reset since.
LEMMA ReconcileSees ==
    ASSUME Fixed \cap Publishers = {}, IInv, LInv, Ascending, Horizons, SnapshotHeads,
           NEW b \in Backends, Reconcile(b)
    PROVE  SnapshotHeads'
<1> DEFINE cand == marker[b].candidate
           unchanged == Published(StatementView(b)).gen = marker[b].expected
<1>1. /\ Idle(b) /\ marker[b] # NoMarker /\ heads' = heads
      /\ \/ EndTransaction(b, "abort")
         \/ UNCHANGED <<xact, txVars, job>>
  BY DEF Reconcile
<1>2. CASE ~unchanged
  <2>1. UNCHANGED <<manifests, artifacts>>
    BY <1>2 DEF Reconcile
  <2>2. CASE EndTransaction(b, "abort")
    BY <1>1, <2>1, <2>2, EndSees
  <2>3. CASE UNCHANGED <<xact, txVars, job>>
    BY <1>1, <2>1, <2>3, StillSees DEF txVars
  <2>4. QED
    BY <1>1, <2>2, <2>3
<1>3. CASE unchanged
  <2>1. LockAvailable(b) /\ CleanupCandidate(cand)
    BY <1>3 DEF Reconcile
  <2>2. b \in Publishers /\ xid[b] = NoXid /\ iso[b] # "rr"
    BY <1>1 DEF LInv, Markers, Levels, Idle, NoJob
  <2>3. Types /\ XidsOwned /\ HeadsOwned
    BY DEF IInv, Rows
  <2>4. Latest(heads, LiveHeads) = marker[b].expected
    BY <1>3, <2>1, <2>2, <2>3, LockedView
  <2>5. Latest(heads, LiveHeads) < cand
    BY <1>1, <2>4 DEF Ascending
  <2>6. \A c \in Backends : job'[c].step \notin Unpublished
    BY <1>1, <2>1, LockedIdle DEF Unpublished, EndTransaction, IInv, Types, BackendTypes, NoJob
  <2>7. LiveHeads = CommittedHeads
    <3>1. {k \in 1..Len(heads) : heads[k].xid \in CommittedXids \cup {NoXid}} = LiveHeads
      BY <2>1, <2>2, <2>3, LockedView
    <3>2. \A k \in 1..Len(heads) : heads[k].xid # NoXid
      BY <2>3 DEF HeadsOwned, NoXid, Types, TxTypes
    <3>3. QED
      BY <3>1, <3>2 DEF CommittedHeads
  <2> SUFFICES ASSUME NEW d \in Backends, iso'[d] = "rr"
               PROVE  Sees(manifests', artifacts', heads', job', SeenHeads(d)', CommittedHeads', LiveHeads')
    BY DEF SnapshotHeads
  <2> DEFINE C == SeenHeads(d)
             v == Latest(heads, C)
  <2>8. iso[d] = "rr" /\ SeenHeads(d)' = C
    BY <1>1, StaysOpen, SeenStay DEF txVars
  <2>9. Sees(manifests, artifacts, heads, job, C, CommittedHeads, LiveHeads) /\ C \in SUBSET (1..Len(heads))
    BY <2>8, SeenLive DEF SnapshotHeads
  <2> HIDE DEF C
  <2>10. ASSUME NoReset(heads, C, CommittedHeads)
         PROVE  LastLoads(manifests', artifacts', heads, C)
    <3>1. LastLoads(manifests, artifacts, heads, C) /\ v <= Latest(heads, LiveHeads)
      BY <2>7, <2>9, <2>10 DEF Sees, Kept, Ahead
    <3> SUFFICES ASSUME v # 0
                 PROVE  /\ manifests'[v] = manifests[v]
                        /\ \A r \in manifests[v].refs : artifacts'[r.gen] = artifacts[r.gen]
      BY <3>1, NeededStay
    <3>2. v # cand
      <4>1. v \in 0..MaxAttempts /\ Latest(heads, LiveHeads) \in 0..MaxAttempts
        BY <2>3, <2>9, LatestType DEF LiveHeads
      <4>2. cand \in Generations
        BY <1>1 DEF IInv, Types, BackendTypes
      <4>3. QED
        BY <2>5, <3>1, <4>1, <4>2, PublicationAssumption DEF Generations
    <3>3. v \in Manifested
      BY <3>1 DEF LastLoads, Loads, Latest, Manifested
    <3> DEFINE protected  == UNION {Paths(manifests[g].refs) : g \in Manifested \ {cand}}
               candidates == {cand} \cup Paths(manifests[cand].refs)
    <3>4. /\ manifests' = [manifests EXCEPT ![cand] = NoManifest]
          /\ artifacts' = [g \in Generations |-> IF g \in candidates \ protected THEN 0 ELSE artifacts[g]]
      BY <2>1 DEF CleanupCandidate
    <3> HIDE DEF v, cand
    <3>5. manifests'[v] = manifests[v] /\ manifests[v] \in ManifestType
      BY <2>3, <3>2, <3>3, <3>4 DEF Types, FileTypes, Manifested
    <3>6. \A r \in manifests[v].refs : r.gen \in Generations /\ r.gen \in protected
      BY <3>2, <3>3, <3>5 DEF Paths, ManifestType
    <3> HIDE DEF protected, candidates
    <3>7. QED
      BY <3>4, <3>5, <3>6
  <2>11. QED
    <3>1. CASE EndTransaction(b, "abort")
      BY <1>1, <2>6, <2>8, <2>9, <2>10, <3>1, EndDecides, QuietSees
    <3>2. CASE UNCHANGED <<xact, txVars, job>>
      BY <1>1, <2>6, <2>8, <2>9, <2>10, <3>2, SameHeads, QuietSees
    <3>3. QED
      BY <1>1, <3>1, <3>2
<1>4. QED
  BY <1>2, <1>3

\* The removal horizon is not above the xmin of a live snapshot.
LEMMA HorizonBelowSnapshots ==
    ASSUME IInv, NEW d \in Backends, snap[d].xmin # 0
    PROVE  OldestNonRemovable \in Nat /\ OldestNonRemovable <= snap[d].xmin
<1> DEFINE S == RunningXids \cup {NextXid} \cup ({snap[b].xmin : b \in Backends} \ {0})
<1>1. MaxXid \in Nat /\ TxTypes /\ Len(xact) \in Nat /\ Len(xact) <= MaxXid
  BY BackendsAssumption DEF IInv, Types, TxTypes
<1>2. \A b \in Backends : snap[b].xmin \in 0..(MaxXid + 1)
  BY <1>1 DEF TxTypes
<1>3. RunningXids \cup {NextXid} \subseteq 0..(MaxXid + 1)
  BY <1>1 DEF RunningXids, NextXid
<1>4. S \in SUBSET (0..(MaxXid + 1)) /\ snap[d].xmin \in S
  BY <1>2, <1>3
<1>5. IsFiniteSet(0..(MaxXid + 1))
  BY <1>1, FS_Interval
<1>6. IsFiniteSet(S)
  BY <1>4, <1>5, FS_Subset
<1>7. S \in SUBSET Int /\ S # {}
  BY <1>1, <1>4
<1>8. Min(S) \in S /\ Min(S) <= snap[d].xmin
  <2>1. snap[d].xmin \in S
    BY <1>4
  <2> HIDE DEF S
  <2>2. QED
    BY <1>6, <1>7, <2>1, MinProperty
<1>9. Min(S) \in Nat /\ Min(S) <= snap[d].xmin
  BY <1>4, <1>8
<1>10. QED
  BY <1>9 DEF OldestNonRemovable

\* The collector runs only when every snapshot sees the last head.
LEMMA CollectSees ==
    ASSUME IInv, LInv, Horizons, SnapshotHeads, LInv', NEW b \in Backends,
           NEW active \in SUBSET Manifested, Collect(b, active)
    PROVE  SnapshotHeads'
<1> DEFINE head == Published(StatementView(b))
<1>1. /\ Idle(b) /\ LockAvailable(b) /\ head.gen # 0
      /\ iso[b] # "rr" /\ ~(OldestNonRemovable <= head.xid)
      /\ UNCHANGED <<xact, txVars, heads, marker, job>>
  BY DEF Collect, HistoricalGenerationsRequired
<1>2. Types /\ XidsOwned /\ HeadsOwned /\ heads \in Seq(HeadType) /\ Len(heads) \in Nat
  BY DEF IInv, Rows, Types
<1>3. LiveHeads # {} /\ head = heads[Max(LiveHeads)]
  <2>1. head.gen = Latest(heads, LiveHeads)
    BY <1>1, <1>2, LockedView
  <2>2. LiveHeads # {}
    BY <1>1, <2>1 DEF Latest
  <2>3. QED
    BY <1>1, <1>2, <2>2, LockedView
<1>4. Max(LiveHeads) \in LiveHeads /\ \A j \in LiveHeads : Max(LiveHeads) >= j
  BY <1>2, <1>3, IndexMax DEF LiveHeads
<1>5. heads[Max(LiveHeads)].xid \in CommittedXids
  BY <1>1, <1>3, <1>4, HorizonBelowRunning DEF LiveHeads
<1>6. \A c \in Backends : job'[c].step \notin Unpublished
  BY <1>1, LockedIdle DEF Unpublished
<1> SUFFICES ASSUME NEW d \in Backends, iso'[d] = "rr"
             PROVE  Sees(manifests', artifacts', heads', job', SeenHeads(d)', CommittedHeads', LiveHeads')
  BY DEF SnapshotHeads
<1> DEFINE C == SeenHeads(d)
<1>7. iso[d] = "rr" /\ SeenHeads(d)' = C
  BY <1>1, SeenStay DEF txVars
<1>8. heads[Max(LiveHeads)].xid \in snap[d].vis
  <2> DEFINE x == heads[Max(LiveHeads)].xid
  <2>1. x \in 1..Len(xact) /\ xact[x] = "committed" /\ Len(xact) \in Nat
    BY <1>2, <1>5 DEF CommittedXids, Types, TxTypes
  <2>2. snap[d].xmin \in 1..(Len(xact) + 1)
    BY <1>7 DEF Horizons
  <2>3. OldestNonRemovable \in Nat /\ OldestNonRemovable <= snap[d].xmin /\ ~(OldestNonRemovable <= x)
    BY <1>1, <1>3, <2>1, <2>2, HorizonBelowSnapshots
  <2> HIDE DEF x
  <2>4. x < snap[d].xmin
    BY <2>1, <2>2, <2>3
  <2>5. QED
    BY <1>7, <2>1, <2>4 DEF Horizons, x
<1>9. C \subseteq LiveHeads /\ Max(LiveHeads) \in C
  BY <1>4, <1>7, <1>8, SeenLive DEF SeenHeads, View, LiveHeads
<1>10. Max(C) = Max(LiveHeads) /\ C # {}
  BY <1>2, <1>4, <1>9, MaxIs DEF LiveHeads
<1>11. Sees(manifests, artifacts, heads, job, C, CommittedHeads, LiveHeads)
  BY <1>7 DEF SnapshotHeads
<1> HIDE DEF C
<1>12. CommittedHeads' = CommittedHeads /\ LiveHeads' = LiveHeads
  BY <1>1, SameHeads
<1>13. LastLoads(manifests', artifacts', heads, C)
  BY <1>1, <1>3, <1>10, <1>12 DEF LInv, HeadsLoadable, LastLoads, Latest
<1>14. QED
  BY <1>1, <1>6, <1>7, <1>11, <1>12, <1>13, QuietSees

\* Others write their heads under xids that no snapshot sees, and a backend that
\* resets under a fixed snapshot sees no generation any more.
LEMMA AppendSeen ==
    ASSUME IInv, Horizons, SnapshotHeads, NEW b \in Backends, AssignXid(b), UNCHANGED <<iso, snap>>,
           NEW row, heads' = Append(heads, row), row.xid = XidOf(b),
           CommittedHeads' = CommittedHeads, LiveHeads' = LiveHeads \cup {Len(heads) + 1},
           row.gen = 0 \/ (iso[b] # "rr" /\ row.gen \in Nat /\ row.gen > Latest(heads, LiveHeads)),
           UNCHANGED <<manifests, artifacts>>,
           \A c \in Backends : job'[c].step \in Unpublished => job'[c] = job[c]
    PROVE  SnapshotHeads'
<1> DEFINE n == Len(heads)
<1>1. TxTypes /\ XidsOwned /\ HeadsOwned /\ heads \in Seq(HeadType) /\ n \in Nat /\ Len(xact) \in Nat
  BY DEF IInv, Types, Rows, TxTypes
<1>2. /\ Len(heads') = n + 1 /\ heads'[n + 1] = row
      /\ \A k \in 1..n : heads'[k] = heads[k]
      /\ \A k \in 1..(n + 1) : k \in 1..n \/ k = n + 1
  BY <1>1
<1>3. /\ xid'[b] = XidOf(b) /\ \A c \in Backends : c # b => xid'[c] = xid[c]
      /\ XidOf(b) = xid[b] \/ XidOf(b) = Len(xact) + 1
  BY <1>1 DEF AssignXid, XidOf, NextXid, TxTypes
<1> SUFFICES ASSUME NEW d \in Backends, iso[d] = "rr"
             PROVE  Sees(manifests', artifacts', heads', job', SeenHeads(d)', CommittedHeads', LiveHeads')
  BY DEF SnapshotHeads
<1> DEFINE C == SeenHeads(d)
<1>4. Sees(manifests, artifacts, heads, job, C, CommittedHeads, LiveHeads) /\ C \in SUBSET (1..n)
  BY SeenLive DEF SnapshotHeads
<1>5. CASE d # b
  <2>1. View(d)' = View(d)
    BY <1>3, <1>5 DEF View
  <2>2. row.xid \notin View(d)
    <3>1. \A x \in snap[d].vis : x \in 1..Len(xact) /\ xact[x] = "committed"
      BY DEF Horizons, CommittedXids
    <3>2. xid[d] # NoXid => xid[d] \in 1..Len(xact)
      BY <1>1 DEF XidsOwned
    <3>3. XidOf(b) # NoXid
      BY <1>1 DEF XidOf, NextXid, NoXid
    <3>4. XidOf(b) \notin snap[d].vis
      BY <1>1, <1>3, <3>1, <3>3 DEF XidsOwned
    <3>5. XidOf(b) = xid[d] => xid[d] = NoXid
      BY <1>1, <1>3, <1>5, <3>2, <3>3 DEF XidsOwned
    <3>6. QED
      BY <3>3, <3>4, <3>5 DEF View
  <2>3. SeenHeads(d)' = C
    BY <1>2, <2>1, <2>2 DEF SeenHeads
  <2> HIDE DEF C
  <2>4. QED
    BY <1>4, <2>3, AppendSees
<1>6. CASE d = b
  <2> DEFINE D == SeenHeads(d)'
  <2>1. D \in SUBSET (1..(n + 1)) /\ n + 1 \in D
    <3>1. XidOf(b) # NoXid
      BY <1>1 DEF XidOf, NextXid, NoXid
    <3>2. XidOf(b) \in View(d)'
      BY <1>3, <1>6, <3>1 DEF View
    <3>3. QED
      BY <1>2, <3>2 DEF SeenHeads
  <2> HIDE DEF D
  <2>2. D \in SUBSET Int /\ \A y \in D : n + 1 >= y
    BY <1>1, <2>1
  <2>3. Max(D) = n + 1
    BY <2>1, <2>2, MaxIs
  <2>4. Latest(heads', D) = 0
    BY <1>2, <1>6, <2>1, <2>3 DEF Latest
  <2>5. Latest(heads', CommittedHeads') \in Nat /\ Latest(heads', LiveHeads') \in Nat
    <3>1. Latest(heads, CommittedHeads) \in 0..MaxAttempts
      BY LatestType DEF IInv, CommittedHeads
    <3>2. /\ Latest(heads', CommittedHeads) = Latest(heads, CommittedHeads)
          /\ Latest(heads', LiveHeads \cup {n + 1}) = row.gen
      BY AppendLast
    <3>3. QED
      BY <3>1, <3>2
  <2>6. Sees(manifests', artifacts', heads', job', D, CommittedHeads', LiveHeads')
    BY <2>4, <2>5 DEF Sees, Kept, Ahead, LastLoads, Spares
  <2>7. QED
    BY <2>6 DEF D
<1>7. QED
  BY <1>5, <1>6

LEMMA SnapshotsNext ==
    ASSUME Fixed \cap Publishers = {}, IInv, LInv, SInv, LInv', [Next]_vars
    PROVE  SnapshotHeads'
<1>1. Ascending /\ Opened /\ Horizons /\ SnapshotHeads
  BY DEF SInv
<1>2. ASSUME NEW b \in Backends, Begin(b, "rc") \/ Begin(b, "rr") PROVE SnapshotHeads'
  BY <1>1, <1>2, BeginSees
<1>3. ASSUME NEW b \in Backends, Exit(b) \/ End(b, "commit") \/ End(b, "abort") PROVE SnapshotHeads'
  BY <1>1, <1>3, EndSees DEF Exit, End, fileVars
<1>4. ASSUME NEW b \in Backends, Reconcile(b) PROVE SnapshotHeads'
  BY <1>1, <1>4, ReconcileSees
<1>5. ASSUME NEW b \in Backends, NEW kind \in {"ingest", "compact", "rebuild"}, Plan(b, kind)
      PROVE  SnapshotHeads'
  BY <1>1, <1>5, PlanSees
<1>6. ASSUME NEW b \in Backends, WriteArtifacts(b) \/ StageManifest(b) PROVE SnapshotHeads'
  BY <1>1, <1>6, CreateSees
<1>7. ASSUME NEW b \in Backends, SwitchPointer(b) PROVE SnapshotHeads'
  <2>1. /\ UNCHANGED <<xact, txVars, heads, manifests, artifacts>>
        /\ job[b].step = "staged" /\ job' = [job EXCEPT ![b].step = "switched"]
    BY <1>7 DEF SwitchPointer, Advance
  <2>2. \A c \in Backends : job'[c].step \in Unpublished =>
            job[c].step \in Unpublished /\ job'[c].gen = job[c].gen
    BY <2>1 DEF Unpublished, IInv, Types, BackendTypes, JobType
  <2>3. QED
    BY <1>1, <2>1, <2>2, StillSees DEF txVars
<1>8. ASSUME NEW b \in Backends, FinishReplacement(b) PROVE SnapshotHeads'
  <2>1. /\ UNCHANGED <<xact, iso, xid, heads, manifests, artifacts>>
        /\ job' = [job EXCEPT ![b] = NoJob] /\ KeepSnapshot(b) /\ job[b].step = "published"
    BY <1>8 DEF FinishReplacement, fileVars
  <2>2. iso[b] = "rc"
    BY <2>1, RunningJob
  <2>3. \A c \in Backends : iso[c] = "rr" => snap'[c] = snap[c]
    BY <2>1, <2>2 DEF KeepSnapshot, IInv, Types, TxTypes
  <2>4. \A c \in Backends : job'[c].step \in Unpublished =>
            job[c].step \in Unpublished /\ job'[c].gen = job[c].gen
    BY <2>1 DEF Unpublished, IInv, Types, BackendTypes, NoJob
  <2>5. QED
    BY <1>1, <2>1, <2>3, <2>4, StillSees
<1>9. ASSUME NEW b \in Backends, Fail(b) PROVE SnapshotHeads'
  BY <1>1, <1>9, FailSees
<1>10. ASSUME NEW b \in Backends, NEW active \in SUBSET Manifested, Collect(b, active)
       PROVE  SnapshotHeads'
  BY <1>1, <1>10, CollectSees
<1>11. ASSUME NEW b \in Backends, WriteHead(b) PROVE SnapshotHeads'
  <2>1. /\ AssignXid(b) /\ UNCHANGED <<iso, snap, manifests, artifacts>>
        /\ job' = [job EXCEPT ![b].step = "published"] /\ job[b].step = "switched"
    BY <1>11 DEF WriteHead, fileVars, Advance
  <2>2. iso[b] # "rr"
    BY <2>1, RunningJob
  <2>3. \A c \in Backends : job'[c].step \in Unpublished => job'[c] = job[c]
    BY <2>1 DEF Unpublished, IInv, Types, BackendTypes, JobType
  <2>4. QED
    BY <1>1, <1>11, <2>1, <2>2, <2>3, WriteHeadRow, AppendSeen
<1>12. ASSUME NEW b \in Backends, Reset(b) PROVE SnapshotHeads'
  <2>1. AssignXid(b) /\ UNCHANGED <<iso, snap, manifests, artifacts, job>>
    BY <1>12 DEF Reset, fileVars
  <2>2. QED
    BY <1>1, <1>12, <2>1, ResetRow, AppendSeen
<1>13. CASE UNCHANGED vars
  <2>1. UNCHANGED <<xact, txVars, heads, manifests, artifacts, job>>
    BY <1>13 DEF vars, fileVars
  <2> SUFFICES ASSUME NEW d \in Backends, iso'[d] = "rr"
               PROVE  Sees(manifests', artifacts', heads', job', SeenHeads(d)', CommittedHeads', LiveHeads')
    BY DEF SnapshotHeads
  <2>2. iso[d] = "rr" /\ SeenHeads(d)' = SeenHeads(d)
    BY <2>1, SeenStay DEF txVars
  <2>3. QED
    BY <1>1, <2>1, <2>2, SameHeads DEF SnapshotHeads
<1>14. QED
  BY <1>2, <1>3, <1>4, <1>5, <1>6, <1>7, <1>8, <1>9, <1>10, <1>11, <1>12, <1>13,
     PublicationAssumption DEF Next, Replacement

LEMMA SnapshotsInit == Init => SInv
<1> SUFFICES ASSUME Init PROVE SInv
  OBVIOUS
<1>1. heads = << >> /\ Len(heads) = 0
  BY DEF Init
<1>2. CommittedHeads = {} /\ LiveHeads = {}
  BY <1>1 DEF CommittedHeads, LiveHeads
<1>3. Ahead(heads, CommittedHeads, LiveHeads)
  BY <1>2 DEF Ahead, Latest
<1>4. \A b \in Backends : marker[b] = NoMarker /\ job[b].step = "none" /\ iso[b] = "none" /\ xid[b] = NoXid
  BY DEF Init, TxInit, NoJob
<1>5. QED
  BY <1>3, <1>4 DEF SInv, Ascending, Opened, Horizons, SnapshotHeads, Unpublished

\* As long as no publisher runs under REPEATABLE READ, the generation that each
\* transaction sees loads, however old its snapshot: neither ingestion, rebuild,
\* compaction and their failures, nor reconcile_interrupted_replacement, nor
\* collect_projection_garbage removes a file it references, until somebody resets
\* the graph.
THEOREM VisibleFilesStay ==
    ASSUME Fixed \cap Publishers = {}
    PROVE  Spec => []VisibleHeadsLoadable
<1>1. IInv /\ LInv /\ [Next]_vars => LInv'
  BY LoadNext
<1>2. IInv /\ LInv /\ SInv /\ LInv' /\ [Next]_vars => SInv'
  BY AscendingNext, OpenedNext, HorizonsNext, SnapshotsNext DEF SInv
<1>3. IInv /\ LInv /\ SInv => VisibleHeadsLoadable
  <2> SUFFICES ASSUME IInv, LInv, SInv, NEW b \in Backends,
                      Published(View(b)).gen # 0, ~ResetSince(View(b))
               PROVE  Loadable(Published(View(b)))
    BY DEF VisibleHeadsLoadable
  <2> DEFINE C == SeenHeads(b)
  <2>1. Published(View(b)) = heads[Max(C)] /\ Latest(heads, C) # 0
    BY DEF SeenHeads, Published, NoHead, Latest
  <2>2. LastLoads(manifests, artifacts, heads, C)
    <3>1. CASE iso[b] = "rr"
      <4>1. NoReset(heads, C, CommittedHeads)
        BY DEF SeenHeads, ResetSince, NoReset, CommittedHeads
      <4>2. QED
        BY <3>1, <4>1 DEF SInv, SnapshotHeads, Sees, Kept
    <3>2. CASE iso[b] # "rr"
      <4>1. View(b) = CommittedXids \cup ({xid[b]} \ {NoXid})
        BY <3>2 DEF View
      <4>2. CASE LockAvailable(b)
        <5>1. {k \in 1..Len(heads) : heads[k].xid \in CommittedXids \cup {xid[b]}} = LiveHeads
          BY <4>2, LockedView DEF IInv, Rows
        <5>2. \A k \in 1..Len(heads) : heads[k].xid # NoXid
          BY DEF IInv, Rows, HeadsOwned, NoXid, Types, TxTypes
        <5>3. C = LiveHeads
          BY <4>1, <5>1, <5>2 DEF SeenHeads
        <5>4. QED
          BY <5>3 DEF LInv, HeadsLoadable
      <4>3. CASE ~LockAvailable(b)
        <5>1. buildLock \in Backends /\ buildLock # b
          BY <4>3 DEF LockAvailable, IInv, Types, BackendTypes
        <5>2. \A k \in 1..Len(heads) : xid[b] # NoXid => heads[k].xid # xid[b]
          BY <5>1 DEF IInv, Rows, HeadsOwned, XidsOwned
        <5>3. C = CommittedHeads
          BY <4>1, <5>2 DEF SeenHeads, CommittedHeads
        <5>4. QED
          BY <5>3 DEF LInv, HeadsLoadable
      <4>4. QED
        BY <4>2, <4>3
    <3>3. QED
      BY <3>1, <3>2
  <2> HIDE DEF C
  <2>3. Loads(manifests, artifacts, heads[Max(C)])
    BY <2>1, <2>2 DEF LastLoads
  <2>4. QED
    BY <2>1, <2>3 DEF Loads, Loadable, ManifestMatches, Manifested
<1>4. QED
  BY <1>1, <1>2, <1>3, LoadInit, SnapshotsInit, IInvAlways, PTL DEF Spec
==============================================================================
