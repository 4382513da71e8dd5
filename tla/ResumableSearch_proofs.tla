------------------------ MODULE ResumableSearch_proofs ------------------------
(***************************************************************************)
(* Proofs about the resumable searches, for any relationships, requests,   *)
(* page sizes, key budgets and verdicts: batches fit, and nothing is read  *)
(* before PostgreSQL has shown it.                                         *)
(*                                                                         *)
(* What a machine may hold depends on its kind; the steps are operators,   *)
(* so each is shown to lead from a good machine to a good machine.         *)
(***************************************************************************)
EXTENDS ResumableSearch, SetLemmas

RowType  == [to : Nodes, id : Nat, w : Nat, ok : BOOLEAN]
CandType == [from : Nodes, to : Nodes, id : Nat, w : Nat]
ScanType == [active : Nodes \cup {NoNode}, cursor : Nat, pending : Seq(RowType), last : BOOLEAN]

\* Requests have positive pages and key budgets.
ReqType ==
    [kind : {"bfs", "dfs", "single", "bidirectional", "dijkstra"}, source : Nodes, target : Nodes,
     maxDepth : Int, maxNodes : Nat, maxFrontier : Nat, page : Nat \ {0}, keys : Nat \ {0}]

States == {"endpoints", "candidates", "visibility", "complete"}
Depths == [Nodes -> Int]
Parents == [Nodes -> Nodes \cup {NoNode}]

\* A node that PostgreSQL has shown, or cannot hide; it stays so.
Settled(dec, hid) ==
    {n \in Nodes : <<"node", n>> \notin hid /\ (<<"node", n>> \in Hideable => <<"node", n>> \in dec)}

\* Page and batch of a machine; the node that is read is one of S.
ScanOK(scan, req, S) ==
    scan \in ScanType /\ scan.active \in S \cup {NoNode} /\ Len(scan.pending) <= req.page
BatchOK(batch, req) ==
    batch \in Seq(CandType) /\ Len(batch) <= req.page /\ Len(batch) <= req.keys
Paged(m, req, S) ==
    /\ ScanOK(m.scan, req, S) /\ BatchOK(m.batch, req)
    /\ m.batch = <<>> <=> m.state # "visibility"

\* A traversal whose frontier is in S.
TraversalType(S) ==
    [state : States \ {"endpoints"}, frontier : Seq(S), depth : Depths, parent : Parents,
     truncated : BOOLEAN, scan : ScanType, batch : Seq(CandType)]
TreeAgrees(m) ==
    \A n \in Nodes : m.depth[n] >= -1 /\ (m.depth[n] >= 0 <=> m.parent[n] \in Nodes)
TraversalOK(m, req, S) == m \in TraversalType(S) /\ TreeAgrees(m) /\ Paged(m, req, S)

\* The path searches: S holds the endpoints that were shown, what waits to be read
\* and, of a search from both ends, only what waits once both endpoints were shown.
SideType(S) == [frontier : Seq(S), depth : Depths, parent : Parents]
SingleType(S) ==
    [state : States, scan : ScanType, batch : Seq(CandType),
     batchKind : {"none", "endpoints", "adjacency"}, endpointCursor : Nat,
     endpointHidden : BOOLEAN, found : BOOLEAN, tree : SideType(S)]
BothType(S) ==
    [state : States, scan : ScanType, batch : Seq(CandType),
     batchKind : {"none", "endpoints", "adjacency"}, endpointCursor : Nat,
     endpointHidden : BOOLEAN, found : BOOLEAN, forward : SideType(S), backward : SideType(S),
     side : {"none", "forward", "backward"}, levelRemaining : Nat, round : Int,
     meet : Nodes \cup {NoNode}, best : Int]
DijkstraType(S) ==
    [state : States, scan : ScanType, batch : Seq(CandType),
     batchKind : {"none", "endpoints", "adjacency"}, endpointCursor : Nat,
     endpointHidden : BOOLEAN, found : BOOLEAN, dist : [Nodes -> Nat], parent : Parents,
     heap : SUBSET (Nat \X S)]

\* Endpoints that were asked for and answered.
Asked(m) == m.endpointCursor - (IF m.batchKind = "endpoints" THEN Len(m.batch) ELSE 0)
Asking(m) == m.state = "endpoints" \/ m.batchKind = "endpoints"
EndpointsOK(m, req, S) ==
    /\ m.endpointCursor \in 0..Len(Endpoints(req)) /\ Asked(m) \in Nat
    /\ m.state = "endpoints" => m.batchKind = "none" /\ m.endpointCursor < Len(Endpoints(req))
    /\ m.state = "visibility" => m.batchKind # "none"
    /\ m.batchKind = "endpoints" =>
          /\ m.state = "visibility"
          /\ \A i \in 1..Len(m.batch) : m.batch[i].to = Endpoints(req)[Asked(m) + i]
    /\ Asking(m) => m.scan = Resting
    /\ m.endpointHidden => Asking(m) \/ m.state = "complete"
    /\ ~m.endpointHidden => \A i \in 1..Asked(m) : Endpoints(req)[i] \in S

SingleOK(m, req, S) == m \in SingleType(S) /\ Paged(m, req, S) /\ EndpointsOK(m, req, S)
BothLevels(m) ==
    /\ m.side = "forward" => m.levelRemaining <= Len(m.forward.frontier)
    /\ m.side = "backward" => m.levelRemaining <= Len(m.backward.frontier)
    /\ m.state = "visibility" /\ m.batchKind = "adjacency" => m.side # "none"
BothOK(m, req, S) ==
    /\ m \in BothType(IF Asking(m) \/ m.endpointHidden THEN Nodes ELSE S)
    /\ Paged(m, req, S) /\ EndpointsOK(m, req, S) /\ BothLevels(m)
    /\ Asking(m) => m.forward.frontier = <<req.source>> /\ m.backward.frontier = <<req.target>>
DijkstraOK(m, req, S) ==
    /\ m \in DijkstraType(S) /\ IsFiniteSet(m.heap)
    /\ Paged(m, req, S) /\ EndpointsOK(m, req, S)

MachineOK(m, req, S) ==
    /\ req.kind \in Traversals => TraversalOK(m, req, S)
    /\ req.kind = "single" => SingleOK(m, req, S)
    /\ req.kind = "bidirectional" => BothOK(m, req, S)
    /\ req.kind = "dijkstra" => DijkstraOK(m, req, S)

\* The nodes that a search may read: those that were shown, while it runs.
Readable == IF phase \in {"running", "done"} THEN Settled(decided, hidden) ELSE Nodes

\* The inductive invariant: the machine is good for the nodes that were shown so far.
\* That a node is not hidden would not do, for it might be hidden by a later verdict.
IInv ==
    /\ graph \subseteq DOMAIN Universe /\ request \in Requests
    /\ epoch \in 0..1 /\ bound \in 0..epoch
    /\ phase \in {"start", "running", "done", "empty", "failed"}
    /\ hidden \subseteq decided /\ decided \subseteq Hideable
    /\ MachineOK(machine, request, Readable)
    /\ phase = "start" => machine = NewMachine(request)

----------------------------------------------------------------------------
(* Pages and batches *)

\* The i-th of the elements of P has i of them up to itself.
LEMMA IthExists ==
    ASSUME NEW N \in Nat, NEW P \in SUBSET (1..N), NEW i \in 1..Cardinality(P)
    PROVE  \E p \in P : Cardinality({q \in P : q <= p}) = i
<1> DEFINE Below(n) == {q \in P : q <= n}
           c(n) == Cardinality(Below(n))
<1>0. \A q \in P : q \in Int /\ q >= 1 /\ q <= N
  OBVIOUS
<1>1. IsFiniteSet(P)
  <2>1. IsFiniteSet(1..N)
    BY FS_Interval
  <2>2. QED
    BY <2>1, FS_Subset
<1>2. \A n \in 0..N : IsFiniteSet(Below(n)) /\ c(n) \in Nat
  <2>1. ASSUME NEW n \in 0..N PROVE IsFiniteSet(Below(n)) /\ c(n) \in Nat
    <3>1. Below(n) \in SUBSET P
      OBVIOUS
    <3>2. IsFiniteSet(Below(n))
      BY <1>1, <3>1, FS_Subset
    <3>3. QED
      BY <3>2, FS_CardinalityType
  <2>2. QED
    BY <2>1
<1>3. Cardinality(P) \in Nat /\ i \in Nat /\ i >= 1 /\ i <= Cardinality(P)
  BY <1>1, FS_CardinalityType
<1>4. PICK B : B = {n \in 0..N : c(n) >= i}
  OBVIOUS
<1>5. N \in B
  <2>1. Below(N) = P
    BY <1>0
  <2>2. QED
    BY <1>3, <1>4, <2>1
<1>6. IsFiniteSet(B) /\ B \in SUBSET Int
  <2>1. IsFiniteSet(0..N)
    BY FS_Interval
  <2>2. QED
    <3>1. B \in SUBSET (0..N)
      BY <1>4
    <3>2. IsFiniteSet(B)
      BY <2>1, <3>1, FS_Subset
    <3>3. QED
      BY <3>1, <3>2
<1>7. PICK m \in B : \A n \in B : m <= n
  BY <1>5, <1>6, MinProperty
<1>8. m # 0
  <2>1. Below(0) = {}
    <3>1. \A q \in P : ~(q <= 0)
      BY <1>0
    <3>2. QED
      BY <3>1
  <2>2. c(0) = 0
    BY <2>1, FS_EmptySet
  <2>3. QED
    BY <1>3, <1>4, <1>7, <2>2
<1>9. m \in 1..N /\ m - 1 \in 0..N /\ m - 1 \notin B
  <2>1. m \in 1..N /\ m - 1 \in 0..N
    BY <1>4, <1>7, <1>8
  <2>2. QED
    BY <1>7, <2>1
<1>10. c(m - 1) < i /\ c(m) >= i
  <2>1. ~(c(m - 1) >= i) /\ c(m) >= i
    BY <1>4, <1>7, <1>9
  <2>2. c(m - 1) \in Nat
    BY <1>2, <1>9
  <2>3. QED
    BY <1>3, <2>1, <2>2
<1>11. c(m - 1) \in Nat /\ c(m) \in Nat /\ IsFiniteSet(Below(m - 1))
  <2>1. m \in 0..N
    BY <1>9
  <2>2. QED
    BY <1>2, <1>9, <2>1
<1>12. m \in P
  <2>1. SUFFICES ASSUME m \notin P PROVE FALSE
    OBVIOUS
  <2>2. \A q \in P : q <= m <=> q <= m - 1
    BY <1>9, <2>1
  <2>3. Below(m) = Below(m - 1)
    BY <2>2
  <2>4. c(m) = c(m - 1)
    BY <2>3
  <2>5. QED
    BY <1>3, <1>10, <1>11, <2>4
<1>13. c(m) = c(m - 1) + 1
  <2>1. \A q \in P : q <= m <=> (q <= m - 1 \/ q = m)
    BY <1>9
  <2>2. Below(m) = Below(m - 1) \cup {m} /\ m \notin Below(m - 1)
    <3>1. ~(m <= m - 1)
      BY <1>9
    <3>2. QED
      BY <1>12, <2>1, <3>1
  <2>3. QED
    BY <1>11, <2>2, FS_AddElement
<1>14. c(m) = i
  BY <1>3, <1>10, <1>11, <1>13
<1>15. QED
  BY <1>12, <1>14

\* Ascending lists elements of the set, as many as it has.
LEMMA AscendingIs ==
    ASSUME NEW N \in Nat, NEW P \in SUBSET (1..N), NEW s, s = Ascending(P)
    PROVE  /\ s \in Seq(P) /\ Len(s) = Cardinality(P) /\ DOMAIN s = 1..Len(s)
           /\ Cardinality(P) \in Nat
<1>1. IsFiniteSet(P)
  <2>1. IsFiniteSet(1..N)
    BY FS_Interval
  <2>2. QED
    BY <2>1, FS_Subset
<1>2. PICK n \in Nat : n = Cardinality(P)
  BY <1>1, FS_CardinalityType
<1>3. s = [i \in 1..n |-> CHOOSE p \in P : Cardinality({q \in P : q <= p}) = i]
  BY <1>2 DEF Ascending
<1>4. \A i \in 1..n : s[i] \in P
  <2>1. ASSUME NEW i \in 1..n PROVE s[i] \in P
    <3>1. \E p \in P : Cardinality({q \in P : q <= p}) = i
      BY <1>2, IthExists
    <3>2. QED
      BY <1>3, <3>1
  <2>2. QED
    BY <2>1
<1>5. s \in [1..n -> P]
  BY <1>3, <1>4
<1>6. QED
  BY <1>2, <1>5

\* A pair is finite.
LEMMA PairFinite ==
    ASSUME NEW a, NEW b PROVE IsFiniteSet({a, b})
<1>1. IsFiniteSet({a})
  BY FS_Singleton
<1>2. {a, b} = {a} \cup {b}
  OBVIOUS
<1>3. QED
  BY <1>1, <1>2, FS_AddElement

\* The smaller of two numbers.
LEMMA MinOfTwo ==
    ASSUME NEW a \in Int, NEW b \in Int
    PROVE  Min({a, b}) \in {a, b} /\ Min({a, b}) <= a /\ Min({a, b}) <= b
<1>1. IsFiniteSet({a, b})
  BY PairFinite
<1>2. {a, b} \in SUBSET Int /\ {a, b} # {}
  OBVIOUS
<1>3. QED
  BY <1>1, <1>2, MinProperty

\* A part of a sequence between two places, the second not past its end.
LEMMA PartIs ==
    ASSUME NEW S, NEW s \in Seq(S), NEW a \in Nat \ {0}, NEW b \in Nat, b <= Len(s),
           NEW p, p = SubSeq(s, a, b)
    PROVE  /\ p \in Seq(S) /\ Len(p) = IF a <= b THEN b - a + 1 ELSE 0
<1>1. CASE a <= b
  <2>1. a \in 1..Len(s) /\ b \in a..Len(s)
    BY <1>1
  <2>2. QED
    BY <1>1, <2>1
<1>2. CASE a > b
  <2>1. p = <<>>
    BY <1>2
  <2>2. QED
    BY <1>2, <2>1
<1>3. QED
  BY <1>1, <1>2

\* A page holds rows of the node that is being read, and not too many.
LEMMA FilledIs ==
    ASSUME NEW scan \in ScanType, NEW rows \in Seq(RowType), NEW page \in Nat \ {0},
           NEW limit \in 1..page, Len(scan.pending) <= page,
           NEW f, f = Filled(scan, rows, limit)
    PROVE  f \in ScanType /\ f.active = scan.active /\ Len(f.pending) <= page
<1>1. CASE scan.pending # <<>>
  BY <1>1 DEF Filled
<1>2. CASE scan.pending = <<>>
  <2>1. PICK end : end = Min({scan.cursor + limit, Len(rows)})
    OBVIOUS
  <2>2. scan.cursor \in Nat /\ limit \in Nat /\ Len(rows) \in Nat
       /\ Len(rows) \in Int /\ scan.cursor + limit \in Int
    BY DEF ScanType
  <2>3. end \in {scan.cursor + limit, Len(rows)} /\ end <= scan.cursor + limit /\ end <= Len(rows)
    BY <2>1, <2>2, MinOfTwo
  <2>4. end \in Nat
    BY <2>2, <2>3
  <2>5. PICK p : p = SubSeq(rows, scan.cursor + 1, end)
    OBVIOUS
  <2>6. p \in Seq(RowType) /\ Len(p) <= limit
    <3>1. scan.cursor + 1 \in Nat \ {0}
      BY <2>2
    <3>2. p \in Seq(RowType) /\ Len(p) = IF scan.cursor + 1 <= end THEN end - (scan.cursor + 1) + 1 ELSE 0
      BY <2>3, <2>4, <2>5, <3>1, PartIs
    <3>3. QED
      BY <2>2, <2>3, <2>4, <3>2
  <2>7. f = [scan EXCEPT !.pending = p, !.cursor = end, !.last = (end = Len(rows))]
    BY <1>2, <2>1, <2>5 DEF Filled
  <2>8. (end = Len(rows)) \in BOOLEAN /\ Len(p) <= page
    BY <2>2, <2>6
  <2>9. QED
    BY <2>4, <2>6, <2>7, <2>8 DEF ScanType
<1>3. QED
  BY <1>1, <1>2

\* The rows that a batch takes are rows of the page, and their keys fit the budget:
\* the first one too many would have ended the batch before itself.
LEMMA TakenIs ==
    ASSUME NEW pending \in Seq(RowType), NEW keys \in Nat \ {0}, NEW target,
           NEW t, t = TakenCount(pending, keys, target)
    PROVE  t \in 0..Len(pending) /\ Cardinality({j \in 1..t : pending[j].ok}) <= keys
<1> DEFINE Fit(i) == {j \in 1..i : pending[j].ok}
           fitting(i) == Cardinality(Fit(i))
           A == {j \in DOMAIN pending : pending[j].ok /\ fitting(j) > keys}
           C == {i \in DOMAIN pending : pending[i].ok /\ pending[i].to = target /\ fitting(i) <= keys}
           T == {Len(pending)} \cup {i - 1 : i \in A} \cup C
<1>0. PICK N \in Nat : N = Len(pending) /\ DOMAIN pending = 1..N
  OBVIOUS
<1>1. t = Min(T)
  BY DEF TakenCount
<1>2. T \in SUBSET (0..N) /\ T # {}
  <2>1. A \in SUBSET (1..N) /\ C \in SUBSET (1..N)
    BY <1>0
  <2>2. {i - 1 : i \in A} \in SUBSET (0..N)
    <3> HIDE DEF A
    <3>1. QED
      BY <2>1
  <2>3. QED
    <3> HIDE DEF A, C
    <3>1. PICK D : D = {i - 1 : i \in A}
      OBVIOUS
    <3>2. T = {N} \cup D \cup C
      BY <1>0, <3>1
    <3>3. N \in 0..N /\ D \in SUBSET (0..N) /\ C \in SUBSET (0..N)
      BY <2>1, <2>2, <3>1
    <3> HIDE DEF T
    <3>4. QED
      BY <3>2, <3>3
<1>3. t \in T /\ \A y \in T : t <= y
  <2> HIDE DEF T
  <2>1. IsFiniteSet(0..N)
    BY FS_Interval
  <2>2. IsFiniteSet(T)
    BY <1>2, <2>1, FS_Subset
  <2>3. T \in SUBSET Int
    BY <1>2
  <2>4. QED
    BY <1>1, <1>2, <2>2, <2>3, MinProperty
<1>4. t \in 0..N
  <2> HIDE DEF T
  <2>1. QED
    BY <1>2, <1>3
<1>5. \A i \in 0..N : IsFiniteSet(Fit(i)) /\ fitting(i) \in Nat
  <2>1. ASSUME NEW i \in 0..N PROVE IsFiniteSet(Fit(i)) /\ fitting(i) \in Nat
    <3>1. IsFiniteSet(1..i)
      BY FS_Interval
    <3>2. Fit(i) \in SUBSET (1..i)
      OBVIOUS
    <3>3. IsFiniteSet(Fit(i))
      BY <3>1, <3>2, FS_Subset
    <3>4. QED
      BY <3>3, FS_CardinalityType
  <2>2. QED
    BY <2>1
<1>6. SUFFICES ASSUME ~(fitting(t) <= keys) PROVE FALSE
  BY <1>0, <1>4
<1>7. fitting(t) > keys
  <2>1. fitting(t) \in Nat
    BY <1>4, <1>5
  <2> HIDE DEF fitting
  <2>2. QED
    BY <1>6, <2>1
<1>8. PICK B : B = {n \in 0..t : fitting(n) > keys}
  OBVIOUS
<1>9. t \in B /\ B \in SUBSET (0..t)
  <2> HIDE DEF fitting
  <2>1. t \in 0..t
    BY <1>4
  <2>2. QED
    BY <1>7, <1>8, <2>1
<1>10. PICK m \in B : \A n \in B : m <= n
  <2>1. IsFiniteSet(0..t)
    BY <1>4, FS_Interval
  <2>2. IsFiniteSet(B)
    BY <1>9, <2>1, FS_Subset
  <2>3. B \in SUBSET Int /\ B # {}
    BY <1>9
  <2>4. QED
    BY <2>2, <2>3, MinProperty
<1>11. m # 0
  <2>1. Fit(0) = {}
    OBVIOUS
  <2>2. fitting(0) = 0
    BY <2>1, FS_EmptySet
  <2>3. fitting(m) > keys
    BY <1>8, <1>10
  <2> HIDE DEF fitting
  <2>4. QED
    BY <2>2, <2>3
<1>12. m \in 1..t /\ m \in 1..N /\ m - 1 \in 0..t /\ m - 1 \in 0..N /\ m - 1 \notin B /\ m \in 0..N
  <2>1. m \in 1..t
    BY <1>4, <1>9, <1>10, <1>11
  <2>2. m \in 1..N /\ m - 1 \in 0..t /\ m - 1 \in 0..N /\ m \in 0..N
    BY <1>4, <2>1
  <2>3. m - 1 \notin B
    BY <1>10, <2>1
  <2>4. QED
    BY <2>1, <2>2, <2>3
<1>13. fitting(m) > keys /\ ~(fitting(m - 1) > keys)
  <2> HIDE DEF fitting
  <2>1. QED
    BY <1>8, <1>10, <1>12
<1>14. pending[m].ok
  <2>1. SUFFICES ASSUME ~pending[m].ok PROVE FALSE
    OBVIOUS
  <2>2. \A j \in Int : j \in 1..m <=> (j \in 1..(m - 1) \/ j = m)
    BY <1>12
  <2>3. Fit(m) = Fit(m - 1)
    BY <2>1, <2>2
  <2>4. QED
    BY <1>13, <2>3
<1>15. m \in A
  BY <1>0, <1>12, <1>13, <1>14
<1>16. m - 1 \in T
  <2> HIDE DEF A, C
  <2>1. QED
    BY <1>15
<1>17. t <= m - 1
  <2> HIDE DEF T
  <2>1. QED
    BY <1>3, <1>16
<1>18. QED
  BY <1>4, <1>12, <1>17

\* A batch is cut from the page: candidates of the node that is read, no more than
\* the page and the key budget allow; what is left stays in the page.
LEMMA BatchIs ==
    ASSUME NEW S \in SUBSET Nodes, NEW req \in ReqType, NEW f, ScanOK(f, req, S), f.active \in S,
           NEW t \in 0..Len(f.pending), Cardinality({j \in 1..t : f.pending[j].ok}) <= req.keys
    PROVE  ScanOK(Leftover(f, t), req, S) /\ BatchOK(Candidates(f, t), req)
<1>0. PICK page \in Nat \ {0}, keys \in Nat \ {0} : page = req.page /\ keys = req.keys
  BY DEF ReqType
<1>1. f \in ScanType /\ f.pending \in Seq(RowType) /\ Len(f.pending) \in Nat /\ Len(f.pending) <= page /\ f.active \in Nodes
  BY <1>0 DEF ScanOK, ScanType
<1>2. t \in 0..Len(f.pending) /\ Cardinality({j \in 1..t : f.pending[j].ok}) <= keys
  BY <1>0
<1>3. /\ Leftover(f, t) \in ScanType /\ Leftover(f, t).active = f.active
      /\ Len(Leftover(f, t).pending) <= page
  <2>1. PICK p : p = SubSeq(f.pending, t + 1, Len(f.pending))
    OBVIOUS
  <2>2. t + 1 \in Nat \ {0} /\ Len(f.pending) <= Len(f.pending)
    BY <1>1, <1>2
  <2>3. p \in Seq(RowType) /\ Len(p) = IF t + 1 <= Len(f.pending) THEN Len(f.pending) - (t + 1) + 1 ELSE 0
    BY <1>1, <2>1, <2>2, PartIs
  <2>4. Len(p) <= page
    BY <1>1, <1>2, <2>3
  <2>5. Leftover(f, t) = [f EXCEPT !.pending = p]
    BY <2>1 DEF Leftover
  <2>6. QED
    BY <1>1, <2>3, <2>4, <2>5 DEF ScanType
<1>4. PICK P : P = {j \in 1..t : f.pending[j].ok}
  OBVIOUS
<1>5. PICK s : s = Ascending(P)
  OBVIOUS
<1>6. t \in Nat /\ P \in SUBSET (1..t)
  BY <1>2, <1>4
<1>7. /\ s \in Seq(P) /\ Len(s) = Cardinality(P) /\ DOMAIN s = 1..Len(s)
      /\ Cardinality(P) \in Nat
  BY <1>5, <1>6, AscendingIs
<1>8. \A i \in 1..Len(s) : s[i] \in 1..Len(f.pending)
  <2>1. \A i \in 1..Len(s) : s[i] \in P
    BY <1>7
  <2>2. \A p \in P : p \in 1..Len(f.pending)
    BY <1>1, <1>2, <1>6
  <2>3. QED
    BY <2>1, <2>2
<1>9. PICK n \in Nat : n = Len(s)
  BY <1>7
<1>10. Candidates(f, t) = [i \in 1..n |->
           [from |-> f.active, to |-> f.pending[s[i]].to, id |-> f.pending[s[i]].id,
            w |-> f.pending[s[i]].w]]
  BY <1>4, <1>5, <1>7, <1>9 DEF Candidates
<1>11. \A i \in 1..n : f.pending[s[i]] \in RowType
  BY <1>1, <1>8, <1>9
<1>12. Candidates(f, t) \in [1..n -> CandType]
  <2>1. \A i \in 1..n : [from |-> f.active, to |-> f.pending[s[i]].to, id |-> f.pending[s[i]].id,
                         w |-> f.pending[s[i]].w] \in CandType
    BY <1>1, <1>11 DEF RowType, CandType
  <2>2. QED
    BY <1>10, <2>1
<1>13. Candidates(f, t) \in Seq(CandType) /\ Len(Candidates(f, t)) = n
  BY <1>12
<1>14. n <= keys /\ n <= page
  <2>1. n <= keys
    BY <1>2, <1>4, <1>7, <1>9
  <2>2. Cardinality(P) <= t
    <3>1. IsFiniteSet(1..t) /\ Cardinality(1..t) = t
      BY <1>6, FS_Interval
    <3>2. Cardinality(P) <= Cardinality(1..t)
      BY <1>6, <3>1, FS_Subset
    <3>3. QED
      BY <3>1, <3>2
  <2>3. QED
    BY <1>1, <1>2, <1>6, <1>7, <1>9, <2>1, <2>2
<1>15. QED
  BY <1>0, <1>3, <1>13, <1>14 DEF ScanOK, BatchOK

\* One turn of reading: from a scan of a node in S to the scan that is left and the
\* batch, whether or not the node is done with.
LEMMA ScanStep ==
    ASSUME NEW S \in SUBSET Nodes, NEW req \in ReqType, NEW o, ScanOK(o, req, S), o.active \in S,
           NEW rows \in Seq(RowType), NEW limit \in 1..req.page, NEW target,
           NEW f, f = Filled(o, rows, limit), NEW t, t = TakenCount(f.pending, req.keys, target)
    PROVE  /\ ScanOK(Leftover(f, t), req, S) /\ ScanOK(Resting, req, S)
           /\ BatchOK(Candidates(f, t), req)
<1>1. req.page \in Nat \ {0} /\ req.keys \in Nat \ {0}
  BY DEF ReqType
<1>2. f \in ScanType /\ f.active = o.active /\ Len(f.pending) <= req.page
  BY <1>1, FilledIs DEF ScanOK
<1>3. ScanOK(f, req, S) /\ f.active \in S /\ f.pending \in Seq(RowType)
  BY <1>2 DEF ScanOK, ScanType
<1>4. t \in 0..Len(f.pending) /\ Cardinality({j \in 1..t : f.pending[j].ok}) <= req.keys
  BY <1>1, <1>3, TakenIs
<1>5. ScanOK(Leftover(f, t), req, S) /\ BatchOK(Candidates(f, t), req)
  BY <1>3, <1>4, BatchIs
<1>6. Resting \in ScanType /\ Resting.active = NoNode /\ Len(Resting.pending) = 0
  BY DEF Resting, ScanType
<1>7. QED
  BY <1>1, <1>5, <1>6 DEF ScanOK

\* A scan that has just been opened.
LEMMA OpenedIs ==
    ASSUME NEW S \in SUBSET Nodes, NEW req \in ReqType, NEW n \in S
    PROVE  ScanOK(Opened(n), req, S) /\ Opened(n).active = n
<1>1. Resting \in ScanType /\ Resting.pending = <<>>
  BY DEF Resting, ScanType
<1>2. Opened(n) \in ScanType /\ Opened(n).active = n /\ Len(Opened(n).pending) = 0
  BY <1>1 DEF ScanType, Opened
<1>3. 0 <= req.page
  BY DEF ReqType
<1>4. QED
  BY <1>2, <1>3 DEF ScanOK

\* The rows of a node, in either order.
LEMMA AdjacencyIs ==
    ASSUME NEW g \in SUBSET DOMAIN Universe, NEW both \in BOOLEAN, NEW n \in Nodes
    PROVE  Adjacency(g, both, n) \in Seq(RowType)
<1>1. PICK N \in Nat : N = Len(Universe) /\ DOMAIN Universe = 1..N
  BY SearchGraphAssumption
<1>2. PICK P : P = {i \in g : Universe[i].s = n \/ (both /\ Universe[i].t = n)}
  OBVIOUS
<1>3. P \in SUBSET (1..N)
  BY <1>1, <1>2
<1>4. PICK ids : ids = Ascending(P)
  OBVIOUS
<1>5. /\ ids \in Seq(P) /\ DOMAIN ids = 1..Len(ids) /\ Len(ids) \in Nat
  BY <1>3, <1>4, AscendingIs
<1> DEFINE Row(k) == LET e == Universe[ids[k]]
                     IN  [to |-> IF e.s = n THEN e.t ELSE e.s, id |-> ids[k], w |-> e.w, ok |-> e.ok]
<1>6. Adjacency(g, both, n) = [k \in 1..Len(ids) |-> Row(k)]
  BY <1>2, <1>4, <1>5 DEF Adjacency
<1>7. ASSUME NEW k \in 1..Len(ids) PROVE Row(k) \in RowType
  <2>1. ids[k] \in P
    BY <1>5
  <2>2. ids[k] \in 1..N
    BY <1>3, <2>1
  <2>3. Universe[ids[k]] \in [s : 1..NodeCount, t : 1..NodeCount, w : Nat, ok : BOOLEAN]
    <3>1. PICK R : R = [s : 1..NodeCount, t : 1..NodeCount, w : Nat, ok : BOOLEAN]
      OBVIOUS
    <3>2. Universe \in Seq(R) /\ ids[k] \in 1..Len(Universe)
      BY <1>1, <2>2, <3>1, SearchGraphAssumption
    <3>3. Universe[ids[k]] \in R
      BY <3>2
    <3>4. QED
      BY <3>1, <3>3
  <2>4. ids[k] \in Nat
    BY <2>2
  <2>5. QED
    BY <2>3, <2>4 DEF RowType, Nodes
<1>8. Adjacency(g, both, n) \in [1..Len(ids) -> RowType]
  <2> HIDE DEF Row
  <2>1. QED
    BY <1>6, <1>7
<1>9. QED
  BY <1>5, <1>8

\* A traversal reads them forwards or backwards.
LEMMA RowsIs ==
    ASSUME NEW req, NEW g \in SUBSET DOMAIN Universe, NEW n \in Nodes
    PROVE  Rows(req, g, n) \in Seq(RowType)
<1>1. PICK a \in Seq(RowType) : a = Adjacency(g, FALSE, n)
  BY AdjacencyIs
<1>2. Reverse(a) \in Seq(RowType)
  <2>1. \A i \in 1..Len(a) : a[(Len(a) - i) + 1] \in RowType
    OBVIOUS
  <2>2. Reverse(a) = [i \in 1..Len(a) |-> a[(Len(a) - i) + 1]]
    BY DEF Reverse
  <2>3. QED
    BY <2>1, <2>2
<1>3. QED
  BY <1>1, <1>2 DEF Rows

----------------------------------------------------------------------------
(* Traversals *)

\* The recursion over a batch is well-founded: there is a function that obeys it.
LEMMA VisitsIs ==
    ASSUME NEW m, NEW req, NEW hid, NEW N \in Nat, N = Len(m.batch), NEW f, f = Visits(m, req, hid)
    PROVE  /\ f[0] = m
           /\ \A n \in 1..N : f[n] = IF Shown(hid, m.batch[n]) THEN Visit(f[n - 1], req, m.batch[n])
                                     ELSE f[n - 1]
<1> DEFINE Step(x, n) == IF Shown(hid, m.batch[n]) THEN Visit(x, req, m.batch[n]) ELSE x
           Next1(g, n) == IF n = 0 THEN m ELSE Step(g[n - 1], n)
           Obeys(g, k) == g = [n \in 0..k |-> Next1(g, n)]
           S == {k \in 0..N : \E g : Obeys(g, k)}
<1>5. Visits(m, req, hid) = CHOOSE g : Obeys(g, N)
  BY DEF Visits
<1> HIDE DEF Step
<1>1. 0 \in S
  <2>1. PICK g : g = [n \in 0..0 |-> m]
    OBVIOUS
  <2>2. Obeys(g, 0)
    BY <2>1
  <2>3. QED
    BY <2>2
<1>2. ASSUME NEW k \in 1..N, k - 1 \in S PROVE k \in S
  <2>1. PICK g : Obeys(g, k - 1)
    BY <1>2
  <2>2. PICK h : h = [n \in 0..k |-> IF n = k THEN Step(g[k - 1], k) ELSE g[n]]
    OBVIOUS
  <2>3. \A n \in 0..(k - 1) : h[n] = g[n] /\ g[n] = Next1(g, n)
    <3>1. \A n \in 0..(k - 1) : n \in 0..k /\ n # k
      OBVIOUS
    <3>2. QED
      BY <2>1, <2>2, <3>1
  <2>4. ASSUME NEW n \in 0..k PROVE h[n] = Next1(h, n)
    <3>1. CASE n = k
      <4>1. k - 1 \in 0..(k - 1) /\ n # 0
        BY <3>1
      <4>2. h[k - 1] = g[k - 1]
        BY <2>3, <4>1
      <4>3. h[n] = Step(g[k - 1], k)
        BY <2>2, <3>1
      <4>4. QED
        BY <3>1, <4>1, <4>2, <4>3
    <3>2. CASE n # k
      <4>1. n \in 0..(k - 1)
        BY <3>2
      <4>2. h[n] = Next1(g, n)
        BY <2>3, <4>1
      <4>3. CASE n = 0
        BY <4>2, <4>3
      <4>4. CASE n # 0
        <5>1. n - 1 \in 0..(k - 1)
          BY <4>1, <4>4
        <5>2. h[n - 1] = g[n - 1]
          BY <2>3, <5>1
        <5>3. QED
          BY <4>2, <4>4, <5>2
      <4>5. QED
        BY <4>3, <4>4
    <3>3. QED
      BY <3>1, <3>2
  <2>5. Obeys(h, k)
    <3>1. h = [n \in 0..k |-> h[n]]
      BY <2>2
    <3>2. QED
      BY <2>4, <3>1
  <2>6. QED
    BY <2>5
<1>3. N \in S
  <2> HIDE DEF S
  <2>1. \A n \in 0..N : n \in S
    BY <1>1, <1>2, UpTo
  <2>2. QED
    BY <2>1
<1>4. \E g : Obeys(g, N)
  BY <1>3
<1>6. Obeys(f, N)
  <2> HIDE DEF Obeys
  <2>1. QED
    BY <1>4, <1>5
<1>7. f = [n \in 0..N |-> Next1(f, n)]
  BY <1>6
<1>8. f[0] = Next1(f, 0) /\ \A n \in 1..N : f[n] = Next1(f, n)
  <2> HIDE DEF Next1
  <2>1. 0 \in 0..N /\ \A n \in 1..N : n \in 0..N
    OBVIOUS
  <2>2. QED
    BY <1>7, <2>1
<1>9. QED
  BY <1>8 DEF Step

\* A visible candidate joins the tree, and the frontier if it may be read.
LEMMA VisitKeeps ==
    ASSUME NEW S \in SUBSET Nodes, NEW m \in TraversalType(S), TreeAgrees(m),
           NEW req \in ReqType, NEW c \in CandType, c.to \in S, NEW v, v = Visit(m, req, c)
    PROVE  /\ v \in TraversalType(S) /\ TreeAgrees(v)
           /\ v.scan = m.scan /\ v.batch = m.batch /\ v.state = m.state
<1>1. CASE m.truncated \/ c.to \in Visited(m)
  BY <1>1 DEF Visit
<1>2. CASE ~(m.truncated \/ c.to \in Visited(m))
  <2>1. PICK d : d = m.depth[c.from] + 1
    OBVIOUS
  <2>2. d \in Int /\ d >= 0 /\ c.from \in Nodes /\ c.to \in Nodes
    BY <2>1 DEF TraversalType, Depths, CandType, TreeAgrees
  <2>3. PICK q : q = IF ~(Cardinality(Visited(m)) + 1 >= req.maxNodes) /\ d < req.maxDepth
                     THEN Append(m.frontier, c.to) ELSE m.frontier
    OBVIOUS
  <2>4. q \in Seq(S)
    BY <2>3 DEF TraversalType
  <2>5. PICK b \in BOOLEAN : v = [m EXCEPT !.depth[c.to] = d, !.parent[c.to] = c.from, !.frontier = q,
                                           !.truncated = b]
    BY <1>2, <2>1, <2>3 DEF Visit
  <2>6. v \in TraversalType(S) /\ v.scan = m.scan /\ v.batch = m.batch /\ v.state = m.state
    <3>1. m.depth \in Depths /\ m.parent \in Parents
      BY DEF TraversalType
    <3>2. PICK D \in Depths, P \in Parents : D = [m.depth EXCEPT ![c.to] = d] /\ P = [m.parent EXCEPT ![c.to] = c.from]
      BY <2>2, <3>1 DEF Depths, Parents
    <3>3. v = [m EXCEPT !.depth = D, !.parent = P, !.frontier = q, !.truncated = b]
      BY <2>5, <3>2
    <3>4. QED
      BY <2>4, <3>2, <3>3 DEF TraversalType
  <2>7. TreeAgrees(v)
    <3>1. v.depth = [m.depth EXCEPT ![c.to] = d] /\ v.parent = [m.parent EXCEPT ![c.to] = c.from]
      BY <2>5 DEF TraversalType
    <3>2. m.depth \in Depths /\ m.parent \in Parents
      BY DEF TraversalType
    <3>3. QED
      BY <2>2, <3>1, <3>2 DEF TreeAgrees, Depths, Parents
  <2>8. QED
    BY <2>6, <2>7
<1>3. QED
  BY <1>1, <1>2

\* Admission of a batch keeps a traversal good: what is shown is in S.
LEMMA AdmitTraversalKeeps ==
    ASSUME NEW S \in SUBSET Nodes, NEW req \in ReqType, NEW hid, NEW m, TraversalOK(m, req, S),
           \A i \in 1..Len(m.batch) : Shown(hid, m.batch[i]) => m.batch[i].to \in S
    PROVE  TraversalOK(AdmitTraversal(m, req, hid), req, S)
<1>1. m \in TraversalType(S) /\ TreeAgrees(m) /\ Paged(m, req, S)
  BY DEF TraversalOK
<1>2. m.batch \in Seq(CandType)
  BY <1>1 DEF TraversalType
<1>3. PICK N \in Nat : N = Len(m.batch)
  BY <1>2
<1>4. PICK f : f = Visits(m, req, hid)
  OBVIOUS
<1>5. /\ f[0] = m
      /\ \A n \in 1..N : f[n] = IF Shown(hid, m.batch[n]) THEN Visit(f[n - 1], req, m.batch[n])
                                ELSE f[n - 1]
  BY <1>3, <1>4, VisitsIs
<1> DEFINE Good(x) == /\ x \in TraversalType(S) /\ TreeAgrees(x)
                      /\ x.scan = m.scan /\ x.batch = m.batch /\ x.state = m.state
           G == {n \in 0..N : Good(f[n])}
<1>6. 0 \in G
  BY <1>1, <1>3, <1>5
<1>7. ASSUME NEW n \in 1..N, n - 1 \in G PROVE n \in G
  <2>1. n \in 0..N /\ Good(f[n - 1]) /\ m.batch[n] \in CandType
    BY <1>2, <1>3, <1>7
  <2>2. CASE Shown(hid, m.batch[n])
    <3>1. m.batch[n].to \in S /\ f[n] = Visit(f[n - 1], req, m.batch[n])
      BY <1>3, <1>5, <2>2
    <3>2. Good(f[n])
      BY <2>1, <3>1, VisitKeeps
    <3>3. QED
      BY <2>1, <3>2
  <2>3. CASE ~Shown(hid, m.batch[n])
    <3>1. f[n] = f[n - 1]
      BY <1>5, <2>3
    <3>2. QED
      BY <2>1, <3>1
  <2>4. QED
    BY <2>2, <2>3
<1>8. Good(f[N])
  <2> HIDE DEF G
  <2>1. \A n \in 0..N : n \in G
    BY <1>6, <1>7, UpTo
  <2>2. N \in G
    BY <2>1
  <2>3. QED
    BY <2>2 DEF G
<1>9. PICK s \in {"complete", "candidates"} :
         AdmitTraversal(m, req, hid) = [f[N] EXCEPT !.batch = <<>>, !.state = s]
  BY <1>3, <1>4 DEF AdmitTraversal
<1>10. PICK a : a = AdmitTraversal(m, req, hid)
  OBVIOUS
<1>11. /\ a \in TraversalType(S) /\ a.scan = m.scan /\ a.batch = <<>> /\ a.state = s
       /\ a.depth = f[N].depth /\ a.parent = f[N].parent
  <2>1. PICK x \in TraversalType(S) : x = f[N] /\ x.scan = m.scan
    BY <1>8
  <2>2. a = [x EXCEPT !.batch = <<>>, !.state = s]
    BY <1>9, <1>10, <2>1
  <2>3. s \in States \ {"endpoints"} /\ <<>> \in Seq(CandType)
    BY DEF States
  <2>4. QED
    BY <2>1, <2>2, <2>3 DEF TraversalType
<1>12. TreeAgrees(a)
  BY <1>8, <1>11 DEF TreeAgrees
<1>13. Paged(a, req, S)
  <2>1. a.batch \in Seq(CandType) /\ Len(a.batch) = 0 /\ 0 <= req.page /\ 0 <= req.keys
    BY <1>11 DEF ReqType
  <2>2. QED
    BY <1>1, <1>11, <2>1 DEF Paged, BatchOK
<1>14. QED
  BY <1>10, <1>11, <1>12, <1>13 DEF TraversalOK

\* A page of a traversal has room for one row at least, and no more than a page.
LEMMA CandidateLimitIs ==
    ASSUME NEW req \in ReqType, NEW m, m.frontier \in Seq(Nodes)
    PROVE  CandidateLimit(m, req) \in 1..req.page
<1> DEFINE a == req.maxNodes - Cardinality(Visited(m))
           b == req.maxFrontier - Len(m.frontier)
<1>1. Cardinality(Visited(m)) \in Nat
  <2>1. IsFiniteSet(Nodes)
    BY SearchGraphAssumption, FS_Interval DEF Nodes
  <2>2. IsFiniteSet(Visited(m))
    BY <2>1, FS_Subset DEF Visited
  <2>3. QED
    BY <2>2, FS_CardinalityType
<1>2. a \in Int /\ b \in Int /\ req.page \in Int /\ req.page >= 1
  BY <1>1 DEF ReqType
<1>3. ASSUME NEW x \in Int PROVE Max({1, x}) \in Int /\ Max({1, x}) >= 1
  <2>1. IsFiniteSet({1, x})
    BY PairFinite
  <2>2. {1, x} \in SUBSET Int /\ {1, x} # {}
    OBVIOUS
  <2>3. Max({1, x}) \in {1, x} /\ \A y \in {1, x} : Max({1, x}) >= y
    BY <2>1, <2>2, MaxProperty
  <2>4. QED
    BY <2>2, <2>3
<1> HIDE DEF a, b
<1>4. PICK p \in Int, q \in Int : p = Max({1, a}) /\ q = Max({1, b}) /\ p >= 1 /\ q >= 1
  BY <1>2, <1>3
<1>5. PICK T : T = {req.page, p, q}
  OBVIOUS
<1>6. IsFiniteSet(T)
  <2>1. IsFiniteSet({req.page})
    BY FS_Singleton
  <2>2. IsFiniteSet({req.page} \cup {p})
    BY <2>1, FS_AddElement
  <2>3. IsFiniteSet(({req.page} \cup {p}) \cup {q})
    BY <2>2, FS_AddElement
  <2>4. T = ({req.page} \cup {p}) \cup {q}
    BY <1>5
  <2>5. QED
    BY <2>3, <2>4
<1>7. T \in SUBSET Int /\ T # {}
  BY <1>2, <1>4, <1>5
<1>8. Min(T) \in T /\ \A y \in T : Min(T) <= y
  BY <1>6, <1>7, MinProperty
<1>9. CandidateLimit(m, req) = Min(T)
  BY <1>4, <1>5 DEF CandidateLimit, a, b
<1>10. Min(T) \in Int /\ Min(T) >= 1 /\ Min(T) <= req.page
  BY <1>2, <1>4, <1>5, <1>7, <1>8
<1>11. QED
  BY <1>2, <1>9, <1>10

\* The next node of the frontier, and the others.
LEMMA FrontierSplits ==
    ASSUME NEW S, NEW req, NEW q \in Seq(S), q # <<>>
    PROVE  NextOf(req, q) \in S /\ RestOf(req, q) \in Seq(S)
<1>1. Len(q) \in Nat \ {0}
  OBVIOUS
<1>2. Last(q) \in S
  BY <1>1 DEF Last
<1>3. Head(q) \in S /\ Tail(q) \in Seq(S)
  OBVIOUS
<1>4. Front(q) \in Seq(S)
  <2>1. Front(q) = SubSeq(q, 1, Len(q) - 1)
    BY DEF Front
  <2>2. 1 \in Nat \ {0} /\ Len(q) - 1 \in Nat /\ Len(q) - 1 <= Len(q)
    BY <1>1
  <2>3. QED
    BY <2>1, <2>2, PartIs
<1>5. QED
  BY <1>2, <1>3, <1>4 DEF NextOf, RestOf

\* Cutting a batch keeps a traversal good: it reads a node of its frontier.
LEMMA MaterializeTraversalKeeps ==
    ASSUME NEW S \in SUBSET Nodes, NEW req \in ReqType, NEW g \in SUBSET DOMAIN Universe, NEW m,
           TraversalOK(m, req, S), m.state = "candidates"
    PROVE  TraversalOK(MaterializeTraversal(m, req, g), req, S)
<1>1. m \in TraversalType(S) /\ TreeAgrees(m) /\ Paged(m, req, S)
  BY DEF TraversalOK
<1>2. m.frontier \in Seq(S) /\ ScanOK(m.scan, req, S) /\ m.batch = <<>> /\ m.batch \in Seq(CandType)
  BY <1>1 DEF TraversalType, Paged
<1>3. PICK w : w = MaterializeTraversal(m, req, g)
  OBVIOUS
<1>4. CASE m.scan.active = NoNode /\ m.frontier = <<>>
  <2>1. w = [m EXCEPT !.state = "complete"]
    BY <1>3, <1>4 DEF MaterializeTraversal
  <2>2. "complete" \in States \ {"endpoints"}
    BY DEF States
  <2>3. /\ w \in TraversalType(S) /\ w.depth = m.depth /\ w.parent = m.parent /\ w.scan = m.scan
        /\ w.batch = m.batch /\ w.state = "complete"
    BY <1>1, <2>1, <2>2 DEF TraversalType
  <2>4. QED
    BY <1>1, <1>2, <1>3, <2>3 DEF TraversalOK, TreeAgrees, Paged
<1>5. CASE ~(m.scan.active = NoNode /\ m.frontier = <<>>)
  <2> DEFINE pop == m.scan.active = NoNode
  <2>1. PICK current : current = IF pop THEN NextOf(req, m.frontier) ELSE m.scan.active
    OBVIOUS
  <2>2. current \in S
    <3>1. CASE pop
      BY <1>2, <1>5, <2>1, <3>1, FrontierSplits
    <3>2. CASE ~pop
      BY <1>2, <2>1, <3>2 DEF ScanOK
    <3>3. QED
      BY <3>1, <3>2
  <2>3. PICK o : o = IF pop THEN Opened(current) ELSE m.scan
    OBVIOUS
  <2>4. ScanOK(o, req, S) /\ o.active \in S
    <3>1. CASE pop
      BY <2>2, <2>3, <3>1, OpenedIs
    <3>2. CASE ~pop
      BY <1>2, <2>1, <2>2, <2>3, <3>2
    <3>3. QED
      BY <3>1, <3>2
  <2>5. PICK rows \in Seq(RowType) : rows = Rows(req, g, current)
    BY <2>2, RowsIs
  <2>6. PICK limit \in 1..req.page : limit = CandidateLimit(m, req)
    <3>1. m.frontier \in Seq(Nodes)
      BY <1>2
    <3>2. QED
      BY <3>1, CandidateLimitIs
  <2>7. PICK f : f = Filled(o, rows, limit)
    OBVIOUS
  <2>8. PICK t : t = TakenCount(f.pending, req.keys, NoNode)
    OBVIOUS
  <2>9. /\ ScanOK(Leftover(f, t), req, S) /\ ScanOK(Resting, req, S)
        /\ BatchOK(Candidates(f, t), req)
    BY <2>4, <2>7, <2>8, ScanStep
  <2>10. PICK q : q = IF pop THEN RestOf(req, m.frontier) ELSE m.frontier
    OBVIOUS
  <2>11. q \in Seq(S)
    BY <1>2, <1>5, <2>10, FrontierSplits
  <2>12. PICK sc : sc = IF Exhausted(Leftover(f, t)) THEN Resting ELSE Leftover(f, t)
    OBVIOUS
  <2>13. PICK b : b = Candidates(f, t)
    OBVIOUS
  <2>14. PICK st : st = IF b = <<>> THEN "candidates" ELSE "visibility"
    OBVIOUS
  <2>15. w = [m EXCEPT !.frontier = q, !.scan = sc, !.batch = b, !.state = st]
    BY <1>3, <1>5, <2>1, <2>3, <2>5, <2>6, <2>7, <2>8, <2>10, <2>12, <2>13, <2>14 DEF MaterializeTraversal
  <2>16. ScanOK(sc, req, S) /\ BatchOK(b, req)
    BY <2>9, <2>12, <2>13
  <2>17. sc \in ScanType /\ b \in Seq(CandType) /\ st \in States \ {"endpoints"}
    BY <2>14, <2>16 DEF ScanOK, BatchOK, States
  <2>18. /\ w \in TraversalType(S) /\ w.depth = m.depth /\ w.parent = m.parent /\ w.scan = sc
         /\ w.batch = b /\ w.state = st
    BY <1>1, <2>11, <2>15, <2>17 DEF TraversalType
  <2>19. QED
    BY <1>1, <1>3, <2>14, <2>16, <2>18 DEF TraversalOK, TreeAgrees, Paged
<1>6. QED
  BY <1>4, <1>5

----------------------------------------------------------------------------
(* Path searches: the endpoints *)

\* The recursion of the path searches over a batch is well-founded, too.
LEMMA ReachesIs ==
    ASSUME NEW m, NEW req, NEW hid, NEW N \in Nat, N = Len(m.batch), NEW f, f = Reaches(m, req, hid)
    PROVE  /\ f[0] = m
           /\ \A n \in 1..N : f[n] = IF Shown(hid, m.batch[n]) THEN Reached(f[n - 1], req, m.batch[n])
                                     ELSE f[n - 1]
<1> DEFINE Step(x, n) == IF Shown(hid, m.batch[n]) THEN Reached(x, req, m.batch[n]) ELSE x
           Next1(g, n) == IF n = 0 THEN m ELSE Step(g[n - 1], n)
           Obeys(g, k) == g = [n \in 0..k |-> Next1(g, n)]
           S == {k \in 0..N : \E g : Obeys(g, k)}
<1>5. Reaches(m, req, hid) = CHOOSE g : Obeys(g, N)
  BY DEF Reaches
<1> HIDE DEF Step
<1>1. 0 \in S
  <2>1. PICK g : g = [n \in 0..0 |-> m]
    OBVIOUS
  <2>2. Obeys(g, 0)
    BY <2>1
  <2>3. QED
    BY <2>2
<1>2. ASSUME NEW k \in 1..N, k - 1 \in S PROVE k \in S
  <2>1. PICK g : Obeys(g, k - 1)
    BY <1>2
  <2>2. PICK h : h = [n \in 0..k |-> IF n = k THEN Step(g[k - 1], k) ELSE g[n]]
    OBVIOUS
  <2>3. \A n \in 0..(k - 1) : h[n] = g[n] /\ g[n] = Next1(g, n)
    <3>1. \A n \in 0..(k - 1) : n \in 0..k /\ n # k
      OBVIOUS
    <3>2. QED
      BY <2>1, <2>2, <3>1
  <2>4. ASSUME NEW n \in 0..k PROVE h[n] = Next1(h, n)
    <3>1. CASE n = k
      <4>1. k - 1 \in 0..(k - 1) /\ n # 0
        BY <3>1
      <4>2. h[k - 1] = g[k - 1]
        BY <2>3, <4>1
      <4>3. h[n] = Step(g[k - 1], k)
        BY <2>2, <3>1
      <4>4. QED
        BY <3>1, <4>1, <4>2, <4>3
    <3>2. CASE n # k
      <4>1. n \in 0..(k - 1)
        BY <3>2
      <4>2. h[n] = Next1(g, n)
        BY <2>3, <4>1
      <4>3. CASE n = 0
        BY <4>2, <4>3
      <4>4. CASE n # 0
        <5>1. n - 1 \in 0..(k - 1)
          BY <4>1, <4>4
        <5>2. h[n - 1] = g[n - 1]
          BY <2>3, <5>1
        <5>3. QED
          BY <4>2, <4>4, <5>2
      <4>5. QED
        BY <4>3, <4>4
    <3>3. QED
      BY <3>1, <3>2
  <2>5. Obeys(h, k)
    <3>1. h = [n \in 0..k |-> h[n]]
      BY <2>2
    <3>2. QED
      BY <2>4, <3>1
  <2>6. QED
    BY <2>5
<1>3. N \in S
  <2> HIDE DEF S
  <2>1. \A n \in 0..N : n \in S
    BY <1>1, <1>2, UpTo
  <2>2. QED
    BY <2>1
<1>4. \E g : Obeys(g, N)
  BY <1>3
<1>6. Obeys(f, N)
  <2> HIDE DEF Obeys
  <2>1. QED
    BY <1>4, <1>5
<1>7. f = [n \in 0..N |-> Next1(f, n)]
  BY <1>6
<1>8. f[0] = Next1(f, 0) /\ \A n \in 1..N : f[n] = Next1(f, n)
  <2> HIDE DEF Next1
  <2>1. 0 \in 0..N /\ \A n \in 1..N : n \in 0..N
    OBVIOUS
  <2>2. QED
    BY <1>7, <2>1
<1>9. QED
  BY <1>8 DEF Step

\* One endpoint or two, each a node.
LEMMA EndpointsIs ==
    ASSUME NEW req \in ReqType, NEW e, e = Endpoints(req)
    PROVE  /\ e \in Seq(Nodes) /\ Len(e) \in 1..2
           /\ e[1] = req.source /\ e[Len(e)] = req.target
<1>1. req.source \in Nodes /\ req.target \in Nodes
  BY DEF ReqType
<1>2. CASE req.source = req.target
  BY <1>1, <1>2 DEF Endpoints
<1>3. CASE req.source # req.target
  BY <1>1, <1>3 DEF Endpoints
<1>4. QED
  BY <1>2, <1>3

\* A batch of endpoints: at least one, and those that come next.
LEMMA EndpointBatch ==
    ASSUME NEW req \in ReqType, NEW m, m.endpointCursor \in Nat, m.endpointCursor < Len(Endpoints(req))
    PROVE  \E end \in 0..Len(Endpoints(req)), b \in Seq(CandType) :
              /\ MaterializeEndpoints(m, req) =
                    [m EXCEPT !.endpointCursor = end, !.batchKind = "endpoints", !.state = "visibility",
                              !.batch = b]
              /\ BatchOK(b, req) /\ b # <<>> /\ Len(b) = end - m.endpointCursor
              /\ \A i \in 1..Len(b) : b[i].to = Endpoints(req)[m.endpointCursor + i]
<1>1. PICK e \in Seq(Nodes) : e = Endpoints(req) /\ Len(e) \in Nat
  BY EndpointsIs
<1>2. req.page \in Nat \ {0} /\ req.keys \in Nat \ {0} /\ req.page \in Int /\ req.keys \in Int
  BY DEF ReqType
<1>3. PICK k : k = Min({req.page, req.keys})
  OBVIOUS
<1>4. k \in {req.page, req.keys} /\ k <= req.page /\ k <= req.keys
  BY <1>2, <1>3, MinOfTwo
<1>5. k \in Nat \ {0} /\ Len(e) \in Int /\ m.endpointCursor + k \in Int
  BY <1>1, <1>2, <1>4
<1>6. PICK end : end = Min({m.endpointCursor + k, Len(e)})
  OBVIOUS
<1>7. end \in {m.endpointCursor + k, Len(e)} /\ end <= m.endpointCursor + k /\ end <= Len(e)
  BY <1>5, <1>6, MinOfTwo
<1>8. end \in 0..Len(e) /\ end - m.endpointCursor \in Nat \ {0} /\ end - m.endpointCursor <= k
  BY <1>1, <1>5, <1>7
<1>9. PICK n \in Nat \ {0} : n = end - m.endpointCursor
  BY <1>8
<1> DEFINE C(i) == [from |-> e[m.endpointCursor + i], to |-> e[m.endpointCursor + i], id |-> 0, w |-> 0]
<1>10. PICK b : b = [i \in 1..n |-> C(i)]
  OBVIOUS
<1>11. \A i \in 1..n : m.endpointCursor + i \in 1..Len(e)
  BY <1>1, <1>8, <1>9
<1>12. \A i \in 1..n : C(i) \in CandType /\ C(i).to = e[m.endpointCursor + i]
  BY <1>1, <1>11 DEF CandType
<1>13. b \in [1..n -> CandType] /\ \A i \in 1..n : b[i].to = e[m.endpointCursor + i]
  <2> HIDE DEF C
  <2>1. QED
    BY <1>10, <1>12
<1>14. b \in Seq(CandType) /\ Len(b) = n /\ b # <<>>
  BY <1>13
<1>15. BatchOK(b, req)
  BY <1>2, <1>4, <1>5, <1>8, <1>9, <1>14 DEF BatchOK
<1>16. MaterializeEndpoints(m, req) =
          [m EXCEPT !.endpointCursor = end, !.batchKind = "endpoints", !.state = "visibility",
                    !.batch = b]
  BY <1>1, <1>3, <1>6, <1>9, <1>10 DEF MaterializeEndpoints
<1>17. \A i \in 1..Len(b) : b[i].to = Endpoints(req)[m.endpointCursor + i]
  BY <1>1, <1>13, <1>14
<1>18. Len(b) = end - m.endpointCursor /\ end \in 0..Len(Endpoints(req))
  BY <1>1, <1>8, <1>9, <1>14
<1>19. QED
  BY <1>14, <1>15, <1>16, <1>17, <1>18

\* Asking for endpoints.
LEMMA AskingKeeps ==
    ASSUME NEW S \in SUBSET Nodes, NEW req \in ReqType, NEW m, Paged(m, req, S), EndpointsOK(m, req, S),
           m.state = "endpoints",
           NEW end \in 0..Len(Endpoints(req)), NEW b \in Seq(CandType), BatchOK(b, req), b # <<>>,
           Len(b) = end - m.endpointCursor,
           \A i \in 1..Len(b) : b[i].to = Endpoints(req)[m.endpointCursor + i],
           NEW v, v.scan = m.scan, v.endpointHidden = m.endpointHidden, v.endpointCursor = end,
           v.batchKind = "endpoints", v.state = "visibility", v.batch = b
    PROVE  Paged(v, req, S) /\ EndpointsOK(v, req, S) /\ Asking(m) /\ Asking(v)
<1>1. Asking(m) /\ Asking(v) /\ m.batchKind = "none"
  BY DEF Asking, EndpointsOK
<1>2. Paged(v, req, S)
  BY DEF Paged
<1>3. Asked(m) = m.endpointCursor /\ m.endpointCursor \in Nat
  <2>1. m.endpointCursor \in Nat
    BY EndpointsIs DEF EndpointsOK
  <2>2. QED
    BY <1>1, <2>1 DEF Asked
<1>4. Asked(v) = m.endpointCursor
  <2>1. Len(b) \in Nat /\ end \in Int
    BY EndpointsIs
  <2>2. Asked(v) = end - Len(b)
    BY DEF Asked
  <2>3. QED
    BY <1>3, <2>1, <2>2
<1>5. QED
  BY <1>1, <1>2, <1>3, <1>4 DEF EndpointsOK

\* The answers about endpoints: h tells whether one of them is hidden.
LEMMA AnswersKeep ==
    ASSUME NEW S \in SUBSET Nodes, NEW req \in ReqType, NEW m, Paged(m, req, S), EndpointsOK(m, req, S),
           m.batchKind = "endpoints", NEW hid,
           \A i \in 1..Len(m.batch) : Shown(hid, m.batch[i]) => m.batch[i].to \in S,
           NEW h \in BOOLEAN,
           h = (m.endpointHidden \/ \E i \in DOMAIN m.batch : ~Shown(hid, m.batch[i])),
           NEW v, v.scan = m.scan, v.endpointHidden = h, v.endpointCursor = m.endpointCursor,
           v.batchKind = "none", v.batch = <<>>, v.state \in {"endpoints", "candidates", "complete"},
           v.state = "endpoints" <=> m.endpointCursor < Len(Endpoints(req)),
           h => v.state # "candidates"
    PROVE  Paged(v, req, S) /\ EndpointsOK(v, req, S)
<1>1. Paged(v, req, S)
  <2>1. <<>> \in Seq(CandType) /\ Len(<<>>) = 0 /\ 0 <= req.page /\ 0 <= req.keys
    BY DEF ReqType
  <2>2. QED
    BY <2>1 DEF Paged, BatchOK
<1>2. m.batch \in Seq(CandType) /\ DOMAIN m.batch = 1..Len(m.batch) /\ Len(m.batch) \in Nat
  BY DEF Paged, BatchOK
<1>3. Asked(m) \in Nat /\ m.endpointCursor = Asked(m) + Len(m.batch) /\ m.endpointCursor \in Nat
  <2>1. m.endpointCursor \in Nat
    BY EndpointsIs DEF EndpointsOK
  <2>2. QED
    BY <1>2, <2>1 DEF Asked, EndpointsOK
<1>4. Asked(v) = m.endpointCursor
  BY <1>3 DEF Asked
<1>5. ASSUME ~h, NEW i \in 1..m.endpointCursor PROVE Endpoints(req)[i] \in S
  <2>1. ~m.endpointHidden /\ \A k \in 1..Len(m.batch) : Shown(hid, m.batch[k])
    BY <1>2, <1>5
  <2>2. CASE i <= Asked(m)
    BY <1>3, <2>1, <2>2 DEF EndpointsOK
  <2>3. CASE i > Asked(m)
    <3>1. PICK k \in 1..Len(m.batch) : i = Asked(m) + k
      <4>1. i - Asked(m) \in 1..Len(m.batch) /\ i = Asked(m) + (i - Asked(m))
        BY <1>2, <1>3, <2>3
      <4>2. QED
        BY <4>1
    <3>2. m.batch[k].to = Endpoints(req)[i]
      BY <3>1 DEF EndpointsOK
    <3>3. m.batch[k].to \in S
      BY <2>1, <3>1
    <3>4. QED
      BY <3>2, <3>3
  <2>4. QED
    BY <1>3, <2>2, <2>3
<1>6. Asking(v) => m.scan = Resting
  BY DEF EndpointsOK, Asking
<1>7. QED
  BY <1>1, <1>3, <1>4, <1>5, <1>6 DEF EndpointsOK, Asking

\* Past the endpoints nothing of the protocol changes.
LEMMA AnsweredStays ==
    ASSUME NEW S, NEW req, NEW m, EndpointsOK(m, req, S), ~Asking(m), m.state # "complete",
           NEW v, v.endpointCursor = m.endpointCursor, v.endpointHidden = m.endpointHidden,
           v.state # "endpoints", v.batchKind # "endpoints", v.state = "visibility" => v.batchKind # "none"
    PROVE  EndpointsOK(v, req, S) /\ ~Asking(v) /\ ~v.endpointHidden /\ ~m.endpointHidden
<1>1. ~Asking(v) /\ ~m.endpointHidden
  BY DEF EndpointsOK, Asking
<1>2. Asked(v) = Asked(m)
  BY DEF Asked, Asking
<1>3. QED
  BY <1>1, <1>2 DEF EndpointsOK

----------------------------------------------------------------------------
(* Path searches: single direction *)

\* Asking for endpoints.
LEMMA AskSingle ==
    ASSUME NEW S \in SUBSET Nodes, NEW req \in ReqType, NEW m, SingleOK(m, req, S), m.state = "endpoints"
    PROVE  SingleOK(MaterializeEndpoints(m, req), req, S)
<1>1. m \in SingleType(S) /\ Paged(m, req, S) /\ EndpointsOK(m, req, S)
  BY DEF SingleOK
<1>2. m.endpointCursor \in Nat /\ m.endpointCursor < Len(Endpoints(req))
  BY <1>1 DEF SingleType, EndpointsOK
<1>3. PICK end \in 0..Len(Endpoints(req)), b \in Seq(CandType) :
              /\ MaterializeEndpoints(m, req) =
                    [m EXCEPT !.endpointCursor = end, !.batchKind = "endpoints", !.state = "visibility",
                              !.batch = b]
              /\ BatchOK(b, req) /\ b # <<>> /\ Len(b) = end - m.endpointCursor
              /\ \A i \in 1..Len(b) : b[i].to = Endpoints(req)[m.endpointCursor + i]
  BY <1>2, EndpointBatch
<1>4. PICK v : v = MaterializeEndpoints(m, req)
  OBVIOUS
<1>5. end \in Nat /\ "visibility" \in States
  BY EndpointsIs DEF States
<1>6. /\ v \in SingleType(S) /\ v.scan = m.scan /\ v.endpointHidden = m.endpointHidden
      /\ v.endpointCursor = end /\ v.batchKind = "endpoints" /\ v.state = "visibility" /\ v.batch = b
  BY <1>1, <1>3, <1>4, <1>5 DEF SingleType
<1>7. Paged(v, req, S) /\ EndpointsOK(v, req, S)
  BY <1>1, <1>3, <1>6, AskingKeeps
<1>8. QED
  BY <1>4, <1>6, <1>7 DEF SingleOK

\* The source becomes the frontier once both endpoints were shown.
LEMMA AnswerSingle ==
    ASSUME NEW S \in SUBSET Nodes, NEW req \in ReqType, req.kind = "single", NEW m, SingleOK(m, req, S),
           m.batchKind = "endpoints", NEW hid,
           \A i \in 1..Len(m.batch) : Shown(hid, m.batch[i]) => m.batch[i].to \in S
    PROVE  SingleOK(AdmitEndpoints(m, req, hid), req, S)
<1>1. m \in SingleType(S) /\ Paged(m, req, S) /\ EndpointsOK(m, req, S)
  BY DEF SingleOK
<1>2. PICK h \in BOOLEAN : h = (m.endpointHidden \/ \E i \in DOMAIN m.batch : ~Shown(hid, m.batch[i]))
  BY <1>1 DEF SingleType
<1>3. PICK x : x = [m EXCEPT !.endpointHidden = h, !.batch = <<>>, !.batchKind = "none", !.state = "candidates"]
  OBVIOUS
<1>4. <<>> \in Seq(CandType) /\ {"candidates", "complete", "endpoints"} \subseteq States
  BY DEF States
<1>5. /\ x \in SingleType(S) /\ x.scan = m.scan /\ x.endpointHidden = h /\ x.endpointCursor = m.endpointCursor
      /\ x.batchKind = "none" /\ x.batch = <<>> /\ x.state = "candidates"
  BY <1>1, <1>3, <1>4 DEF SingleType
<1>6. PICK v : v = AdmitEndpoints(m, req, hid)
  OBVIOUS
<1> DEFINE Fields(y) == /\ y \in SingleType(S) /\ y.scan = m.scan /\ y.endpointHidden = h
                        /\ y.endpointCursor = m.endpointCursor /\ y.batchKind = "none" /\ y.batch = <<>>
<1>7. ASSUME NEW s \in {"candidates", "complete", "endpoints"}, NEW y, y = [x EXCEPT !.state = s]
      PROVE  Fields(y) /\ y.state = s
  BY <1>4, <1>5, <1>7 DEF SingleType
<1>8. Fields(Complete(x)) /\ Complete(x).state = "complete"
  BY <1>7 DEF Complete
<1>9. Fields(Found(x)) /\ Found(x).state = "complete"
  <2>1. PICK y : y = Complete(x)
    OBVIOUS
  <2>2. Found(x) = [y EXCEPT !.found = TRUE]
    BY <2>1 DEF Found
  <2>3. QED
    BY <1>8, <2>1, <2>2 DEF SingleType
<1>10. CASE m.endpointCursor < Len(Endpoints(req))
  <2>1. v = [x EXCEPT !.state = "endpoints"]
    BY <1>2, <1>3, <1>6, <1>10 DEF AdmitEndpoints
  <2>2. Fields(v) /\ v.state = "endpoints"
    BY <1>7, <2>1
  <2>3. Paged(v, req, S) /\ EndpointsOK(v, req, S)
    BY <1>1, <1>2, <1>10, <2>2, AnswersKeep
  <2>4. QED
    BY <1>6, <2>2, <2>3 DEF SingleOK
<1>11. CASE ~(m.endpointCursor < Len(Endpoints(req))) /\ (h \/ req.source = req.target \/ req.maxDepth <= 0)
  <2>1. v \in {Complete(x), Found(x)}
    BY <1>2, <1>3, <1>6, <1>11 DEF AdmitEndpoints
  <2>2. Fields(v) /\ v.state = "complete"
    BY <1>8, <1>9, <2>1
  <2>3. Paged(v, req, S) /\ EndpointsOK(v, req, S)
    BY <1>1, <1>2, <1>11, <2>2, AnswersKeep
  <2>4. QED
    BY <1>6, <2>2, <2>3 DEF SingleOK
<1>12. CASE ~(m.endpointCursor < Len(Endpoints(req))) /\ ~(h \/ req.source = req.target \/ req.maxDepth <= 0)
  <2>1. v = [x EXCEPT !.tree.frontier = <<req.source>>]
    BY <1>2, <1>3, <1>6, <1>12 DEF AdmitEndpoints
  <2>2. Paged(x, req, S) /\ EndpointsOK(x, req, S)
    BY <1>1, <1>2, <1>5, <1>12, AnswersKeep
  <2>3. req.source \in S
    <3>1. Len(Endpoints(req)) \in 1..2 /\ Endpoints(req)[1] = req.source
      BY EndpointsIs
    <3>2. Asked(x) = m.endpointCursor /\ m.endpointCursor \in Nat
      BY <1>1, <1>5 DEF Asked, SingleType
    <3>3. 1 \in 1..Asked(x)
      BY <1>12, <3>1, <3>2
    <3>4. QED
      BY <1>5, <1>12, <2>2, <3>1, <3>3 DEF EndpointsOK
  <2>4. PICK tr : tr = [x.tree EXCEPT !.frontier = <<req.source>>]
    OBVIOUS
  <2>5. tr \in SideType(S)
    <3>1. x.tree \in SideType(S)
      BY <1>5 DEF SingleType
    <3>2. <<req.source>> \in Seq(S)
      BY <2>3
    <3>3. QED
      BY <2>4, <3>1, <3>2 DEF SideType
  <2>6. v = [x EXCEPT !.tree = tr]
    BY <2>1, <2>4
  <2>7. Fields(v) /\ v.state = "candidates"
    BY <1>5, <2>5, <2>6 DEF SingleType
  <2>8. Paged(v, req, S) /\ EndpointsOK(v, req, S)
    BY <1>1, <1>2, <1>12, <2>7, AnswersKeep
  <2>9. QED
    BY <1>6, <2>7, <2>8 DEF SingleOK
<1>13. QED
  BY <1>10, <1>11, <1>12

\* Dropping the nodes at the depth limit leaves nodes of the frontier.
LEMMA QueueIs ==
    ASSUME NEW S, NEW q \in Seq(S), NEW P \in SUBSET DOMAIN q, NEW within, within = Ascending(P)
    PROVE  [k \in DOMAIN within |-> q[within[k]]] \in Seq(S)
<1>1. PICK N \in Nat : N = Len(q) /\ DOMAIN q = 1..N
  OBVIOUS
<1>2. within \in Seq(P) /\ DOMAIN within = 1..Len(within) /\ Len(within) \in Nat
  BY <1>1, AscendingIs
<1>3. \A k \in 1..Len(within) : q[within[k]] \in S
  <2>1. \A k \in 1..Len(within) : within[k] \in DOMAIN q
    BY <1>2
  <2>2. QED
    BY <1>1, <2>1
<1>4. QED
  BY <1>2, <1>3

\* Cutting a batch: the node that is read was in the frontier.
LEMMA MaterializeSingleKeeps ==
    ASSUME NEW S \in SUBSET Nodes, NEW req \in ReqType, NEW g \in SUBSET DOMAIN Universe, NEW m,
           SingleOK(m, req, S), m.state = "candidates"
    PROVE  SingleOK(MaterializeSingle(m, req, g), req, S)
<1>1. m \in SingleType(S) /\ Paged(m, req, S) /\ EndpointsOK(m, req, S)
  BY DEF SingleOK
<1>2. /\ m.tree \in SideType(S) /\ m.tree.frontier \in Seq(S) /\ ScanOK(m.scan, req, S)
      /\ m.batch = <<>> /\ m.batch \in Seq(CandType)
  BY <1>1 DEF SingleType, SideType, Paged
<1>3. ~Asking(m)
  BY <1>1 DEF EndpointsOK, Asking
<1>4. PICK v : v = MaterializeSingle(m, req, g)
  OBVIOUS
<1> DEFINE pop == m.scan.active = NoNode
           P == {i \in DOMAIN m.tree.frontier : m.tree.depth[m.tree.frontier[i]] < req.maxDepth}
<1>5. PICK within : within = Ascending(P)
  OBVIOUS
<1>6. PICK queue : queue = [k \in DOMAIN within |-> m.tree.frontier[within[k]]]
  OBVIOUS
<1>7. queue \in Seq(S)
  <2>1. P \in SUBSET DOMAIN m.tree.frontier
    OBVIOUS
  <2> HIDE DEF P
  <2>2. QED
    BY <1>2, <1>5, <1>6, <2>1, QueueIs
\* A complete machine that is otherwise as good.
<1>8. ASSUME NEW x, x \in SingleType(S), ScanOK(x.scan, req, S), x.batch = <<>>,
             x.endpointCursor = m.endpointCursor, x.endpointHidden = m.endpointHidden,
             x.batchKind = m.batchKind, NEW y, y = Complete(x)
      PROVE  SingleOK(y, req, S)
  <2>1. "complete" \in States /\ y = [x EXCEPT !.state = "complete"]
    BY <1>8 DEF States, Complete
  <2>2. /\ y \in SingleType(S) /\ y.scan = x.scan /\ y.batch = <<>> /\ y.state = "complete"
        /\ y.endpointCursor = m.endpointCursor /\ y.endpointHidden = m.endpointHidden
        /\ y.batchKind = m.batchKind
    BY <1>8, <2>1 DEF SingleType
  <2>3. EndpointsOK(y, req, S)
    <3>1. y.batchKind # "endpoints" /\ y.state # "endpoints"
      BY <1>3, <2>2 DEF Asking
    <3>2. QED
      BY <1>1, <1>3, <2>2, <3>1, AnsweredStays
  <2>4. Paged(y, req, S)
    BY <1>1, <1>2, <1>8, <2>2 DEF Paged
  <2>5. QED
    BY <2>2, <2>3, <2>4 DEF SingleOK
<1>9. CASE pop /\ queue = <<>>
  <2>1. v = Complete(m)
    BY <1>4, <1>5, <1>6, <1>9 DEF MaterializeSingle
  <2>2. QED
    BY <1>1, <1>2, <1>4, <1>8, <2>1, SMTT(40)
<1>10. CASE ~(pop /\ queue = <<>>)
  <2>1. PICK current : current = IF pop THEN Head(queue) ELSE m.scan.active
    OBVIOUS
  <2>2. current \in S
    <3>1. CASE pop
      BY <1>7, <1>10, <2>1, <3>1
    <3>2. CASE ~pop
      BY <1>2, <2>1, <3>2 DEF ScanOK
    <3>3. QED
      BY <3>1, <3>2
  <2>3. PICK o : o = IF pop THEN Opened(current) ELSE m.scan
    OBVIOUS
  <2>4. ScanOK(o, req, S) /\ o.active \in S
    <3>1. CASE pop
      BY <2>2, <2>3, <3>1, OpenedIs
    <3>2. CASE ~pop
      BY <1>2, <2>1, <2>2, <2>3, <3>2
    <3>3. QED
      BY <3>1, <3>2
  <2>5. PICK rows \in Seq(RowType) : rows = Adjacency(g, FALSE, current)
    BY <2>2, AdjacencyIs
  <2>6. req.page \in 1..req.page
    BY DEF ReqType
  <2>7. PICK f : f = Filled(o, rows, req.page)
    OBVIOUS
  <2>8. PICK t : t = TakenCount(f.pending, req.keys, req.target)
    OBVIOUS
  <2>9. /\ ScanOK(Leftover(f, t), req, S) /\ ScanOK(Resting, req, S)
        /\ BatchOK(Candidates(f, t), req)
    BY <2>4, <2>6, <2>7, <2>8, ScanStep
  <2>10. PICK b : b = Candidates(f, t)
    OBVIOUS
  <2>11. PICK done \in BOOLEAN : done = (Exhausted(Leftover(f, t)) /\ ~(b # <<>> /\ Last(b).to = req.target))
    OBVIOUS
  <2>12. PICK sc : sc = IF done THEN Resting ELSE Leftover(f, t)
    OBVIOUS
  <2>13. PICK rest : rest = IF pop THEN Tail(queue) ELSE m.tree.frontier
    OBVIOUS
  <2>14. rest \in Seq(S)
    BY <1>2, <1>7, <1>10, <2>13
  <2>15. PICK tr : tr = [m.tree EXCEPT !.frontier = rest]
    OBVIOUS
  <2>16. tr \in SideType(S)
    BY <1>2, <2>14, <2>15 DEF SideType
  <2>17. ScanOK(sc, req, S) /\ BatchOK(b, req)
    BY <2>9, <2>10, <2>12
  <2>18. PICK x : x = [m EXCEPT !.tree = tr, !.scan = sc]
    OBVIOUS
  <2>19. sc \in ScanType /\ b \in Seq(CandType)
    BY <2>17 DEF ScanOK, BatchOK
  <2>20. /\ x \in SingleType(S) /\ x.scan = sc /\ x.batch = <<>> /\ x.state = "candidates"
         /\ x.endpointCursor = m.endpointCursor /\ x.endpointHidden = m.endpointHidden
         /\ x.batchKind = m.batchKind
    BY <1>1, <1>2, <2>16, <2>18, <2>19 DEF SingleType
  <2>21. v = IF b = <<>> /\ done /\ rest = <<>> THEN Complete(x) ELSE Batched(x, b)
    BY ZenonT(60), <1>4, <1>5, <1>6, <1>10, <2>1, <2>3, <2>5, <2>7, <2>8, <2>10, <2>11, <2>12, <2>13, <2>15, <2>18
       DEF MaterializeSingle
  <2>22. CASE v = Complete(x)
    BY <1>4, <1>8, <2>17, <2>20, <2>22
  <2>23. CASE v = Batched(x, b)
    <3>1. PICK st : st = IF b = <<>> THEN "candidates" ELSE "visibility"
      OBVIOUS
    <3>2. v = [x EXCEPT !.batch = b, !.batchKind = "adjacency", !.state = st] /\ st \in States
      BY <2>23, <3>1 DEF Batched, States
    <3>3. /\ v \in SingleType(S) /\ v.scan = sc /\ v.batch = b /\ v.state = st
          /\ v.endpointCursor = m.endpointCursor /\ v.endpointHidden = m.endpointHidden
          /\ v.batchKind = "adjacency"
      BY <2>19, <2>20, <3>2 DEF SingleType
    <3>4. EndpointsOK(v, req, S)
      BY <1>1, <1>3, <3>1, <3>3, AnsweredStays
    <3>5. Paged(v, req, S)
      BY <2>17, <3>1, <3>3 DEF Paged
    <3>6. QED
      BY <1>4, <3>3, <3>4, <3>5 DEF SingleOK
  <2>24. QED
    BY <2>21, <2>22, <2>23
<1>11. QED
  BY <1>9, <1>10

\* A node of S joins a side.
LEMMA GrowKeeps ==
    ASSUME NEW S \in SUBSET Nodes, NEW side \in SideType(S), NEW c \in CandType, c.to \in S, NEW d \in Int
    PROVE  /\ Grow(side, c, d) \in SideType(S)
           /\ Len(Grow(side, c, d).frontier) = Len(side.frontier) + 1
<1>1. side.frontier \in Seq(S) /\ side.depth \in Depths /\ side.parent \in Parents
  BY DEF SideType
<1>2. c.from \in Nodes /\ c.to \in Nodes
  BY DEF CandType
<1>3. PICK D, P, q : /\ D = [side.depth EXCEPT ![c.to] = d] /\ P = [side.parent EXCEPT ![c.to] = c.from]
                     /\ q = Append(side.frontier, c.to)
  OBVIOUS
<1>4. D \in Depths /\ P \in Parents /\ q \in Seq(S) /\ Len(q) = Len(side.frontier) + 1
  <2>1. D \in Depths
    BY <1>1, <1>3 DEF Depths
  <2>2. P \in Parents
    BY <1>1, <1>2, <1>3 DEF Parents
  <2>3. q \in Seq(S) /\ Len(q) = Len(side.frontier) + 1
    BY <1>1, <1>3
  <2>4. QED
    BY <2>1, <2>2, <2>3
<1>5. Grow(side, c, d) = [side EXCEPT !.depth = D, !.parent = P, !.frontier = q]
  BY <1>3 DEF Grow
<1>6. QED
  BY <1>4, <1>5 DEF SideType

\* A visible candidate joins the tree.
LEMMA ReachSingleKeeps ==
    ASSUME NEW S \in SUBSET Nodes, NEW req, NEW m \in SingleType(S), NEW c \in CandType, c.to \in S,
           NEW v, v = ReachSingle(m, req, c)
    PROVE  /\ v \in SingleType(S) /\ v.scan = m.scan /\ v.batch = m.batch /\ v.state = m.state
           /\ v.batchKind = m.batchKind /\ v.endpointCursor = m.endpointCursor
           /\ v.endpointHidden = m.endpointHidden
<1>1. CASE m.found \/ c.to \in Seen(m.tree)
  BY <1>1 DEF ReachSingle
<1>2. CASE ~(m.found \/ c.to \in Seen(m.tree))
  <2>1. m.tree \in SideType(S)
    BY DEF SingleType
  <2>2. m.tree.depth[c.from] + 1 \in Int
    BY <2>1 DEF SideType, Depths, CandType
  <2>3. PICK tr : tr = Grow(m.tree, c, m.tree.depth[c.from] + 1)
    OBVIOUS
  <2>4. tr \in SideType(S)
    BY <2>1, <2>2, <2>3, GrowKeeps
  <2>5. PICK b \in BOOLEAN : b = (c.to = req.target)
    OBVIOUS
  <2>6. v = [m EXCEPT !.tree = tr, !.found = b]
    BY <1>2, <2>3, <2>5 DEF ReachSingle
  <2>7. QED
    BY <2>4, <2>5, <2>6 DEF SingleType
<1>3. QED
  BY <1>1, <1>2

\* A machine whose batch is done with.
Emptied(x, s) == [x EXCEPT !.batch = <<>>, !.batchKind = "none", !.state = s]

\* The visible candidates of a batch are in S; the set Good of machines is closed
\* under admitting a candidate in S.
VisibleIn(m, hid, S) == \A i \in 1..Len(m.batch) : Shown(hid, m.batch[i]) => m.batch[i].to \in S
Closed(Good, req, S) == \A x \in Good : \A c \in CandType : c.to \in S => Reached(x, req, c) \in Good

\* Admitting a batch: what passes from machine to machine with every visible candidate
\* holds of the last one.
LEMMA ReachesKeep ==
    ASSUME NEW S, NEW req, NEW m, NEW hid, m.batch \in Seq(CandType),
           VisibleIn(m, hid, S), NEW Good, m \in Good, Closed(Good, req, S)
    PROVE  \E x \in Good, s \in {"complete", "candidates"} :
              AdmitCandidates(m, req, hid) = Emptied(x, s)
<1>1. PICK N \in Nat : N = Len(m.batch)
  OBVIOUS
<1>2. PICK f : f = Reaches(m, req, hid)
  OBVIOUS
<1>3. /\ f[0] = m
      /\ \A n \in 1..N : f[n] = IF Shown(hid, m.batch[n]) THEN Reached(f[n - 1], req, m.batch[n])
                                ELSE f[n - 1]
  BY <1>1, <1>2, ReachesIs
<1> DEFINE G == {n \in 0..N : f[n] \in Good}
<1>4. 0 \in G
  BY <1>1, <1>3
<1>5. ASSUME NEW n \in 1..N, n - 1 \in G PROVE n \in G
  <2>1. n \in 0..N /\ f[n - 1] \in Good /\ m.batch[n] \in CandType
    BY <1>1, <1>5
  <2>2. CASE Shown(hid, m.batch[n])
    <3>1. m.batch[n].to \in S /\ f[n] = Reached(f[n - 1], req, m.batch[n])
      BY <1>1, <1>3, <2>2 DEF VisibleIn
    <3>2. QED
      BY <2>1, <3>1 DEF Closed
  <2>3. CASE ~Shown(hid, m.batch[n])
    <3>1. f[n] = f[n - 1]
      BY <1>3, <2>3
    <3>2. QED
      BY <2>1, <3>1
  <2>4. QED
    BY <2>2, <2>3
<1>6. f[N] \in Good
  <2> HIDE DEF G
  <2>1. \A n \in 0..N : n \in G
    BY <1>4, <1>5, UpTo
  <2>2. N \in G
    BY <2>1
  <2>3. QED
    BY <2>2 DEF G
<1>7. PICK s \in {"complete", "candidates"} :
         AdmitCandidates(m, req, hid) = Emptied(f[N], s)
  BY <1>1, <1>2 DEF AdmitCandidates, Emptied
<1>8. QED
  BY <1>6, <1>7

\* After a batch a machine has none, and the endpoints stay answered.
LEMMA EmptiedKeeps ==
    ASSUME NEW S, NEW req \in ReqType, NEW m, Paged(m, req, S), EndpointsOK(m, req, S),
           m.state = "visibility", m.batchKind = "adjacency",
           NEW v, v.scan = m.scan, v.batch = <<>>, v.batchKind = "none",
           v.state \in {"complete", "candidates"}, v.endpointCursor = m.endpointCursor,
           v.endpointHidden = m.endpointHidden
    PROVE  Paged(v, req, S) /\ EndpointsOK(v, req, S) /\ ~Asking(v) /\ ~Asking(m)
           /\ ~v.endpointHidden /\ ~m.endpointHidden
<1>1. ~Asking(m)
  BY DEF Asking
<1>2. EndpointsOK(v, req, S) /\ ~Asking(v) /\ ~v.endpointHidden /\ ~m.endpointHidden
  BY <1>1, AnsweredStays
<1>3. v.batch \in Seq(CandType) /\ Len(v.batch) = 0 /\ 0 <= req.page /\ 0 <= req.keys
  BY DEF ReqType
<1>4. Paged(v, req, S)
  BY <1>3 DEF Paged, BatchOK
<1>5. QED
  BY <1>1, <1>2, <1>4

\* Admitting the candidates of a single-direction search.
LEMMA AdmitSingleKeeps ==
    ASSUME NEW S \in SUBSET Nodes, NEW req \in ReqType, req.kind = "single", NEW m, SingleOK(m, req, S),
           m.state = "visibility", m.batchKind = "adjacency", NEW hid, VisibleIn(m, hid, S)
    PROVE  SingleOK(AdmitCandidates(m, req, hid), req, S)
<1>1. m \in SingleType(S) /\ Paged(m, req, S) /\ EndpointsOK(m, req, S)
  BY DEF SingleOK
<1> DEFINE Good == {x \in SingleType(S) :
                      /\ x.scan = m.scan /\ x.batch = m.batch /\ x.state = m.state
                      /\ x.batchKind = m.batchKind /\ x.endpointCursor = m.endpointCursor
                      /\ x.endpointHidden = m.endpointHidden}
<1>2. m \in Good /\ m.batch \in Seq(CandType)
  BY <1>1 DEF SingleType
<1>3. Closed(Good, req, S)
  <2>1. ASSUME NEW x \in Good, NEW c \in CandType, c.to \in S PROVE Reached(x, req, c) \in Good
    <3>1. Reached(x, req, c) = ReachSingle(x, req, c)
      BY DEF Reached
    <3>2. QED
      BY <2>1, <3>1, ReachSingleKeeps
  <2> HIDE DEF Good
  <2>2. QED
    BY <2>1 DEF Closed
<1>4. PICK x \in Good, s \in {"complete", "candidates"} :
         AdmitCandidates(m, req, hid) = Emptied(x, s)
  <2> HIDE DEF Good
  <2>1. QED
    BY <1>2, <1>3, ReachesKeep
<1>5. PICK v : v = AdmitCandidates(m, req, hid)
  OBVIOUS
<1>6. x \in SingleType(S) /\ v = [x EXCEPT !.batch = <<>>, !.batchKind = "none", !.state = s]
  BY <1>4, <1>5 DEF Emptied
<1>7. s \in States /\ <<>> \in Seq(CandType)
  BY DEF States
<1>8. /\ v \in SingleType(S) /\ v.scan = m.scan /\ v.batch = <<>> /\ v.state = s /\ v.batchKind = "none"
      /\ v.endpointCursor = m.endpointCursor /\ v.endpointHidden = m.endpointHidden
  <2>1. x.scan = m.scan /\ x.endpointCursor = m.endpointCursor /\ x.endpointHidden = m.endpointHidden
    BY <1>4
  <2> HIDE DEF Good
  <2>2. QED
    BY <1>6, <1>7, <2>1 DEF SingleType
<1>9. Paged(v, req, S) /\ EndpointsOK(v, req, S)
  BY <1>1, <1>8, EmptiedKeeps
<1>10. QED
  BY <1>5, <1>8, <1>9 DEF SingleOK

----------------------------------------------------------------------------
(* Path searches: both directions *)

\* Asking for endpoints.
LEMMA AskBoth ==
    ASSUME NEW S \in SUBSET Nodes, NEW req \in ReqType, NEW m, BothOK(m, req, S), m.state = "endpoints"
    PROVE  BothOK(MaterializeEndpoints(m, req), req, S)
<1>1. Asking(m) /\ Paged(m, req, S) /\ EndpointsOK(m, req, S) /\ BothLevels(m)
  BY DEF BothOK, Asking
<1>2. m \in BothType(Nodes) /\ m.forward.frontier = <<req.source>> /\ m.backward.frontier = <<req.target>>
  BY <1>1 DEF BothOK
<1>3. m.endpointCursor \in Nat /\ m.endpointCursor < Len(Endpoints(req))
  BY <1>1, <1>2 DEF BothType, EndpointsOK
<1>4. PICK end \in 0..Len(Endpoints(req)), b \in Seq(CandType) :
              /\ MaterializeEndpoints(m, req) =
                    [m EXCEPT !.endpointCursor = end, !.batchKind = "endpoints", !.state = "visibility",
                              !.batch = b]
              /\ BatchOK(b, req) /\ b # <<>> /\ Len(b) = end - m.endpointCursor
              /\ \A i \in 1..Len(b) : b[i].to = Endpoints(req)[m.endpointCursor + i]
  BY <1>3, EndpointBatch
<1>5. PICK v : v = MaterializeEndpoints(m, req)
  OBVIOUS
<1>6. end \in Nat /\ "visibility" \in States
  BY EndpointsIs DEF States
<1>7. /\ v \in BothType(Nodes) /\ v.scan = m.scan /\ v.endpointHidden = m.endpointHidden
      /\ v.endpointCursor = end /\ v.batchKind = "endpoints" /\ v.state = "visibility" /\ v.batch = b
      /\ v.forward = m.forward /\ v.backward = m.backward /\ v.side = m.side
      /\ v.levelRemaining = m.levelRemaining
  BY <1>2, <1>4, <1>5, <1>6, ZenonT(60) DEF BothType
<1>8. Paged(v, req, S) /\ EndpointsOK(v, req, S) /\ Asking(v)
  BY <1>1, <1>4, <1>7, AskingKeeps
<1>9. BothLevels(v)
  BY <1>1, <1>7 DEF BothLevels
<1>10. QED
  BY <1>2, <1>5, <1>7, <1>8, <1>9 DEF BothOK

\* A machine whose two sides wait in S.
LEMMA BothNarrow ==
    ASSUME NEW S, NEW T, NEW m \in BothType(T), m.forward.frontier \in Seq(S), m.backward.frontier \in Seq(S)
    PROVE  m \in BothType(S)
<1>1. m.forward \in SideType(T) /\ m.backward \in SideType(T)
  BY DEF BothType
<1>2. m.forward \in SideType(S)
  BY <1>1 DEF SideType
<1>3. m.backward \in SideType(S)
  BY <1>1 DEF SideType
<1>4. QED
  BY <1>2, <1>3 DEF BothType

\* Both sides wait with the endpoints, which have been shown when the search goes on.
LEMMA AnswerBoth ==
    ASSUME NEW S \in SUBSET Nodes, NEW req \in ReqType, req.kind = "bidirectional", NEW m, BothOK(m, req, S),
           m.batchKind = "endpoints", NEW hid,
           \A i \in 1..Len(m.batch) : Shown(hid, m.batch[i]) => m.batch[i].to \in S
    PROVE  BothOK(AdmitEndpoints(m, req, hid), req, S)
<1>1. Asking(m) /\ Paged(m, req, S) /\ EndpointsOK(m, req, S) /\ BothLevels(m)
  BY DEF BothOK, Asking
<1>2. m \in BothType(Nodes) /\ m.forward.frontier = <<req.source>> /\ m.backward.frontier = <<req.target>>
  BY <1>1 DEF BothOK
<1>3. PICK h \in BOOLEAN : h = (m.endpointHidden \/ \E i \in DOMAIN m.batch : ~Shown(hid, m.batch[i]))
  BY <1>2 DEF BothType
<1>4. PICK x : x = [m EXCEPT !.endpointHidden = h, !.batch = <<>>, !.batchKind = "none", !.state = "candidates"]
  OBVIOUS
<1>5. <<>> \in Seq(CandType) /\ {"candidates", "complete", "endpoints"} \subseteq States /\ req.source \in Nodes
  BY DEF States, ReqType
<1> DEFINE Fields(y) == /\ y \in BothType(Nodes) /\ y.scan = m.scan /\ y.endpointHidden = h
                        /\ y.endpointCursor = m.endpointCursor /\ y.batchKind = "none" /\ y.batch = <<>>
                        /\ y.forward = m.forward /\ y.backward = m.backward /\ y.side = m.side
                        /\ y.levelRemaining = m.levelRemaining
<1>6. Fields(x) /\ x.state = "candidates"
  BY <1>2, <1>4, <1>5 DEF BothType
<1>7. PICK v : v = AdmitEndpoints(m, req, hid)
  OBVIOUS
<1>8. ASSUME NEW y, Fields(y), NEW s \in {"candidates", "complete", "endpoints"}, NEW z, z = [y EXCEPT !.state = s]
      PROVE  Fields(z) /\ z.state = s
  BY <1>5, <1>8 DEF BothType
<1>9. Fields(Complete(x)) /\ Complete(x).state = "complete"
  BY <1>6, <1>8 DEF Complete
<1>10. PICK w : w = Found([x EXCEPT !.meet = req.source])
  OBVIOUS
<1>11. Fields(w) /\ w.state = "complete"
  <2>1. PICK y : y = [x EXCEPT !.meet = req.source]
    OBVIOUS
  <2>2. Fields(y)
    BY <1>5, <1>6, <2>1 DEF BothType
  <2>3. PICK z : z = Complete(y)
    OBVIOUS
  <2>4. Fields(z) /\ z.state = "complete"
    BY <1>8, <2>2, <2>3 DEF Complete
  <2>5. w = [z EXCEPT !.found = TRUE]
    BY <1>10, <2>1, <2>3 DEF Found
  <2>6. QED
    BY <2>4, <2>5 DEF BothType
<1>12. CASE m.endpointCursor < Len(Endpoints(req))
  <2>1. v = [x EXCEPT !.state = "endpoints"]
    BY <1>3, <1>4, <1>7, <1>12 DEF AdmitEndpoints
  <2>2. Fields(v) /\ v.state = "endpoints"
    BY <1>6, <1>8, <2>1
  <2>3. Paged(v, req, S) /\ EndpointsOK(v, req, S)
    BY <1>1, <1>3, <1>12, <2>2, AnswersKeep
  <2>4. Asking(v)
    BY <2>2 DEF Asking
  <2>5. BothLevels(v)
    BY <1>1, <2>2 DEF BothLevels
  <2>6. QED
    BY <1>2, <1>7, <2>2, <2>3, <2>4, <2>5 DEF BothOK
<1>13. CASE ~(m.endpointCursor < Len(Endpoints(req)))
  <2>1. v = IF h THEN Complete(x) ELSE IF req.source = req.target THEN w ELSE x
    BY <1>3, <1>4, <1>7, <1>10, <1>13 DEF AdmitEndpoints
  <2>2. Fields(v) /\ v.state \in {"candidates", "complete"} /\ (h => v.state = "complete")
    <3>1. v = Complete(x) \/ (~h /\ (v = w \/ v = x))
      BY <2>1
    <3> HIDE DEF Fields
    <3>2. QED
      BY <1>6, <1>9, <1>11, <3>1
  <2>3. Paged(v, req, S) /\ EndpointsOK(v, req, S)
    BY <1>1, <1>3, <1>13, <2>2, AnswersKeep
  <2>4. ~Asking(v)
    BY <2>2 DEF Asking
  <2>5. BothLevels(v)
    BY <1>1, <2>2 DEF BothLevels
  <2>6. CASE h
    BY <1>7, <2>2, <2>3, <2>4, <2>5, <2>6 DEF BothOK
  <2>7. CASE ~h
    <3>1. Len(Endpoints(req)) \in 1..2 /\ Endpoints(req)[1] = req.source
          /\ Endpoints(req)[Len(Endpoints(req))] = req.target
      BY EndpointsIs
    <3>2. Asked(v) = m.endpointCursor /\ m.endpointCursor \in 0..Len(Endpoints(req))
      BY <1>1, <2>2 DEF Asked, EndpointsOK
    <3>3. 1 \in 1..Asked(v) /\ Len(Endpoints(req)) \in 1..Asked(v)
      BY <1>13, <3>1, <3>2
    <3>4. req.source \in S /\ req.target \in S
      BY <2>2, <2>3, <2>7, <3>1, <3>3 DEF EndpointsOK
    <3>5. v.forward.frontier \in Seq(S) /\ v.backward.frontier \in Seq(S)
      <4>1. v.forward.frontier = <<req.source>> /\ v.backward.frontier = <<req.target>>
        BY <1>2, <2>2
      <4>2. <<req.source>> \in Seq(S) /\ <<req.target>> \in Seq(S)
        BY <3>4
      <4>3. QED
        BY <4>1, <4>2
    <3>6. v \in BothType(S)
      BY <2>2, <3>5, BothNarrow
    <3>7. QED
      BY <1>7, <2>2, <2>3, <2>4, <2>5, <2>7, <3>6 DEF BothOK
  <2>8. QED
    BY <2>6, <2>7
<1>14. QED
  BY <1>12, <1>13

\* A search that ends keeps its sides.
LEMMA BothEnds ==
    ASSUME NEW S \in SUBSET Nodes, NEW req \in ReqType, NEW m, Paged(m, req, S), EndpointsOK(m, req, S),
           m.state = "candidates",
           NEW x \in BothType(S), x.scan = m.scan, x.batch = m.batch, x.batchKind = m.batchKind,
           x.endpointCursor = m.endpointCursor, x.endpointHidden = m.endpointHidden, BothLevels(x),
           NEW y \in {Complete(x), Found(x)}
    PROVE  BothOK(y, req, S)
<1>1. ~Asking(m) /\ m.batch = <<>>
  BY DEF EndpointsOK, Asking, Paged
<1>2. PICK z : z = Complete(x)
  OBVIOUS
<1> DEFINE Fields(u) == /\ u \in BothType(S) /\ u.scan = x.scan /\ u.batch = x.batch /\ u.state = "complete"
                        /\ u.endpointCursor = x.endpointCursor /\ u.endpointHidden = x.endpointHidden
                        /\ u.batchKind = x.batchKind /\ u.side = x.side /\ u.forward = x.forward
                        /\ u.backward = x.backward /\ u.levelRemaining = x.levelRemaining
<1>3. Fields(z)
  <2>1. "complete" \in States /\ z = [x EXCEPT !.state = "complete"]
    BY <1>2 DEF States, Complete
  <2>2. QED
    BY <2>1 DEF BothType
<1>4. Fields(y)
  <2>1. CASE y = z
    BY <1>3, <2>1
  <2>2. CASE y = [z EXCEPT !.found = TRUE]
    BY <1>3, <2>2 DEF BothType
  <2>3. QED
    BY <1>2, <2>1, <2>2 DEF Found
<1>5. EndpointsOK(y, req, S) /\ ~Asking(y) /\ ~y.endpointHidden
  <2>1. y.batchKind # "endpoints" /\ y.state # "endpoints"
    BY <1>1, <1>4 DEF Asking
  <2>2. QED
    BY <1>1, <1>4, <2>1, AnsweredStays
<1>6. Paged(y, req, S)
  BY <1>1, <1>4 DEF Paged
<1>7. BothLevels(y)
  BY <1>4 DEF BothLevels
<1>8. QED
  BY <1>4, <1>5, <1>6, <1>7 DEF BothOK

\* A machine that reads on with what is left of a side's frontier.
Turned(m, round, side, level, q, sc) ==
    [m EXCEPT !.round = round, !.side = side, !.levelRemaining = level, ![side].frontier = q, !.scan = sc]

\* The side that is read keeps a part of its frontier that is as long as what is left
\* of the level.
LEMMA SideReads ==
    ASSUME NEW S \in SUBSET Nodes, NEW m \in BothType(S), m.state = "candidates",
           NEW side \in {"forward", "backward"}, NEW q \in Seq(S), NEW level \in Nat, level <= Len(q),
           NEW round \in Int, NEW sc \in ScanType,
           NEW x, x = Turned(m, round, side, level, q, sc)
    PROVE  /\ x \in BothType(S) /\ x.scan = sc /\ x.endpointCursor = m.endpointCursor
           /\ x.endpointHidden = m.endpointHidden /\ x.side = side
           /\ side = "forward" => x.levelRemaining <= Len(x.forward.frontier)
           /\ side = "backward" => x.levelRemaining <= Len(x.backward.frontier)
<1>1. m.forward \in SideType(S) /\ m.backward \in SideType(S)
  BY DEF BothType
<1>2. CASE side = "forward"
  <2>1. PICK F : F = [m.forward EXCEPT !.frontier = q]
    OBVIOUS
  <2>2. F \in SideType(S) /\ F.frontier = q
    BY <1>1, <2>1 DEF SideType
  <2>3. x = [m EXCEPT !.round = round, !.side = "forward", !.levelRemaining = level,
                      !.forward = F, !.scan = sc]
    BY <1>2, <2>1 DEF BothType, Turned
  <2>4. x \in BothType(S)
    BY <2>2, <2>3 DEF BothType
  <2>5. /\ x.scan = sc /\ x.endpointCursor = m.endpointCursor /\ x.endpointHidden = m.endpointHidden
        /\ x.side = "forward" /\ x.levelRemaining = level /\ x.forward = F
    BY <2>3 DEF BothType
  <2>6. QED
    BY <1>2, <2>2, <2>4, <2>5
<1>3. CASE side = "backward"
  <2>1. PICK F : F = [m.backward EXCEPT !.frontier = q]
    OBVIOUS
  <2>2. F \in SideType(S) /\ F.frontier = q
    BY <1>1, <2>1 DEF SideType
  <2>3. x = [m EXCEPT !.round = round, !.side = "backward", !.levelRemaining = level,
                      !.backward = F, !.scan = sc]
    BY <1>3, <2>1 DEF BothType, Turned
  <2>4. x \in BothType(S)
    BY <2>2, <2>3 DEF BothType
  <2>5. /\ x.scan = sc /\ x.endpointCursor = m.endpointCursor /\ x.endpointHidden = m.endpointHidden
        /\ x.side = "backward" /\ x.levelRemaining = level /\ x.backward = F
    BY <2>3 DEF BothType
  <2>6. QED
    BY <1>3, <2>2, <2>4, <2>5
<1>4. QED
  BY <1>2, <1>3

\* Reading on.
LEMMA BothReads ==
    ASSUME NEW S \in SUBSET Nodes, NEW req \in ReqType, NEW m, EndpointsOK(m, req, S),
           m.state = "candidates", NEW b, BatchOK(b, req), NEW x \in BothType(S), ScanOK(x.scan, req, S),
           x.endpointCursor = m.endpointCursor, x.endpointHidden = m.endpointHidden, x.side # "none",
           x.side = "forward" => x.levelRemaining <= Len(x.forward.frontier),
           x.side = "backward" => x.levelRemaining <= Len(x.backward.frontier),
           NEW v, v = Batched(x, b)
    PROVE  BothOK(v, req, S)
<1>1. ~Asking(m)
  BY DEF EndpointsOK, Asking
<1>2. b \in Seq(CandType)
  BY DEF BatchOK
<1>3. PICK st : st = IF b = <<>> THEN "candidates" ELSE "visibility"
  OBVIOUS
<1>4. v = [x EXCEPT !.batch = b, !.batchKind = "adjacency", !.state = st] /\ st \in States
  BY <1>3 DEF Batched, States
<1>5. /\ v \in BothType(S) /\ v.scan = x.scan /\ v.batch = b /\ v.state = st /\ v.batchKind = "adjacency"
      /\ v.endpointCursor = x.endpointCursor /\ v.endpointHidden = x.endpointHidden
      /\ v.side = x.side /\ v.levelRemaining = x.levelRemaining /\ v.forward = x.forward
      /\ v.backward = x.backward
  BY <1>2, <1>4 DEF BothType
<1>6. EndpointsOK(v, req, S) /\ ~Asking(v) /\ ~v.endpointHidden
  BY <1>1, <1>3, <1>5, AnsweredStays
<1>7. Paged(v, req, S)
  BY <1>3, <1>5 DEF Paged
<1>8. BothLevels(v)
  BY <1>5 DEF BothLevels
<1>9. QED
  BY <1>5, <1>6, <1>7, <1>8 DEF BothOK

\* Cutting a batch: the node that is read was in the frontier of the side that is read.
LEMMA MaterializeBothKeeps ==
    ASSUME NEW S \in SUBSET Nodes, NEW req \in ReqType, NEW g \in SUBSET DOMAIN Universe, NEW m,
           BothOK(m, req, S), m.state = "candidates"
    PROVE  BothOK(MaterializeBidirectional(m, req, g), req, S)
<1>1. Paged(m, req, S) /\ EndpointsOK(m, req, S) /\ BothLevels(m)
  BY DEF BothOK
<1>2. ~Asking(m) /\ ~m.endpointHidden
  BY <1>1 DEF EndpointsOK, Asking
<1>3. m \in BothType(S)
  BY <1>2 DEF BothOK
<1>4. PICK v : v = MaterializeBidirectional(m, req, g)
  OBVIOUS
<1> DEFINE done == LevelDone(m)
           choose == done \/ m.side = "none"
           pop == m.scan.active = NoNode
<1>5. PICK round \in Int : round = IF done THEN m.round + 1 ELSE m.round
  BY <1>3 DEF BothType
<1>6. CASE done /\ m.meet # NoNode
  <2>1. v = Found(m)
    BY <1>4, <1>6 DEF MaterializeBidirectional
  <2>2. QED
    BY <1>1, <1>3, <1>4, <2>1, BothEnds
<1>7. CASE /\ ~(done /\ m.meet # NoNode)
           /\ choose /\ (m.forward.frontier = <<>> \/ m.backward.frontier = <<>> \/ round >= req.maxDepth)
  <2>1. PICK x : x = [m EXCEPT !.round = round, !.side = "none"]
    BY SMTT(40)
  <2>2. v = Complete(x)
    BY <1>4, <1>5, <1>7, <2>1 DEF MaterializeBidirectional
  <2>3. /\ x \in BothType(S) /\ x.scan = m.scan /\ x.batch = m.batch /\ x.batchKind = m.batchKind
        /\ x.endpointCursor = m.endpointCursor /\ x.endpointHidden = m.endpointHidden
        /\ x.side = "none" /\ x.state = "candidates"
    BY <1>3, <2>1 DEF BothType
  <2>4. BothLevels(x)
    BY <2>3 DEF BothLevels
  <2>5. QED
    BY <1>1, <1>4, <2>2, <2>3, <2>4, BothEnds
<1>8. CASE /\ ~(done /\ m.meet # NoNode)
           /\ ~(choose /\ (m.forward.frontier = <<>> \/ m.backward.frontier = <<>> \/ round >= req.maxDepth))
  <2>1. PICK side : side = IF choose THEN Selected(m) ELSE m.side
    OBVIOUS
  <2>2. side \in {"forward", "backward"}
    <3>1. Selected(m) \in {"forward", "backward"}
      BY DEF Selected
    <3>2. m.side \in {"none", "forward", "backward"}
      BY <1>3 DEF BothType
    <3>3. QED
      BY <2>1, <3>1, <3>2
  <2>3. PICK q : q = m[side].frontier
    OBVIOUS
  <2>4. q \in Seq(S) /\ (side = "forward" => q = m.forward.frontier) /\ (side = "backward" => q = m.backward.frontier)
    <3>1. m.forward.frontier \in Seq(S) /\ m.backward.frontier \in Seq(S)
      BY <1>3 DEF BothType, SideType
    <3>2. QED
      BY <2>2, <2>3, <3>1
  <2>5. PICK level : level = IF choose THEN Len(q) ELSE m.levelRemaining
    OBVIOUS
  <2>6. level \in Nat /\ level <= Len(q) /\ (pop => level # 0)
    <3>1. m.levelRemaining \in Nat /\ Len(q) \in Nat
      BY <1>3, <2>4 DEF BothType
    <3>2. CASE choose
      <4>1. q # <<>> /\ level = Len(q)
        BY <1>8, <2>2, <2>4, <2>5, <3>2
      <4>2. Len(q) # 0
        BY <2>4, <4>1
      <4>3. QED
        BY <3>1, <4>1, <4>2
    <3>3. CASE ~choose
      <4>1. side = m.side /\ level = m.levelRemaining /\ m.side # "none"
        BY <2>1, <2>5, <3>3
      <4>2. m.levelRemaining <= Len(q)
        BY <1>1, <2>2, <2>4, <4>1 DEF BothLevels
      <4>3. pop => m.levelRemaining # 0
        BY <3>3, <4>1 DEF LevelDone
      <4>4. QED
        BY <3>1, <4>1, <4>2, <4>3
    <3>4. QED
      BY <3>2, <3>3
  <2>7. PICK current : current = IF pop THEN Head(q) ELSE m.scan.active
    OBVIOUS
  <2>8. current \in S
    <3>1. CASE pop
      BY <2>4, <2>6, <2>7, <3>1
    <3>2. CASE ~pop
      BY <1>1, <2>7, <3>2 DEF ScanOK, Paged
    <3>3. QED
      BY <3>1, <3>2
  <2>9. PICK o : o = IF pop THEN Opened(current) ELSE m.scan
    OBVIOUS
  <2>10. ScanOK(o, req, S) /\ o.active \in S
    <3>1. CASE pop
      BY <2>8, <2>9, <3>1, OpenedIs
    <3>2. CASE ~pop
      BY <1>1, <2>7, <2>8, <2>9, <3>2 DEF Paged
    <3>3. QED
      BY <3>1, <3>2
  <2>11. PICK rows \in Seq(RowType) : rows = Adjacency(g, TRUE, current)
    BY <2>8, AdjacencyIs
  <2>12. req.page \in 1..req.page
    BY DEF ReqType
  <2>13. PICK f : f = Filled(o, rows, req.page)
    OBVIOUS
  <2>14. PICK t : t = TakenCount(f.pending, req.keys, NoNode)
    OBVIOUS
  <2>15. /\ ScanOK(Leftover(f, t), req, S) /\ ScanOK(Resting, req, S)
         /\ BatchOK(Candidates(f, t), req)
    BY <2>10, <2>12, <2>13, <2>14, ScanStep
  <2>16. PICK b : b = Candidates(f, t)
    OBVIOUS
  <2>17. PICK sc : sc = IF Exhausted(Leftover(f, t)) THEN Resting ELSE Leftover(f, t)
    OBVIOUS
  <2>18. ScanOK(sc, req, S) /\ BatchOK(b, req)
    BY <2>15, <2>16, <2>17
  <2>19. PICK p : p = IF pop THEN Tail(q) ELSE q
    OBVIOUS
  <2>20. PICK l : l = IF pop THEN level - 1 ELSE level
    OBVIOUS
  <2>21. p \in Seq(S) /\ l \in Nat /\ l <= Len(p)
    <3>1. CASE pop
      <4>1. q # <<>> /\ Len(q) \in Nat
        BY <2>4, <2>6, <3>1
      <4>2. Tail(q) \in Seq(S) /\ Len(Tail(q)) = Len(q) - 1
        BY <2>4, <4>1
      <4>3. QED
        BY <2>6, <2>19, <2>20, <3>1, <4>1, <4>2
    <3>2. CASE ~pop
      BY <2>4, <2>6, <2>19, <2>20, <3>2
    <3>3. QED
      BY <3>1, <3>2
  <2>22. PICK x : x = Turned(m, round, side, l, p, sc)
    OBVIOUS
  <2>23. v = Batched(x, b)
    <3>1. v = Batched([m EXCEPT !.round = round, !.side = side, !.levelRemaining = l,
                                ![side].frontier = IF pop THEN Tail(@) ELSE @, !.scan = sc], b)
      BY <1>4, <1>5, <1>8, <2>1, <2>3, <2>5, <2>7, <2>9, <2>11, <2>13, <2>14, <2>16, <2>17, <2>20
         DEF MaterializeBidirectional
    <3>2. x = [m EXCEPT !.round = round, !.side = side, !.levelRemaining = l,
                        ![side].frontier = IF pop THEN Tail(@) ELSE @, !.scan = sc]
      BY <1>3, <2>2, <2>3, <2>19, <2>22 DEF BothType, Turned
    <3>3. QED
      BY <3>1, <3>2, SMTT(40)
  <2>24. sc \in ScanType
    BY <2>18 DEF ScanOK
  <2>25. /\ x \in BothType(S) /\ x.scan = sc /\ x.endpointCursor = m.endpointCursor
         /\ x.endpointHidden = m.endpointHidden /\ x.side = side
         /\ side = "forward" => x.levelRemaining <= Len(x.forward.frontier)
         /\ side = "backward" => x.levelRemaining <= Len(x.backward.frontier)
    BY <1>3, <2>2, <2>21, <2>22, <2>24, SideReads
  <2>26. QED
    BY <1>1, <1>4, <2>2, <2>18, <2>23, <2>25, BothReads
<1>9. QED
  BY <1>6, <1>7, <1>8

\* A candidate of S joins the side or is known to it.
LEMMA JoinKeeps ==
    ASSUME NEW S \in SUBSET Nodes, NEW side \in SideType(S), NEW c \in CandType, c.to \in S, NEW d \in Int,
           NEW s, s = IF c.to \in Seen(side) THEN side ELSE Grow(side, c, d)
    PROVE  s \in SideType(S) /\ Len(s.frontier) >= Len(side.frontier) /\ s.depth[c.to] \in Int
<1>1. Grow(side, c, d) \in SideType(S) /\ Len(Grow(side, c, d).frontier) = Len(side.frontier) + 1
  BY GrowKeeps
<1>2. Len(side.frontier) \in Nat
  BY DEF SideType
<1>3. s \in SideType(S) /\ Len(s.frontier) >= Len(side.frontier)
  <2>1. CASE s = side
    BY <1>2, <2>1
  <2>2. CASE s = Grow(side, c, d)
    BY <1>1, <1>2, <2>2
  <2>3. QED
    BY <2>1, <2>2
<1>4. s.depth[c.to] \in Int
  BY <1>3 DEF SideType, Depths, CandType
<1>5. QED
  BY <1>3, <1>4

\* What admitting a candidate leaves alone in a search from both ends.
BothAlike(v, m) ==
    /\ v.scan = m.scan /\ v.batch = m.batch /\ v.state = m.state /\ v.batchKind = m.batchKind
    /\ v.endpointCursor = m.endpointCursor /\ v.endpointHidden = m.endpointHidden
    /\ v.side = m.side /\ v.levelRemaining = m.levelRemaining

\* A visible candidate joins the side that is read.
LEMMA ReachBothKeeps ==
    ASSUME NEW S \in SUBSET Nodes, NEW m \in BothType(S), BothLevels(m), m.side # "none",
           NEW c \in CandType, c.to \in S, NEW v, v = ReachBoth(m, c)
    PROVE  v \in BothType(S) /\ BothAlike(v, m) /\ BothLevels(v)
<1>1. /\ m.forward \in SideType(S) /\ m.backward \in SideType(S) /\ m.side \in {"forward", "backward"}
      /\ m.round + 1 \in Int /\ m.best \in Int /\ m.meet \in Nodes \cup {NoNode} /\ m.levelRemaining \in Nat
  BY DEF BothType
<1>2. c.to \in Nodes
  BY DEF CandType
<1>3. CASE m.side = "forward"
  <2>1. PICK mine : mine = IF c.to \in Seen(m.forward) THEN m.forward ELSE Grow(m.forward, c, m.round + 1)
    OBVIOUS
  <2>2. mine \in SideType(S) /\ Len(mine.frontier) >= Len(m.forward.frontier) /\ mine.depth[c.to] \in Int
    BY <1>1, <2>1, JoinKeeps
  <2>3. PICK combined : combined = mine.depth[c.to] + m.backward.depth[c.to]
    OBVIOUS
  <2>4. combined \in Int
    BY <1>1, <1>2, <2>2, <2>3 DEF SideType, Depths
  <2>5. PICK meets \in BOOLEAN : meets = (c.to \in Seen(m.backward) /\ combined < m.best)
    OBVIOUS
  <2>6. PICK B, M : B = (IF meets THEN combined ELSE m.best) /\ M = (IF meets THEN c.to ELSE m.meet)
    OBVIOUS
  <2>7. B \in Int /\ M \in Nodes \cup {NoNode}
    BY <1>1, <1>2, <2>4, <2>6
  <2>8. v = [m EXCEPT !.forward = mine, !.best = B, !.meet = M]
    BY <1>3, <2>1, <2>3, <2>5, <2>6 DEF ReachBoth, Opposite, BothType
  <2>9. v \in BothType(S)
    BY <2>2, <2>7, <2>8 DEF BothType
  <2>10. BothAlike(v, m) /\ v.forward = mine
    BY <2>8 DEF BothType, BothAlike
  <2>11. v.levelRemaining <= Len(v.forward.frontier)
    <3>1. m.levelRemaining <= Len(m.forward.frontier) /\ Len(m.forward.frontier) \in Nat /\ Len(mine.frontier) \in Nat
      BY <1>1, <1>3, <2>2 DEF BothLevels, SideType
    <3>2. QED
      BY <1>1, <2>2, <2>10, <3>1 DEF BothAlike
  <2>12. QED
    BY <1>3, <2>9, <2>10, <2>11 DEF BothLevels, BothAlike
<1>4. CASE m.side = "backward"
  <2>1. PICK mine : mine = IF c.to \in Seen(m.backward) THEN m.backward ELSE Grow(m.backward, c, m.round + 1)
    OBVIOUS
  <2>2. mine \in SideType(S) /\ Len(mine.frontier) >= Len(m.backward.frontier) /\ mine.depth[c.to] \in Int
    BY <1>1, <2>1, JoinKeeps
  <2>3. PICK combined : combined = mine.depth[c.to] + m.forward.depth[c.to]
    OBVIOUS
  <2>4. combined \in Int
    BY <1>1, <1>2, <2>2, <2>3 DEF SideType, Depths
  <2>5. PICK meets \in BOOLEAN : meets = (c.to \in Seen(m.forward) /\ combined < m.best)
    OBVIOUS
  <2>6. PICK B, M : B = (IF meets THEN combined ELSE m.best) /\ M = (IF meets THEN c.to ELSE m.meet)
    OBVIOUS
  <2>7. B \in Int /\ M \in Nodes \cup {NoNode}
    BY <1>1, <1>2, <2>4, <2>6
  <2>8. v = [m EXCEPT !.backward = mine, !.best = B, !.meet = M]
    BY <1>4, <2>1, <2>3, <2>5, <2>6 DEF ReachBoth, Opposite, BothType
  <2>9. v \in BothType(S)
    BY <2>2, <2>7, <2>8 DEF BothType
  <2>10. BothAlike(v, m) /\ v.backward = mine
    BY <2>8 DEF BothType, BothAlike
  <2>11. v.levelRemaining <= Len(v.backward.frontier)
    <3>1. m.levelRemaining <= Len(m.backward.frontier) /\ Len(m.backward.frontier) \in Nat /\ Len(mine.frontier) \in Nat
      BY <1>1, <1>4, <2>2 DEF BothLevels, SideType
    <3>2. QED
      BY <1>1, <2>2, <2>10, <3>1 DEF BothAlike
  <2>12. QED
    BY <1>4, <2>9, <2>10, <2>11 DEF BothLevels, BothAlike
<1>5. QED
  BY <1>1, <1>3, <1>4

\* Admitting the candidates of a search from both ends.
LEMMA AdmitBothKeeps ==
    ASSUME NEW S \in SUBSET Nodes, NEW req \in ReqType, req.kind = "bidirectional", NEW m, BothOK(m, req, S),
           m.state = "visibility", m.batchKind = "adjacency", NEW hid, VisibleIn(m, hid, S)
    PROVE  BothOK(AdmitCandidates(m, req, hid), req, S)
<1>1. Paged(m, req, S) /\ EndpointsOK(m, req, S) /\ BothLevels(m) /\ ~Asking(m)
  BY DEF BothOK, Asking
<1>2. ~m.endpointHidden
  BY <1>1 DEF EndpointsOK
<1>3. m \in BothType(S) /\ m.side # "none"
  BY <1>1, <1>2 DEF BothOK, BothLevels
<1> DEFINE Good == {x \in BothType(S) : BothAlike(x, m) /\ BothLevels(x)}
<1>4. m \in Good /\ m.batch \in Seq(CandType)
  <2>1. m.batch \in Seq(CandType)
    BY <1>3 DEF BothType
  <2>2. BothAlike(m, m)
    BY DEF BothAlike
  <2>3. QED
    BY <1>1, <1>3, <2>1, <2>2
<1>5. Closed(Good, req, S)
  <2>1. ASSUME NEW x \in Good, NEW c \in CandType, c.to \in S PROVE Reached(x, req, c) \in Good
    <3>1. Reached(x, req, c) = ReachBoth(x, c)
      BY DEF Reached
    <3>2. x.side # "none" /\ BothAlike(x, m)
      BY <1>3 DEF BothAlike
    <3>3. PICK y : y = ReachBoth(x, c)
      OBVIOUS
    <3>4. y \in BothType(S) /\ BothAlike(y, x) /\ BothLevels(y)
      BY <2>1, <3>2, <3>3, ReachBothKeeps
    <3>5. BothAlike(y, m)
      BY <3>2, <3>4 DEF BothAlike
    <3>6. QED
      BY <3>1, <3>3, <3>4, <3>5
  <2> HIDE DEF Good
  <2>2. QED
    BY <2>1 DEF Closed
<1>6. PICK x \in Good, s \in {"complete", "candidates"} : AdmitCandidates(m, req, hid) = Emptied(x, s)
  <2> HIDE DEF Good
  <2>1. QED
    BY <1>4, <1>5, ReachesKeep
<1>7. PICK v : v = AdmitCandidates(m, req, hid)
  OBVIOUS
<1>8. x \in BothType(S) /\ v = [x EXCEPT !.batch = <<>>, !.batchKind = "none", !.state = s]
  BY <1>6, <1>7 DEF Emptied
<1>9. s \in States /\ <<>> \in Seq(CandType)
  BY DEF States
<1>10. v \in BothType(S)
  <2> HIDE DEF Good
  <2>1. QED
    BY <1>8, <1>9 DEF BothType
<1>11. /\ v.scan = x.scan /\ v.batch = <<>> /\ v.state = s /\ v.batchKind = "none"
       /\ v.endpointCursor = x.endpointCursor /\ v.endpointHidden = x.endpointHidden
       /\ v.side = x.side /\ v.levelRemaining = x.levelRemaining /\ v.forward = x.forward
       /\ v.backward = x.backward
  <2> HIDE DEF Good
  <2>1. QED
    BY <1>8 DEF BothType
<1>12. BothAlike(x, m) /\ BothLevels(x)
  BY <1>6
<1> HIDE DEF Good
<1>13. Paged(v, req, S) /\ EndpointsOK(v, req, S) /\ ~Asking(v) /\ ~v.endpointHidden
  <2>1. /\ v.scan = m.scan /\ v.endpointCursor = m.endpointCursor /\ v.endpointHidden = m.endpointHidden
        /\ v.state \in {"complete", "candidates"}
    BY <1>11, <1>12 DEF BothAlike
  <2>2. QED
    BY <1>1, <1>11, <2>1, EmptiedKeeps
<1>14. BothLevels(v)
  BY <1>11, <1>12 DEF BothLevels
<1>15. QED
  BY <1>7, <1>10, <1>13, <1>14 DEF BothOK

----------------------------------------------------------------------------
(* Path searches: Dijkstra *)

\* Asking for endpoints.
LEMMA AskDijkstra ==
    ASSUME NEW S \in SUBSET Nodes, NEW req \in ReqType, NEW m, DijkstraOK(m, req, S), m.state = "endpoints"
    PROVE  DijkstraOK(MaterializeEndpoints(m, req), req, S)
<1>1. m \in DijkstraType(S) /\ IsFiniteSet(m.heap) /\ Paged(m, req, S) /\ EndpointsOK(m, req, S)
  BY DEF DijkstraOK
<1>2. m.endpointCursor \in Nat /\ m.endpointCursor < Len(Endpoints(req))
  BY <1>1 DEF DijkstraType, EndpointsOK
<1>3. PICK end \in 0..Len(Endpoints(req)), b \in Seq(CandType) :
              /\ MaterializeEndpoints(m, req) =
                    [m EXCEPT !.endpointCursor = end, !.batchKind = "endpoints", !.state = "visibility",
                              !.batch = b]
              /\ BatchOK(b, req) /\ b # <<>> /\ Len(b) = end - m.endpointCursor
              /\ \A i \in 1..Len(b) : b[i].to = Endpoints(req)[m.endpointCursor + i]
  BY <1>2, EndpointBatch
<1>4. PICK v : v = MaterializeEndpoints(m, req)
  OBVIOUS
<1>5. end \in Nat /\ "visibility" \in States
  BY EndpointsIs DEF States
<1>6. /\ v \in DijkstraType(S) /\ v.scan = m.scan /\ v.endpointHidden = m.endpointHidden
      /\ v.endpointCursor = end /\ v.batchKind = "endpoints" /\ v.state = "visibility" /\ v.batch = b
      /\ v.heap = m.heap
  BY <1>1, <1>3, <1>4, <1>5 DEF DijkstraType
<1>7. Paged(v, req, S) /\ EndpointsOK(v, req, S)
  BY <1>1, <1>3, <1>6, AskingKeeps
<1>8. QED
  BY <1>1, <1>4, <1>6, <1>7 DEF DijkstraOK

\* The heap starts with the source, which was shown before the search.
LEMMA AnswerDijkstra ==
    ASSUME NEW S \in SUBSET Nodes, NEW req \in ReqType, req.kind = "dijkstra", NEW m, DijkstraOK(m, req, S),
           m.batchKind = "endpoints", NEW hid,
           \A i \in 1..Len(m.batch) : Shown(hid, m.batch[i]) => m.batch[i].to \in S
    PROVE  DijkstraOK(AdmitEndpoints(m, req, hid), req, S)
<1>1. m \in DijkstraType(S) /\ IsFiniteSet(m.heap) /\ Paged(m, req, S) /\ EndpointsOK(m, req, S)
  BY DEF DijkstraOK
<1>2. PICK h \in BOOLEAN : h = (m.endpointHidden \/ \E i \in DOMAIN m.batch : ~Shown(hid, m.batch[i]))
  BY <1>1 DEF DijkstraType
<1>3. PICK x : x = [m EXCEPT !.endpointHidden = h, !.batch = <<>>, !.batchKind = "none", !.state = "candidates"]
  OBVIOUS
<1>4. <<>> \in Seq(CandType) /\ {"candidates", "complete", "endpoints"} \subseteq States
  BY DEF States
<1>5. /\ x \in DijkstraType(S) /\ x.scan = m.scan /\ x.endpointHidden = h /\ x.endpointCursor = m.endpointCursor
      /\ x.batchKind = "none" /\ x.batch = <<>> /\ x.state = "candidates" /\ x.heap = m.heap
  BY <1>1, <1>3, <1>4 DEF DijkstraType
<1>6. PICK v : v = AdmitEndpoints(m, req, hid)
  OBVIOUS
<1>7. PICK s \in {"candidates", "complete", "endpoints"} :
        /\ v = [x EXCEPT !.state = s]
        /\ s = "endpoints" <=> m.endpointCursor < Len(Endpoints(req))
        /\ h => s # "candidates"
  <2>1. CASE m.endpointCursor < Len(Endpoints(req))
    BY <1>2, <1>3, <1>6, <2>1 DEF AdmitEndpoints
  <2>2. CASE ~(m.endpointCursor < Len(Endpoints(req))) /\ h
    <3>1. v = [x EXCEPT !.state = "complete"]
      BY <1>2, <1>3, <1>6, <2>2 DEF AdmitEndpoints, Complete
    <3>2. QED
      BY <2>2, <3>1
  <2>3. CASE ~(m.endpointCursor < Len(Endpoints(req))) /\ ~h
    <3>1. v = x
      BY <1>2, <1>3, <1>6, <2>3 DEF AdmitEndpoints
    <3>2. x = [x EXCEPT !.state = "candidates"]
      BY <1>5 DEF DijkstraType
    <3>3. QED
      BY <2>3, <3>1, <3>2
  <2>4. QED
    BY <2>1, <2>2, <2>3
<1>8. /\ v \in DijkstraType(S) /\ v.scan = m.scan /\ v.endpointHidden = h /\ v.endpointCursor = m.endpointCursor
      /\ v.batchKind = "none" /\ v.batch = <<>> /\ v.state = s /\ v.heap = m.heap
  BY <1>4, <1>5, <1>7 DEF DijkstraType
<1>9. Paged(v, req, S) /\ EndpointsOK(v, req, S)
  BY <1>1, <1>2, <1>7, <1>8, AnswersKeep
<1>10. QED
  BY <1>1, <1>6, <1>8, <1>9 DEF DijkstraOK

\* A finite heap that is not empty has a least entry.
LEMMA LeastIs ==
    ASSUME NEW S \in SUBSET Nodes, NEW H \in SUBSET (Nat \X S), IsFiniteSet(H), H # {}
    PROVE  Least(H) \in H
<1>1. \A h \in H : h[1] \in Nat /\ h[2] \in Int
  <2>1. \A n \in S : n \in Int
    BY DEF Nodes
  <2>2. \A h \in H : h[1] \in Nat /\ h[2] \in S
    OBVIOUS
  <2>3. QED
    BY <2>1, <2>2
<1>2. PICK C : C = {h[1] : h \in H}
  OBVIOUS
<1>3. IsFiniteSet(C) /\ C \in SUBSET Int /\ C # {}
  <2>1. IsFiniteSet(C)
    <3>1. PICK f : f = [h \in H |-> h[1]]
      OBVIOUS
    <3>2. f \in Surjection(H, C)
      BY <1>2, <3>1 DEF Surjection
    <3>3. QED
      BY <3>2, FS_Surjection
  <2>2. C \in SUBSET Int /\ C # {}
    BY <1>1, <1>2
  <2>3. QED
    BY <2>1, <2>2
<1>4. PICK c \in C : \A x \in C : c <= x
  BY <1>3, MinProperty
<1>5. PICK H1 : H1 = {h \in H : h[1] = c}
  OBVIOUS
<1>6. H1 \in SUBSET H /\ H1 # {}
  BY <1>2, <1>4, <1>5
<1>7. IsFiniteSet(H1)
  BY <1>6, FS_Subset
<1>8. PICK D : D = {h[2] : h \in H1}
  OBVIOUS
<1>9. IsFiniteSet(D) /\ D \in SUBSET Int /\ D # {}
  <2>1. IsFiniteSet(D)
    <3>1. PICK f : f = [h \in H1 |-> h[2]]
      OBVIOUS
    <3>2. f \in Surjection(H1, D)
      BY <1>8, <3>1 DEF Surjection
    <3>3. QED
      BY <1>7, <3>2, FS_Surjection
  <2>2. D \in SUBSET Int /\ D # {}
    BY <1>1, <1>6, <1>8
  <2>3. QED
    BY <2>1, <2>2
<1>10. PICK d \in D : \A x \in D : d <= x
  BY <1>9, MinProperty
<1>11. PICK h \in H1 : h[2] = d
  BY <1>8, <1>10
<1>12. h \in H /\ h[1] = c
  BY <1>5, <1>11
<1>13. ASSUME NEW x \in H PROVE h[1] < x[1] \/ (h[1] = x[1] /\ h[2] <= x[2])
  <2>1. x[1] \in C /\ c <= x[1] /\ x[1] \in Int /\ c \in Int
    BY <1>2, <1>3, <1>4
  <2>2. CASE x[1] = c
    <3>1. x \in H1
      BY <1>5, <2>2
    <3>2. x[2] \in D
      BY <1>8, <3>1
    <3>3. QED
      BY <1>10, <1>11, <1>12, <2>2, <3>2
  <2>3. CASE x[1] # c
    BY <1>12, <2>1, <2>3
  <2>4. QED
    BY <2>2, <2>3
<1>14. \E y \in H : \A x \in H : y[1] < x[1] \/ (y[1] = x[1] /\ y[2] <= x[2])
  BY <1>12, <1>13
<1>15. QED
  BY <1>14 DEF Least

\* Cutting a batch: the node that is read was in the heap.
LEMMA MaterializeDijkstraKeeps ==
    ASSUME NEW S \in SUBSET Nodes, NEW req \in ReqType, NEW g \in SUBSET DOMAIN Universe, NEW m,
           DijkstraOK(m, req, S), m.state = "candidates"
    PROVE  DijkstraOK(MaterializeDijkstra(m, req, g), req, S)
<1>1. m \in DijkstraType(S) /\ IsFiniteSet(m.heap) /\ Paged(m, req, S) /\ EndpointsOK(m, req, S)
  BY DEF DijkstraOK
<1>2. m.heap \in SUBSET (Nat \X S) /\ ScanOK(m.scan, req, S) /\ m.batch = <<>> /\ m.batch \in Seq(CandType)
  BY <1>1 DEF DijkstraType, Paged
<1>3. ~Asking(m)
  BY <1>1 DEF EndpointsOK, Asking
<1>4. PICK v : v = MaterializeDijkstra(m, req, g)
  OBVIOUS
<1> DEFINE pop == m.scan.active = NoNode
<1>5. PICK live : live = {h \in m.heap : h[1] <= m.dist[h[2]]}
  OBVIOUS
<1>6. PICK least : least = Least(live)
  OBVIOUS
<1>7. live \in SUBSET m.heap
  BY <1>5
<1>8. IsFiniteSet(live) /\ live \in SUBSET (Nat \X S)
  <2>1. IsFiniteSet(live)
    BY <1>1, <1>7, FS_Subset
  <2>2. QED
    BY <1>2, <1>7, <2>1
<1>9. live # {} => least \in live
  BY <1>6, <1>8, LeastIs
<1>10. PICK current : current = IF pop THEN least[2] ELSE m.scan.active
  OBVIOUS
<1>11. PICK heap : heap = IF pop THEN {h \in live : h # least} ELSE m.heap
  OBVIOUS
<1>12. heap \in SUBSET m.heap
  BY <1>7, <1>11
<1>13. IsFiniteSet(heap) /\ heap \in SUBSET (Nat \X S)
  <2>1. IsFiniteSet(heap)
    BY <1>1, <1>12, FS_Subset
  <2>2. QED
    BY <1>2, <1>12, <2>1
<1>14. CASE pop /\ (live = {} \/ current = req.target)
  <2>1. PICK x : x = [m EXCEPT !.heap = heap]
    OBVIOUS
  <2>2. v = Complete(x)
    BY <1>4, <1>5, <1>6, <1>10, <1>11, <1>14, <2>1 DEF MaterializeDijkstra
  <2>3. v = [x EXCEPT !.state = "complete"] /\ "complete" \in States
    BY <2>2 DEF Complete, States
  <2>4. /\ x \in DijkstraType(S) /\ x.scan = m.scan /\ x.batch = <<>> /\ x.batchKind = m.batchKind
        /\ x.endpointCursor = m.endpointCursor /\ x.endpointHidden = m.endpointHidden /\ x.heap = heap
    BY <1>1, <1>2, <1>13, <2>1 DEF DijkstraType
  <2>5. /\ v \in DijkstraType(S) /\ v.scan = m.scan /\ v.batch = <<>> /\ v.batchKind = m.batchKind
        /\ v.endpointCursor = m.endpointCursor /\ v.endpointHidden = m.endpointHidden /\ v.heap = heap
        /\ v.state = "complete"
    BY <2>3, <2>4 DEF DijkstraType
  <2>6. v.batchKind # "endpoints"
    BY <1>3, <2>5 DEF Asking
  <2>7. EndpointsOK(v, req, S)
    BY <1>1, <1>3, <2>5, <2>6, AnsweredStays
  <2>8. Paged(v, req, S)
    BY <1>1, <1>2, <2>5 DEF Paged
  <2>9. QED
    BY <1>4, <1>13, <2>5, <2>7, <2>8 DEF DijkstraOK
<1>15. CASE ~(pop /\ (live = {} \/ current = req.target))
  <2>1. current \in S
    <3>1. CASE pop
      <4>1. least \in Nat \X S
        BY <1>8, <1>9, <1>15, <3>1
      <4>2. QED
        BY <1>10, <3>1, <4>1
    <3>2. CASE ~pop
      BY <1>2, <1>10, <3>2 DEF ScanOK
    <3>3. QED
      BY <3>1, <3>2
  <2>2. PICK o : o = IF pop THEN Opened(current) ELSE m.scan
    OBVIOUS
  <2>3. ScanOK(o, req, S) /\ o.active \in S
    <3>1. CASE pop
      BY <2>1, <2>2, <3>1, OpenedIs
    <3>2. CASE ~pop
      BY <1>2, <1>10, <2>1, <2>2, <3>2
    <3>3. QED
      BY <3>1, <3>2
  <2>4. PICK rows \in Seq(RowType) : rows = Adjacency(g, FALSE, current)
    BY <2>1, AdjacencyIs
  <2>5. req.page \in 1..req.page
    BY DEF ReqType
  <2>6. PICK f : f = Filled(o, rows, req.page)
    OBVIOUS
  <2>7. PICK t : t = TakenCount(f.pending, req.keys, NoNode)
    OBVIOUS
  <2>8. /\ ScanOK(Leftover(f, t), req, S) /\ ScanOK(Resting, req, S)
        /\ BatchOK(Candidates(f, t), req)
    BY <2>3, <2>5, <2>6, <2>7, ScanStep
  <2>9. PICK b : b = Candidates(f, t)
    OBVIOUS
  <2>10. PICK sc : sc = IF Exhausted(Leftover(f, t)) THEN Resting ELSE Leftover(f, t)
    OBVIOUS
  <2>11. ScanOK(sc, req, S) /\ BatchOK(b, req)
    BY <2>8, <2>9, <2>10
  <2>12. sc \in ScanType /\ b \in Seq(CandType)
    BY <2>11 DEF ScanOK, BatchOK
  <2>13. PICK x : x = [m EXCEPT !.heap = heap, !.scan = sc]
    OBVIOUS
  <2>14. /\ x \in DijkstraType(S) /\ x.scan = sc /\ x.heap = heap
         /\ x.endpointCursor = m.endpointCursor /\ x.endpointHidden = m.endpointHidden
    BY <1>1, <1>13, <2>12, <2>13 DEF DijkstraType
  <2>15. v = Batched(x, b)
    BY <1>4, <1>5, <1>6, <1>10, <1>11, <1>15, <2>2, <2>4, <2>6, <2>7, <2>9, <2>10, <2>13
       DEF MaterializeDijkstra
  <2>16. PICK st : st = IF b = <<>> THEN "candidates" ELSE "visibility"
    OBVIOUS
  <2>17. v = [x EXCEPT !.batch = b, !.batchKind = "adjacency", !.state = st] /\ st \in States
    BY <2>15, <2>16 DEF Batched, States
  <2>18. /\ v \in DijkstraType(S) /\ v.scan = sc /\ v.batch = b /\ v.state = st /\ v.heap = heap
         /\ v.endpointCursor = m.endpointCursor /\ v.endpointHidden = m.endpointHidden
         /\ v.batchKind = "adjacency"
    BY <2>12, <2>14, <2>17 DEF DijkstraType
  <2>19. EndpointsOK(v, req, S)
    BY <1>1, <1>3, <2>16, <2>18, AnsweredStays
  <2>20. Paged(v, req, S)
    BY <2>11, <2>16, <2>18 DEF Paged
  <2>21. QED
    BY <1>4, <1>13, <2>18, <2>19, <2>20 DEF DijkstraOK
<1>16. QED
  BY <1>14, <1>15

\* What relaxing a relationship leaves alone.
DijkstraAlike(v, m) ==
    /\ v.scan = m.scan /\ v.batch = m.batch /\ v.state = m.state /\ v.batchKind = m.batchKind
    /\ v.endpointCursor = m.endpointCursor /\ v.endpointHidden = m.endpointHidden

\* A visible candidate may lower a cost and is then put into the heap.
LEMMA RelaxedKeeps ==
    ASSUME NEW S \in SUBSET Nodes, NEW m \in DijkstraType(S), IsFiniteSet(m.heap), NEW c \in CandType, c.to \in S,
           NEW v, v = Relaxed(m, c)
    PROVE  v \in DijkstraType(S) /\ IsFiniteSet(v.heap) /\ DijkstraAlike(v, m)
<1>1. /\ m.dist \in [Nodes -> Nat] /\ m.parent \in Parents /\ m.heap \in SUBSET (Nat \X S)
      /\ c.from \in Nodes /\ c.to \in Nodes /\ c.w \in Nat
  BY DEF DijkstraType, CandType
<1>2. PICK cost \in Nat : cost = m.dist[c.from] + c.w
  BY <1>1
<1>3. CASE cost >= m.dist[c.to]
  <2>1. v = m
    BY <1>2, <1>3 DEF Relaxed
  <2>2. QED
    BY <2>1 DEF DijkstraAlike
<1>4. CASE ~(cost >= m.dist[c.to])
  <2>1. PICK D, P, H : /\ D = [m.dist EXCEPT ![c.to] = cost] /\ P = [m.parent EXCEPT ![c.to] = c.from]
                       /\ H = m.heap \cup {<<cost, c.to>>}
    OBVIOUS
  <2>2. D \in [Nodes -> Nat]
    BY <1>1, <2>1
  <2>3. P \in Parents
    BY <1>1, <2>1 DEF Parents
  <2>4. H \in SUBSET (Nat \X S)
    BY <1>1, <2>1
  <2>5. IsFiniteSet(H)
    BY <2>1, FS_AddElement
  <2>6. v = [m EXCEPT !.dist = D, !.parent = P, !.heap = H]
    BY <1>2, <1>4, <2>1 DEF Relaxed
  <2>7. v \in DijkstraType(S) /\ v.heap = H
    BY <2>2, <2>3, <2>4, <2>6 DEF DijkstraType
  <2>8. DijkstraAlike(v, m)
    BY <2>6 DEF DijkstraType, DijkstraAlike
  <2>9. QED
    BY <2>5, <2>7, <2>8
<1>5. QED
  BY <1>3, <1>4

\* Admitting the candidates of Dijkstra's search.
LEMMA AdmitDijkstraKeeps ==
    ASSUME NEW S \in SUBSET Nodes, NEW req \in ReqType, req.kind = "dijkstra", NEW m, DijkstraOK(m, req, S),
           m.state = "visibility", m.batchKind = "adjacency", NEW hid, VisibleIn(m, hid, S)
    PROVE  DijkstraOK(AdmitCandidates(m, req, hid), req, S)
<1>1. m \in DijkstraType(S) /\ IsFiniteSet(m.heap) /\ Paged(m, req, S) /\ EndpointsOK(m, req, S)
  BY DEF DijkstraOK
<1> DEFINE Good == {x \in DijkstraType(S) : IsFiniteSet(x.heap) /\ DijkstraAlike(x, m)}
<1>2. m \in Good /\ m.batch \in Seq(CandType)
  <2>1. m.batch \in Seq(CandType)
    BY <1>1 DEF DijkstraType
  <2>2. DijkstraAlike(m, m)
    BY DEF DijkstraAlike
  <2>3. QED
    BY <1>1, <2>1, <2>2
<1>3. Closed(Good, req, S)
  <2>1. ASSUME NEW x \in Good, NEW c \in CandType, c.to \in S PROVE Reached(x, req, c) \in Good
    <3>1. Reached(x, req, c) = Relaxed(x, c)
      BY DEF Reached
    <3>2. PICK y : y = Relaxed(x, c)
      OBVIOUS
    <3>3. y \in DijkstraType(S) /\ IsFiniteSet(y.heap) /\ DijkstraAlike(y, x)
      BY <2>1, <3>2, RelaxedKeeps
    <3>4. DijkstraAlike(y, m)
      BY <3>3 DEF DijkstraAlike
    <3>5. QED
      BY <3>1, <3>2, <3>3, <3>4
  <2> HIDE DEF Good
  <2>2. QED
    BY <2>1 DEF Closed
<1>4. PICK x \in Good, s \in {"complete", "candidates"} : AdmitCandidates(m, req, hid) = Emptied(x, s)
  <2> HIDE DEF Good
  <2>1. QED
    BY <1>2, <1>3, ReachesKeep
<1>5. PICK v : v = AdmitCandidates(m, req, hid)
  OBVIOUS
<1>6. x \in DijkstraType(S) /\ v = [x EXCEPT !.batch = <<>>, !.batchKind = "none", !.state = s]
  BY <1>4, <1>5 DEF Emptied
<1>7. s \in States /\ <<>> \in Seq(CandType)
  BY DEF States
<1>8. IsFiniteSet(x.heap) /\ DijkstraAlike(x, m)
  BY <1>4
<1> HIDE DEF Good
<1>9. v \in DijkstraType(S)
  BY <1>6, <1>7 DEF DijkstraType
<1>10. /\ v.scan = x.scan /\ v.batch = <<>> /\ v.state = s /\ v.batchKind = "none" /\ v.heap = x.heap
       /\ v.endpointCursor = x.endpointCursor /\ v.endpointHidden = x.endpointHidden
  BY <1>6 DEF DijkstraType
<1>11. Paged(v, req, S) /\ EndpointsOK(v, req, S)
  <2>1. /\ v.scan = m.scan /\ v.endpointCursor = m.endpointCursor /\ v.endpointHidden = m.endpointHidden
        /\ v.state \in {"complete", "candidates"}
    BY <1>8, <1>10 DEF DijkstraAlike
  <2>2. QED
    BY <1>1, <1>10, <2>1, EmptiedKeeps
<1>12. QED
  BY <1>5, <1>8, <1>9, <1>10, <1>11 DEF DijkstraOK

----------------------------------------------------------------------------
(* New machines *)

\* A function that differs from a constant one at a node.
LEMMA OnlyIs ==
    ASSUME NEW n \in Nodes, NEW T, NEW a \in T, NEW b \in T
    PROVE  Only(n, a, b) \in [Nodes -> T]
  BY DEF Only

\* A side that has reached its root.
LEMMA SideIs ==
    ASSUME NEW S \in SUBSET Nodes, NEW root \in Nodes, NEW q \in Seq(S)
    PROVE  [frontier |-> q, depth |-> Only(root, 0, -1), parent |-> Only(root, root, NoNode)] \in SideType(S)
<1>1. Only(root, 0, -1) \in Depths
  BY DEF Depths, Only
<1>2. Only(root, root, NoNode) \in Parents
  BY OnlyIs DEF Parents
<1>3. QED
  BY <1>1, <1>2 DEF SideType

\* Nothing is being read, and no batch is out.
LEMMA NewPaged ==
    ASSUME NEW S \in SUBSET Nodes, NEW req \in ReqType, NEW m, m.scan = Resting, m.batch = <<>>,
           m.state # "visibility"
    PROVE  Paged(m, req, S) /\ m.scan \in ScanType /\ m.batch \in Seq(CandType)
<1>1. Resting \in ScanType /\ Resting.active = NoNode /\ Len(Resting.pending) = 0
  BY DEF Resting, ScanType
<1>2. 0 <= req.page /\ 0 <= req.keys
  BY DEF ReqType
<1>3. <<>> \in Seq(CandType) /\ Len(<<>>) = 0
  OBVIOUS
<1>4. ScanOK(m.scan, req, S)
  BY <1>1, <1>2 DEF ScanOK
<1>5. BatchOK(m.batch, req)
  BY <1>2, <1>3 DEF BatchOK
<1>6. QED
  BY <1>1, <1>3, <1>4, <1>5 DEF Paged

\* No endpoint was asked for yet.
LEMMA NewEndpoints ==
    ASSUME NEW S \in SUBSET Nodes, NEW req \in ReqType, NEW m, m.state = "endpoints", m.scan = Resting,
           m.batchKind = "none", m.endpointCursor = 0, m.endpointHidden = FALSE
    PROVE  EndpointsOK(m, req, S) /\ Asking(m)
<1>1. Len(Endpoints(req)) \in 1..2
  BY EndpointsIs
<1>2. Asked(m) = 0 /\ Asking(m)
  BY DEF Asked, Asking
<1>3. m.endpointCursor \in 0..Len(Endpoints(req)) /\ m.endpointCursor < Len(Endpoints(req))
  <2>1. PICK n \in 1..2 : n = Len(Endpoints(req))
    BY <1>1
  <2>2. 0 \in 0..n /\ 0 < n
    OBVIOUS
  <2>3. QED
    BY <2>1, <2>2
<1>4. \A i \in 1..Asked(m) : Endpoints(req)[i] \in S
  BY <1>2
<1>5. QED
  BY <1>2, <1>3, <1>4 DEF EndpointsOK

\* A traversal starts with its seed waiting, unless its depth is exhausted at once.
LEMMA NewTraversalOK ==
    ASSUME NEW S \in SUBSET Nodes, NEW req \in ReqType, req.source \in S
    PROVE  TraversalOK(NewTraversal(req), req, S)
<1>1. PICK m : m = NewTraversal(req)
  OBVIOUS
<1>2. req.maxDepth \in Int /\ req.source \in Nodes
  BY DEF ReqType
<1>3. PICK st, q, D, P :
        /\ st = (IF req.maxDepth <= 0 THEN "complete" ELSE "candidates")
        /\ q = (IF req.maxDepth <= 0 THEN <<>> ELSE <<req.source>>)
        /\ D = [n \in Nodes |-> IF n = req.source THEN 0 ELSE -1]
        /\ P = [n \in Nodes |-> IF n = req.source THEN n ELSE NoNode]
  OBVIOUS
<1>4. m = [state |-> st, frontier |-> q, depth |-> D, parent |-> P, truncated |-> FALSE,
           scan |-> Resting, batch |-> <<>>]
  BY <1>1, <1>3 DEF NewTraversal
<1>5. st \in States \ {"endpoints"} /\ st # "visibility"
  BY <1>3 DEF States
<1>6. q \in Seq(S)
  <2>1. <<>> \in Seq(S) /\ <<req.source>> \in Seq(S)
    OBVIOUS
  <2>2. QED
    BY <1>3, <2>1
<1>7. D \in Depths
  BY <1>3 DEF Depths
<1>8. P \in Parents
  BY <1>3 DEF Parents
<1>9. Paged(m, req, S) /\ m.scan \in ScanType /\ m.batch \in Seq(CandType)
  <2>1. m.scan = Resting /\ m.batch = <<>> /\ m.state # "visibility"
    BY <1>4, <1>5
  <2>2. QED
    BY <2>1, NewPaged
<1>10. m \in TraversalType(S)
  <2>1. Resting \in ScanType /\ <<>> \in Seq(CandType)
    BY <1>4, <1>9
  <2>2. QED
    BY <1>4, <1>5, <1>6, <1>7, <1>8, <2>1 DEF TraversalType
<1>11. TreeAgrees(m)
  <2>1. ASSUME NEW n \in Nodes PROVE D[n] >= -1 /\ (D[n] >= 0 <=> P[n] \in Nodes)
    <3>1. NoNode \notin Nodes
      BY SearchGraphAssumption DEF NoNode, Nodes
    <3>2. CASE n = req.source
      BY <1>3, <3>2
    <3>3. CASE n # req.source
      BY <1>3, <3>1, <3>3
    <3>4. QED
      BY <3>2, <3>3
  <2>2. m.depth = D /\ m.parent = P
    BY <1>4
  <2>3. QED
    BY <2>1, <2>2 DEF TreeAgrees
<1>12. QED
  BY <1>1, <1>9, <1>10, <1>11 DEF TraversalOK

\* A search from the source starts with nothing waiting.
LEMMA NewSingleOK ==
    ASSUME NEW S \in SUBSET Nodes, NEW req \in ReqType
    PROVE  SingleOK(NewSingle(req), req, S)
<1>1. PICK m : m = NewSingle(req)
  OBVIOUS
<1>2. req.source \in Nodes /\ <<>> \in Seq(S)
  BY DEF ReqType
<1>3. PICK tr : tr = [Side(req.source) EXCEPT !.frontier = <<>>]
  OBVIOUS
<1>4. tr = [frontier |-> <<>>, depth |-> Only(req.source, 0, -1), parent |-> Only(req.source, req.source, NoNode)]
  BY <1>3 DEF Side
<1>5. tr \in SideType(S)
  BY <1>2, <1>4, SideIs
<1>6. m = [state |-> "endpoints", scan |-> Resting, batch |-> <<>>, batchKind |-> "none",
           endpointCursor |-> 0, endpointHidden |-> FALSE, found |-> FALSE, tree |-> tr]
  BY <1>1, <1>3 DEF NewSingle
<1>7. /\ m.state = "endpoints" /\ m.scan = Resting /\ m.batch = <<>> /\ m.batchKind = "none"
      /\ m.endpointCursor = 0 /\ m.endpointHidden = FALSE
  BY <1>6
<1>8. Paged(m, req, S) /\ m.scan \in ScanType /\ m.batch \in Seq(CandType)
  BY <1>7, NewPaged
<1>9. EndpointsOK(m, req, S)
  BY <1>7, NewEndpoints
<1>10. m \in SingleType(S)
  <2>1. Resting \in ScanType /\ <<>> \in Seq(CandType) /\ "endpoints" \in States
    BY <1>7, <1>8 DEF States
  <2>2. QED
    BY <1>5, <1>6, <2>1 DEF SingleType
<1>11. QED
  BY <1>1, <1>8, <1>9, <1>10 DEF SingleOK

\* A search from both ends starts with its endpoints waiting, shown or not.
LEMMA NewBothOK ==
    ASSUME NEW S \in SUBSET Nodes, NEW req \in ReqType
    PROVE  BothOK(NewBidirectional(req), req, S)
<1>1. PICK m : m = NewBidirectional(req)
  OBVIOUS
<1>2. req.source \in Nodes /\ req.target \in Nodes /\ <<req.source>> \in Seq(Nodes) /\ <<req.target>> \in Seq(Nodes)
  BY DEF ReqType
<1>3. PICK F, B : F = Side(req.source) /\ B = Side(req.target)
  OBVIOUS
<1>4. F \in SideType(Nodes) /\ F.frontier = <<req.source>>
  <2>1. F = [frontier |-> <<req.source>>, depth |-> Only(req.source, 0, -1), parent |-> Only(req.source, req.source, NoNode)]
    BY <1>3 DEF Side
  <2>2. F \in SideType(Nodes)
    BY <1>2, <2>1, SideIs
  <2>3. QED
    BY <2>1, <2>2
<1>5. B \in SideType(Nodes) /\ B.frontier = <<req.target>>
  <2>1. B = [frontier |-> <<req.target>>, depth |-> Only(req.target, 0, -1), parent |-> Only(req.target, req.target, NoNode)]
    BY <1>3 DEF Side
  <2>2. B \in SideType(Nodes)
    BY <1>2, <2>1, SideIs
  <2>3. QED
    BY <2>1, <2>2
<1>6. m = [state |-> "endpoints", scan |-> Resting, batch |-> <<>>, batchKind |-> "none",
           endpointCursor |-> 0, endpointHidden |-> FALSE, found |-> FALSE, forward |-> F, backward |-> B,
           side |-> "none", levelRemaining |-> 0, round |-> 0, meet |-> NoNode, best |-> Infinity]
  BY <1>1, <1>3 DEF NewBidirectional
<1>7. /\ m.state = "endpoints" /\ m.scan = Resting /\ m.batch = <<>> /\ m.batchKind = "none"
      /\ m.endpointCursor = 0 /\ m.endpointHidden = FALSE /\ m.side = "none"
      /\ m.forward = F /\ m.backward = B
  BY <1>6
<1>8. Paged(m, req, S) /\ m.scan \in ScanType /\ m.batch \in Seq(CandType)
  BY <1>7, NewPaged
<1>9. EndpointsOK(m, req, S) /\ Asking(m)
  BY <1>7, NewEndpoints
<1>10. m \in BothType(Nodes)
  <2>1. Resting \in ScanType /\ <<>> \in Seq(CandType) /\ "endpoints" \in States /\ Infinity \in Int
    BY <1>7, <1>8, SearchGraphAssumption DEF States
  <2>2. QED
    BY <1>4, <1>5, <1>6, <2>1 DEF BothType
<1>11. BothLevels(m)
  BY <1>7 DEF BothLevels
<1>12. QED
  BY <1>1, <1>4, <1>5, <1>7, <1>8, <1>9, <1>10, <1>11 DEF BothOK

\* Dijkstra's search starts with the source in its heap.
LEMMA NewDijkstraOK ==
    ASSUME NEW S \in SUBSET Nodes, NEW req \in ReqType, req.source \in S
    PROVE  DijkstraOK(NewDijkstra(req), req, S)
<1>1. PICK m : m = NewDijkstra(req)
  OBVIOUS
<1>2. req.source \in Nodes
  BY DEF ReqType
<1>3. PICK D, P, H : /\ D = Only(req.source, 0, Infinity) /\ P = Only(req.source, req.source, NoNode)
                     /\ H = {<<0, req.source>>}
  OBVIOUS
<1>4. D \in [Nodes -> Nat]
  BY <1>2, <1>3, OnlyIs, SearchGraphAssumption
<1>5. P \in Parents
  BY <1>2, <1>3, OnlyIs DEF Parents
<1>6. H \in SUBSET (Nat \X S) /\ IsFiniteSet(H)
  BY <1>3, FS_Singleton
<1>7. m = [state |-> "endpoints", scan |-> Resting, batch |-> <<>>, batchKind |-> "none",
           endpointCursor |-> 0, endpointHidden |-> FALSE, found |-> FALSE, dist |-> D, parent |-> P,
           heap |-> H]
  BY <1>1, <1>3 DEF NewDijkstra
<1>8. /\ m.state = "endpoints" /\ m.scan = Resting /\ m.batch = <<>> /\ m.batchKind = "none"
      /\ m.endpointCursor = 0 /\ m.endpointHidden = FALSE /\ m.heap = H
  BY <1>7
<1>9. Paged(m, req, S) /\ m.scan \in ScanType /\ m.batch \in Seq(CandType)
  BY <1>8, NewPaged
<1>10. EndpointsOK(m, req, S)
  BY <1>8, NewEndpoints
<1>11. m \in DijkstraType(S)
  <2>1. Resting \in ScanType /\ <<>> \in Seq(CandType) /\ "endpoints" \in States
    BY <1>8, <1>9 DEF States
  <2>2. QED
    BY <1>4, <1>5, <1>6, <1>7, <2>1 DEF DijkstraType
<1>12. QED
  BY <1>1, <1>6, <1>8, <1>9, <1>10, <1>11 DEF DijkstraOK

\* The machine of any request starts well.
LEMMA NewOK ==
    ASSUME NEW S \in SUBSET Nodes, NEW req \in ReqType, req.source \in S
    PROVE  MachineOK(NewMachine(req), req, S)
<1>1. CASE req.kind \in Traversals
  <2>1. NewMachine(req) = NewTraversal(req)
    BY <1>1 DEF NewMachine, Traversals
  <2>2. QED
    BY <1>1, <2>1, NewTraversalOK DEF MachineOK, Traversals
<1>2. CASE req.kind = "single"
  <2>1. NewMachine(req) = NewSingle(req)
    BY <1>2 DEF NewMachine, Traversals
  <2>2. QED
    BY <1>2, <2>1, NewSingleOK DEF MachineOK, Traversals
<1>3. CASE req.kind = "bidirectional"
  <2>1. NewMachine(req) = NewBidirectional(req)
    BY <1>3 DEF NewMachine, Traversals
  <2>2. QED
    BY <1>3, <2>1, NewBothOK DEF MachineOK, Traversals
<1>4. CASE req.kind = "dijkstra"
  <2>1. NewMachine(req) = NewDijkstra(req)
    BY <1>4 DEF NewMachine, Traversals
  <2>2. QED
    BY <1>4, <2>1, NewDijkstraOK DEF MachineOK, Traversals
<1>5. QED
  BY <1>1, <1>2, <1>3, <1>4 DEF ReqType, Traversals

----------------------------------------------------------------------------
(* Showing more nodes hurts no machine *)

\* A sequence over a set is one over any larger set.
LEMMA SeqGrows ==
    ASSUME NEW S, NEW T, S \subseteq T, NEW q \in Seq(S)
    PROVE  q \in Seq(T)
<1>1. PICK n \in Nat : q \in [1..n -> S]
  <2>1. q \in [1..Len(q) -> S] /\ Len(q) \in Nat
    OBVIOUS
  <2>2. QED
    BY <2>1
<1>2. q \in [1..n -> T]
  BY <1>1
<1>3. QED
  BY <1>2, SMTT(40)

\* The node that is read stays one of S as S grows.
LEMMA PagedGrows ==
    ASSUME NEW S, NEW T, S \subseteq T, NEW req, NEW m, Paged(m, req, S)
    PROVE  Paged(m, req, T)
  BY DEF Paged, ScanOK

\* Endpoints that were shown stay shown.
LEMMA EndpointsGrow ==
    ASSUME NEW S, NEW T, S \subseteq T, NEW req, NEW m, EndpointsOK(m, req, S)
    PROVE  EndpointsOK(m, req, T)
<1>1. ~m.endpointHidden => \A i \in 1..Asked(m) : Endpoints(req)[i] \in T
  BY DEF EndpointsOK
<1>2. QED
  BY <1>1 DEF EndpointsOK

\* What waits on a side stays in S as S grows.
LEMMA SideGrows ==
    ASSUME NEW S, NEW T, S \subseteq T, NEW s \in SideType(S)
    PROVE  s \in SideType(T)
<1>1. s.frontier \in Seq(T)
  BY SeqGrows DEF SideType
<1>2. QED
  BY <1>1 DEF SideType

\* A good machine stays good while nothing changes but that more nodes are shown.
LEMMA MachineGrows ==
    ASSUME NEW S, NEW T \in SUBSET Nodes, S \subseteq T, NEW req, NEW m, MachineOK(m, req, S)
    PROVE  MachineOK(m, req, T)
<1>1. ASSUME req.kind \in Traversals PROVE TraversalOK(m, req, T)
  <2>1. m \in TraversalType(S) /\ TreeAgrees(m) /\ Paged(m, req, S)
    BY <1>1 DEF MachineOK, TraversalOK
  <2>2. m.frontier \in Seq(T)
    <3>1. m.frontier \in Seq(S)
      BY <2>1 DEF TraversalType
    <3>2. QED
      BY <3>1, SeqGrows
  <2>3. m \in TraversalType(T)
    BY <2>1, <2>2 DEF TraversalType
  <2>4. QED
    BY <2>1, <2>3, PagedGrows DEF TraversalOK
<1>2. ASSUME req.kind = "single" PROVE SingleOK(m, req, T)
  <2>1. m \in SingleType(S) /\ Paged(m, req, S) /\ EndpointsOK(m, req, S)
    BY <1>2 DEF MachineOK, SingleOK
  <2>2. m.tree \in SideType(T)
    <3>1. m.tree \in SideType(S)
      BY <2>1 DEF SingleType
    <3>2. QED
      BY <3>1, SideGrows
  <2>3. m \in SingleType(T)
    BY <2>1, <2>2 DEF SingleType
  <2>4. QED
    BY <2>1, <2>3, PagedGrows, EndpointsGrow DEF SingleOK
<1>3. ASSUME req.kind = "bidirectional" PROVE BothOK(m, req, T)
  <2>1. /\ m \in BothType(IF Asking(m) \/ m.endpointHidden THEN Nodes ELSE S)
        /\ Paged(m, req, S) /\ EndpointsOK(m, req, S) /\ BothLevels(m)
        /\ Asking(m) => m.forward.frontier = <<req.source>> /\ m.backward.frontier = <<req.target>>
    BY <1>3 DEF MachineOK, BothOK
  <2>2. m \in BothType(IF Asking(m) \/ m.endpointHidden THEN Nodes ELSE T)
    <3>1. CASE Asking(m) \/ m.endpointHidden
      BY <2>1, <3>1
    <3>2. CASE ~(Asking(m) \/ m.endpointHidden)
      <4>1. m \in BothType(S)
        BY <2>1, <3>2
      <4>2. m.forward \in SideType(S) /\ m.backward \in SideType(S)
        BY <4>1 DEF BothType
      <4>3. m.forward \in SideType(T) /\ m.backward \in SideType(T)
        BY <4>2, SideGrows
      <4>4. m \in BothType(T)
        BY <4>1, <4>3 DEF BothType
      <4>5. QED
        BY <3>2, <4>4
    <3>3. QED
      BY <3>1, <3>2
  <2>3. Paged(m, req, T) /\ EndpointsOK(m, req, T)
    BY <2>1, PagedGrows, EndpointsGrow
  <2>4. QED
    BY <2>1, <2>2, <2>3 DEF BothOK
<1>4. ASSUME req.kind = "dijkstra" PROVE DijkstraOK(m, req, T)
  <2>1. m \in DijkstraType(S) /\ IsFiniteSet(m.heap) /\ Paged(m, req, S) /\ EndpointsOK(m, req, S)
    BY <1>4 DEF MachineOK, DijkstraOK
  <2>2. m.heap \in SUBSET (Nat \X T)
    <3>1. m.heap \in SUBSET (Nat \X S)
      BY <2>1 DEF DijkstraType
    <3>2. QED
      BY <3>1
  <2>3. m \in DijkstraType(T)
    BY <2>1, <2>2 DEF DijkstraType
  <2>4. QED
    BY <2>1, <2>3, PagedGrows, EndpointsGrow DEF DijkstraOK
<1>5. QED
  BY <1>1, <1>2, <1>3, <1>4 DEF MachineOK

----------------------------------------------------------------------------
(* The steps of any machine *)

\* Fields that machines of every kind have.
LEMMA CommonFields ==
    ASSUME NEW S \in SUBSET Nodes, NEW req \in ReqType, NEW m, MachineOK(m, req, S)
    PROVE  /\ m.state \in States /\ Paged(m, req, S)
           /\ req.kind \notin Traversals => EndpointsOK(m, req, S)
<1>1. CASE req.kind \in Traversals
  BY <1>1 DEF MachineOK, TraversalOK, TraversalType
<1>2. CASE req.kind = "single"
  BY <1>2 DEF MachineOK, SingleOK, SingleType
<1>3. CASE req.kind = "bidirectional"
  BY <1>3 DEF MachineOK, BothOK, BothType
<1>4. CASE req.kind = "dijkstra"
  BY <1>4 DEF MachineOK, DijkstraOK, DijkstraType
<1>5. QED
  BY <1>1, <1>2, <1>3, <1>4 DEF ReqType, Traversals

\* Cutting a batch, whatever the kind of the search.
LEMMA MaterializedKeeps ==
    ASSUME NEW S \in SUBSET Nodes, NEW req \in ReqType, NEW g \in SUBSET DOMAIN Universe, NEW m,
           MachineOK(m, req, S), m.state \in {"endpoints", "candidates"}
    PROVE  MachineOK(Materialized(m, req, g), req, S)
<1>1. CASE req.kind \in Traversals
  <2>1. Materialized(m, req, g) = MaterializeTraversal(m, req, g)
    BY <1>1 DEF Materialized, Traversals
  <2>2. TraversalOK(m, req, S)
    BY <1>1 DEF MachineOK
  <2>3. m.state = "candidates"
    BY <2>2 DEF TraversalOK, TraversalType
  <2>4. TraversalOK(Materialized(m, req, g), req, S)
    BY <2>1, <2>2, <2>3, MaterializeTraversalKeeps
  <2>5. QED
    BY <1>1, <2>4 DEF MachineOK, Traversals
<1>2. CASE req.kind = "single"
  <2>1. SingleOK(m, req, S)
    BY <1>2 DEF MachineOK
  <2>2. CASE m.state = "endpoints"
    <3>1. Materialized(m, req, g) = MaterializeEndpoints(m, req)
      BY <1>2, <2>2 DEF Materialized, Traversals
    <3>2. QED
      BY <1>2, <2>1, <2>2, <3>1, AskSingle DEF MachineOK, Traversals
  <2>3. CASE m.state = "candidates"
    <3>1. Materialized(m, req, g) = MaterializeSingle(m, req, g)
      BY <1>2, <2>3 DEF Materialized, Traversals
    <3>2. QED
      BY <1>2, <2>1, <2>3, <3>1, MaterializeSingleKeeps DEF MachineOK, Traversals
  <2>4. QED
    BY <2>2, <2>3
<1>3. CASE req.kind = "bidirectional"
  <2>1. BothOK(m, req, S)
    BY <1>3 DEF MachineOK
  <2>2. CASE m.state = "endpoints"
    <3>1. Materialized(m, req, g) = MaterializeEndpoints(m, req)
      BY <1>3, <2>2 DEF Materialized, Traversals
    <3>2. QED
      BY <1>3, <2>1, <2>2, <3>1, AskBoth DEF MachineOK, Traversals
  <2>3. CASE m.state = "candidates"
    <3>1. Materialized(m, req, g) = MaterializeBidirectional(m, req, g)
      BY <1>3, <2>3 DEF Materialized, Traversals
    <3>2. QED
      BY <1>3, <2>1, <2>3, <3>1, MaterializeBothKeeps DEF MachineOK, Traversals
  <2>4. QED
    BY <2>2, <2>3
<1>4. CASE req.kind = "dijkstra"
  <2>1. DijkstraOK(m, req, S)
    BY <1>4 DEF MachineOK
  <2>2. CASE m.state = "endpoints"
    <3>1. Materialized(m, req, g) = MaterializeEndpoints(m, req)
      BY <1>4, <2>2 DEF Materialized, Traversals
    <3>2. QED
      BY <1>4, <2>1, <2>2, <3>1, AskDijkstra DEF MachineOK, Traversals
  <2>3. CASE m.state = "candidates"
    <3>1. Materialized(m, req, g) = MaterializeDijkstra(m, req, g)
      BY <1>4, <2>3 DEF Materialized, Traversals
    <3>2. QED
      BY <1>4, <2>1, <2>3, <3>1, MaterializeDijkstraKeeps DEF MachineOK, Traversals
  <2>4. QED
    BY <2>2, <2>3
<1>5. QED
  BY <1>1, <1>2, <1>3, <1>4 DEF ReqType, Traversals

\* Applying the verdicts of a batch, whatever its kind and that of the search.
LEMMA AdmittedKeeps ==
    ASSUME NEW S \in SUBSET Nodes, NEW req \in ReqType, NEW m, MachineOK(m, req, S), m.state = "visibility",
           NEW hid, VisibleIn(m, hid, S)
    PROVE  MachineOK(Admitted(m, req, hid), req, S)
<1>1. \A i \in 1..Len(m.batch) : Shown(hid, m.batch[i]) => m.batch[i].to \in S
  BY DEF VisibleIn
<1>2. CASE req.kind \in Traversals
  <2>1. Admitted(m, req, hid) = AdmitTraversal(m, req, hid)
    BY <1>2 DEF Admitted, Traversals
  <2>2. TraversalOK(m, req, S)
    BY <1>2 DEF MachineOK
  <2>3. TraversalOK(Admitted(m, req, hid), req, S)
    BY <1>1, <2>1, <2>2, AdmitTraversalKeeps
  <2>4. QED
    BY <1>2, <2>3 DEF MachineOK, Traversals
<1>3. ASSUME req.kind \notin Traversals PROVE m.batchKind \in {"endpoints", "adjacency"}
  <2>1. EndpointsOK(m, req, S)
    BY <1>3, CommonFields
  <2>2. m.batchKind \in {"none", "endpoints", "adjacency"}
    <3>1. CASE req.kind = "single"
      BY <3>1 DEF MachineOK, SingleOK, SingleType
    <3>2. CASE req.kind = "bidirectional"
      BY <3>2 DEF MachineOK, BothOK, BothType
    <3>3. CASE req.kind = "dijkstra"
      BY <3>3 DEF MachineOK, DijkstraOK, DijkstraType
    <3>4. QED
      BY <1>3, <3>1, <3>2, <3>3 DEF ReqType, Traversals
  <2>3. QED
    BY <2>1, <2>2 DEF EndpointsOK
<1>4. ASSUME req.kind \notin Traversals, m.batchKind = "endpoints"
      PROVE  Admitted(m, req, hid) = AdmitEndpoints(m, req, hid)
  BY <1>4 DEF Admitted, Traversals
<1>5. ASSUME req.kind \notin Traversals, m.batchKind = "adjacency"
      PROVE  Admitted(m, req, hid) = AdmitCandidates(m, req, hid)
  BY <1>5 DEF Admitted, Traversals
<1>6. CASE req.kind = "single"
  <2>1. SingleOK(m, req, S) /\ req.kind \notin Traversals
    BY <1>6 DEF MachineOK, Traversals
  <2>2. SingleOK(Admitted(m, req, hid), req, S)
    <3>1. CASE m.batchKind = "endpoints"
      BY <1>1, <1>4, <1>6, <2>1, <3>1, AnswerSingle
    <3>2. CASE m.batchKind = "adjacency"
      BY <1>5, <1>6, <2>1, <3>2, AdmitSingleKeeps
    <3>3. QED
      BY <1>3, <2>1, <3>1, <3>2
  <2>3. QED
    BY <1>6, <2>2 DEF MachineOK, Traversals
<1>7. CASE req.kind = "bidirectional"
  <2>1. BothOK(m, req, S) /\ req.kind \notin Traversals
    BY <1>7 DEF MachineOK, Traversals
  <2>2. BothOK(Admitted(m, req, hid), req, S)
    <3>1. CASE m.batchKind = "endpoints"
      BY <1>1, <1>4, <1>7, <2>1, <3>1, AnswerBoth
    <3>2. CASE m.batchKind = "adjacency"
      BY <1>5, <1>7, <2>1, <3>2, AdmitBothKeeps
    <3>3. QED
      BY <1>3, <2>1, <3>1, <3>2
  <2>3. QED
    BY <1>7, <2>2 DEF MachineOK, Traversals
<1>8. CASE req.kind = "dijkstra"
  <2>1. DijkstraOK(m, req, S) /\ req.kind \notin Traversals
    BY <1>8 DEF MachineOK, Traversals
  <2>2. DijkstraOK(Admitted(m, req, hid), req, S)
    <3>1. CASE m.batchKind = "endpoints"
      BY <1>1, <1>4, <1>8, <2>1, <3>1, AnswerDijkstra
    <3>2. CASE m.batchKind = "adjacency"
      BY <1>5, <1>8, <2>1, <3>2, AdmitDijkstraKeeps
    <3>3. QED
      BY <1>3, <2>1, <3>1, <3>2
  <2>3. QED
    BY <1>8, <2>2 DEF MachineOK, Traversals
<1>9. QED
  BY <1>2, <1>6, <1>7, <1>8 DEF ReqType, Traversals

----------------------------------------------------------------------------
(* Verdicts *)

\* PostgreSQL's answers settle what was asked for and unsettle nothing.
LEMMA ResolveSettles ==
    ASSUME NEW items, hidden \subseteq decided, decided \subseteq Hideable, Resolve(items)
    PROVE  /\ hidden' \subseteq decided' /\ decided' \subseteq Hideable
           /\ Settled(decided, hidden) \subseteq Settled(decided', hidden')
           /\ \A n \in Nodes : <<"node", n>> \in items /\ <<"node", n>> \notin hidden' =>
                                  n \in Settled(decided', hidden')
<1>1. decided' = decided \cup (items \cap Hideable)
  BY DEF Resolve
<1>2. PICK h \in SUBSET ((items \cap Hideable) \ decided) : hidden' = hidden \cup h
  BY DEF Resolve
<1>3. hidden' \subseteq decided' /\ decided' \subseteq Hideable
  BY <1>1, <1>2
<1>4. Settled(decided, hidden) \subseteq Settled(decided', hidden')
  BY <1>1, <1>2 DEF Settled
<1>5. \A n \in Nodes : <<"node", n>> \in items /\ <<"node", n>> \notin hidden' =>
                          n \in Settled(decided', hidden')
  BY <1>1 DEF Settled
<1>6. QED
  BY <1>3, <1>4, <1>5

\* Only nodes can be read.
LEMMA ReadableNodes == Readable \in SUBSET Nodes
  BY DEF Readable, Settled

\* The request of the statement has the types that the requests are assumed to have.
LEMMA RequestIs ==
    ASSUME request \in Requests PROVE request \in ReqType
  BY RequestAssumption DEF ReqType

----------------------------------------------------------------------------
(* The invariant *)

\* The invariant holds initially: nothing is required of an unstarted search but its form.
LEMMA InitHolds == Init => IInv
<1> SUFFICES ASSUME Init PROVE IInv
  OBVIOUS
<1>1. request \in ReqType /\ Readable = Nodes
  BY RequestIs DEF Init, Readable
<1>2. request.source \in Nodes
  BY <1>1 DEF ReqType
<1>3. MachineOK(machine, request, Readable)
  BY <1>1, <1>2, NewOK DEF Init
<1>4. QED
  BY <1>3 DEF Init, IInv

\* The source is shown before the search starts, or the statement is over.
LEMMA ProveSourceKeeps == IInv /\ ProveSource => IInv'
<1> SUFFICES ASSUME IInv, ProveSource PROVE IInv'
  OBVIOUS
<1>1. request \in ReqType /\ request' = request /\ machine' = machine /\ machine = NewMachine(request)
  BY RequestIs DEF IInv, ProveSource
<1>2. request.source \in Nodes
  BY <1>1 DEF ReqType
<1>3. PICK items : items = {<<"node", request.source>>} /\ Resolve(items)
  BY DEF ProveSource
<1>4. /\ hidden' \subseteq decided' /\ decided' \subseteq Hideable
      /\ \A n \in Nodes : <<"node", n>> \in items /\ <<"node", n>> \notin hidden' =>
                             n \in Settled(decided', hidden')
  BY <1>3, ResolveSettles DEF IInv
<1>5. MachineOK(machine, request, Readable')
  <2>1. CASE <<"node", request.source>> \in hidden'
    <3>1. phase' = "empty"
      BY <2>1 DEF ProveSource
    <3>2. Readable' = Nodes
      BY <3>1 DEF Readable
    <3>3. QED
      BY <1>1, <1>2, <3>2, NewOK
  <2>2. CASE <<"node", request.source>> \notin hidden'
    <3>1. phase' = "running"
      BY <2>2 DEF ProveSource
    <3>2. Readable' = Settled(decided', hidden') /\ Readable' \in SUBSET Nodes
      BY <3>1 DEF Readable, Settled
    <3>3. request.source \in Readable'
      BY <1>2, <1>3, <1>4, <2>2, <3>2
    <3>4. QED
      BY <1>1, <3>2, <3>3, NewOK
  <2>3. QED
    BY <2>1, <2>2
<1>6. /\ graph' \subseteq DOMAIN Universe /\ request' \in Requests
      /\ epoch' \in 0..1 /\ bound' \in 0..epoch'
      /\ phase' \in {"empty", "running"}
  BY DEF IInv, ProveSource
<1>7. MachineOK(machine, request, Readable)'
  BY <1>1, <1>5
<1>8. QED
  BY <1>4, <1>6, <1>7 DEF IInv

\* No verdict changes while a batch is cut.
LEMMA MaterializeKeeps == IInv /\ Materialize => IInv'
<1> SUFFICES ASSUME IInv, Materialize PROVE IInv'
  OBVIOUS
<1>1. /\ request \in ReqType /\ Readable \in SUBSET Nodes /\ graph \in SUBSET DOMAIN Universe
      /\ MachineOK(machine, request, Readable) /\ machine.state \in {"endpoints", "candidates"}
  BY RequestIs, ReadableNodes DEF IInv, Materialize
<1>2. MachineOK(Materialized(machine, request, graph), request, Readable)
  BY <1>1, MaterializedKeeps
<1>3. /\ machine' = Materialized(machine, request, graph) /\ request' = request /\ Readable' = Readable
      /\ phase' = phase /\ phase = "running"
  BY DEF Materialize, visVars, Readable
<1>4. MachineOK(machine, request, Readable)'
  BY <1>2, <1>3
<1>5. QED
  BY <1>3, <1>4 DEF IInv, Materialize, visVars

\* The verdicts that a batch is admitted by were settled for all of its nodes.
LEMMA AdmitKeeps == IInv /\ Admit => IInv'
<1> SUFFICES ASSUME IInv, Admit PROVE IInv'
  OBVIOUS
<1>1. /\ request \in ReqType /\ MachineOK(machine, request, Readable) /\ machine.state = "visibility"
      /\ phase = "running" /\ phase' = "running" /\ request' = request
      /\ machine' = Admitted(machine, request, hidden')
  BY RequestIs DEF IInv, Admit
<1>2. PICK items : /\ Resolve(items)
                   /\ \A i \in DOMAIN machine.batch : <<"node", machine.batch[i].to>> \in items
  BY DEF Admit
<1>3. PICK S, T : S = Settled(decided, hidden) /\ T = Settled(decided', hidden')
  OBVIOUS
<1>4. Readable = S /\ Readable' = T /\ S \in SUBSET Nodes /\ T \in SUBSET Nodes
  BY <1>1, <1>3 DEF Readable, Settled
<1>5. /\ hidden' \subseteq decided' /\ decided' \subseteq Hideable /\ S \subseteq T
      /\ \A n \in Nodes : <<"node", n>> \in items /\ <<"node", n>> \notin hidden' => n \in T
  BY <1>2, <1>3, ResolveSettles DEF IInv
<1>6. MachineOK(machine, request, T)
  BY <1>1, <1>4, <1>5, MachineGrows
<1>7. VisibleIn(machine, hidden', T)
  <2>1. machine.batch \in Seq(CandType)
    BY <1>1, <1>4, CommonFields DEF Paged, BatchOK
  <2>2. ASSUME NEW i \in 1..Len(machine.batch), Shown(hidden', machine.batch[i])
        PROVE  machine.batch[i].to \in T
    <3>1. i \in DOMAIN machine.batch /\ machine.batch[i] \in CandType
      BY <2>1
    <3>2. machine.batch[i].to \in Nodes
      BY <3>1 DEF CandType
    <3>3. <<"node", machine.batch[i].to>> \notin hidden'
      BY <2>2 DEF Shown
    <3>4. QED
      BY <1>2, <1>5, <3>1, <3>2, <3>3
  <2>3. QED
    BY <2>2 DEF VisibleIn
<1>8. MachineOK(Admitted(machine, request, hidden'), request, T)
  BY <1>1, <1>4, <1>6, <1>7, AdmittedKeeps
<1>9. MachineOK(machine, request, Readable)'
  BY <1>1, <1>4, <1>8
<1>10. QED
  BY <1>1, <1>5, <1>9 DEF IInv, Admit

\* Ending the statement, or leaving it, keeps the machine; a failed one may hold anything.
LEMMA EndKeeps == IInv /\ (Finish \/ Reject \/ ChangeProjection \/ UNCHANGED vars) => IInv'
<1> SUFFICES ASSUME IInv, Finish \/ Reject \/ ChangeProjection \/ UNCHANGED vars PROVE IInv'
  OBVIOUS
<1>1. machine' = machine /\ request' = request /\ decided' = decided /\ hidden' = hidden
  BY DEF Finish, Reject, ChangeProjection, vars, visVars
<1>2. /\ graph' \subseteq DOMAIN Universe /\ epoch' \in 0..1 /\ bound' \in 0..epoch'
      /\ phase' \in {"start", "running", "done", "empty", "failed"} /\ (phase' = "start" => phase = "start")
  <2>1. CASE Finish
    BY <2>1 DEF IInv, Finish
  <2>2. CASE Reject
    BY <2>2 DEF IInv, Reject
  <2>3. CASE ChangeProjection
    BY <2>3 DEF IInv, ChangeProjection
  <2>4. CASE UNCHANGED vars
    BY <2>4 DEF IInv, vars
  <2>5. QED
    BY <2>1, <2>2, <2>3, <2>4
<1>3. Readable \subseteq Readable' /\ Readable' \in SUBSET Nodes
  <2>1. CASE phase' \in {"running", "done"}
    <3>1. phase \in {"running", "done"}
      BY <2>1 DEF Finish, Reject, ChangeProjection, vars
    <3>2. QED
      BY <1>1, <2>1, <3>1 DEF Readable, Settled
  <2>2. CASE phase' \notin {"running", "done"}
    BY <2>2, ReadableNodes DEF Readable
  <2>3. QED
    BY <2>1, <2>2
<1>4. MachineOK(machine, request, Readable')
  BY <1>3, MachineGrows DEF IInv
<1>5. MachineOK(machine, request, Readable)'
  BY <1>1, <1>4
<1>6. QED
  BY <1>1, <1>2, <1>5 DEF IInv

\* Every step keeps the invariant.
LEMMA NextKeeps == IInv /\ [Next]_vars => IInv'
  BY ProveSourceKeeps, MaterializeKeeps, AdmitKeeps, EndKeeps DEF Next, Returned

----------------------------------------------------------------------------
(* What the invariant says *)

\* The invariant implies the types,
LEMMA InvTypes == IInv => TypeOK
<1> SUFFICES ASSUME IInv PROVE TypeOK
  OBVIOUS
<1>1. request \in ReqType /\ Readable \in SUBSET Nodes /\ MachineOK(machine, request, Readable)
  BY RequestIs, ReadableNodes DEF IInv
<1>2. machine.state \in States /\ Paged(machine, request, Readable)
  BY <1>1, CommonFields
<1>3. Len(machine.batch) <= Min({request.page, request.keys})
  <2>1. request.page \in Int /\ request.keys \in Int
    BY <1>1 DEF ReqType
  <2>2. Min({request.page, request.keys}) \in {request.page, request.keys}
    BY <2>1, MinOfTwo
  <2>3. Len(machine.batch) <= request.page /\ Len(machine.batch) <= request.keys
    BY <1>2 DEF Paged, BatchOK
  <2>4. QED
    BY <2>2, <2>3
<1>4. machine.batch = <<>> <=> machine.state # "visibility"
  BY <1>2 DEF Paged
<1>5. machine.scan.active \in Nodes \cup {NoNode}
  BY <1>1, <1>2 DEF Paged, ScanOK
<1>6. request.kind \in Traversals => \A n \in Nodes : machine.depth[n] >= 0 <=> machine.parent[n] \in Nodes
  BY <1>1 DEF MachineOK, TraversalOK, TreeAgrees
<1>7. QED
  BY <1>2, <1>3, <1>4, <1>5, <1>6 DEF IInv, TypeOK, States

\* The elements of a sequence.
LEMMA RangeIs ==
    ASSUME NEW S, NEW q \in Seq(S) PROVE Range(q) \subseteq S
  BY DEF Range

\* and that whatever is read or waits to be read is visible.
LEMMA InvVisible == IInv => OnlyVisibleExpanded
<1> SUFFICES ASSUME IInv PROVE OnlyVisibleExpanded
  OBVIOUS
<1>1. PICK waiting : waiting =
         CASE request.kind \in Traversals    -> Range(machine.frontier)
           [] request.kind = "single"        -> Range(machine.tree.frontier)
           [] request.kind = "bidirectional" ->
                IF machine.state = "endpoints" \/ machine.batchKind = "endpoints" \/ machine.endpointHidden
                THEN {} ELSE Range(machine.forward.frontier) \cup Range(machine.backward.frontier)
           [] request.kind = "dijkstra"      ->
                IF machine.endpointHidden THEN {} ELSE {h[2] : h \in machine.heap}
  OBVIOUS
<1>2. SUFFICES ASSUME phase \in {"running", "done"},
                      NEW n \in (waiting \cup {machine.scan.active}) \ {NoNode}
               PROVE  <<"node", n>> \notin hidden
  BY <1>1 DEF OnlyVisibleExpanded
<1>3. PICK S : S = Settled(decided, hidden)
  OBVIOUS
<1>4. Readable = S /\ S \in SUBSET Nodes
  BY <1>2, <1>3 DEF Readable, Settled
<1>5. request \in ReqType /\ MachineOK(machine, request, S)
  BY <1>4, RequestIs DEF IInv
<1>6. machine.scan.active \in S \cup {NoNode}
  BY <1>4, <1>5, CommonFields DEF Paged, ScanOK
<1>7. waiting \subseteq S
  <2>1. CASE request.kind \in Traversals
    <3>1. waiting = Range(machine.frontier)
      BY <1>1, <2>1 DEF Traversals
    <3>2. machine.frontier \in Seq(S)
      BY <1>5, <2>1 DEF MachineOK, TraversalOK, TraversalType
    <3>3. QED
      BY <3>1, <3>2, RangeIs
  <2>2. CASE request.kind = "single"
    <3>1. waiting = Range(machine.tree.frontier)
      BY <1>1, <2>2 DEF Traversals
    <3>2. machine.tree.frontier \in Seq(S)
      BY <1>5, <2>2 DEF MachineOK, SingleOK, SingleType, SideType
    <3>3. QED
      BY <3>1, <3>2, RangeIs
  <2>3. CASE request.kind = "bidirectional"
    <3>1. waiting = IF Asking(machine) \/ machine.endpointHidden
                    THEN {} ELSE Range(machine.forward.frontier) \cup Range(machine.backward.frontier)
      BY <1>1, <2>3 DEF Traversals, Asking
    <3>2. CASE Asking(machine) \/ machine.endpointHidden
      BY <3>1, <3>2
    <3>3. CASE ~(Asking(machine) \/ machine.endpointHidden)
      <4>1. machine \in BothType(S)
        BY <1>5, <2>3, <3>3 DEF MachineOK, BothOK
      <4>2. machine.forward.frontier \in Seq(S) /\ machine.backward.frontier \in Seq(S)
        BY <4>1 DEF BothType, SideType
      <4>3. Range(machine.forward.frontier) \subseteq S /\ Range(machine.backward.frontier) \subseteq S
        BY <4>2, RangeIs
      <4>4. QED
        BY <3>1, <3>3, <4>3
    <3>4. QED
      BY <3>2, <3>3
  <2>4. CASE request.kind = "dijkstra"
    <3>1. waiting \subseteq {h[2] : h \in machine.heap}
      BY <1>1, <2>4 DEF Traversals
    <3>2. machine.heap \in SUBSET (Nat \X S)
      BY <1>5, <2>4 DEF MachineOK, DijkstraOK, DijkstraType
    <3>3. QED
      BY <3>1, <3>2
  <2>5. QED
    BY <1>5, <2>1, <2>2, <2>3, <2>4 DEF ReqType, Traversals
<1>8. n \in S
  BY <1>2, <1>6, <1>7
<1>9. QED
  BY <1>3, <1>8 DEF Settled

----------------------------------------------------------------------------
\* The invariant always holds.
LEMMA SearchInvariant == Spec => []IInv
  BY InitHolds, NextKeeps, PTL DEF Spec

\* For any relationships and any requests, a batch fits the page and the key budget of
\* the request, exactly a machine that waits for verdicts has one, and what a traversal
\* has reached has a depth and a parent.
THEOREM SearchTypes == Spec => []TypeOK
  BY SearchInvariant, InvTypes, PTL

\* No search reads a node, or keeps one waiting to be read, that PostgreSQL hides from
\* the caller: not for any page size, key budget or order of verdicts, whether or not
\* the projection changes meanwhile.
THEOREM NothingHiddenRead == Spec => []OnlyVisibleExpanded
  BY SearchInvariant, InvVisible, PTL
=====================================================
