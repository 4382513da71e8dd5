----------------------------- MODULE TxDelta_proofs -----------------------------
(***************************************************************************)
(* Proofs about a transaction's own writes, for any keys, rows, limits and *)
(* nesting of savepoints: the limits hold, and the loaded projection with  *)
(* the delta on top shows exactly the rows that the transaction sees.      *)
(*                                                                         *)
(* What a delta d on a base b shows is stated for given b and d, so that   *)
(* it can be said of the present delta, of every snapshot and of every     *)
(* delta along the record calls of a statement.                            *)
(*                                                                         *)
(* At the end, for deltas of any kind: the lazily captured snapshots       *)
(* implement savepoints, and the revision moves with the delta.            *)
(***************************************************************************)
EXTENDS TxDelta, TxSavepoints, SetLemmas

Arcs == [src : Nat, tgt : Nat, rev : BOOLEAN, rid : Nat \cup {NoId}]
Revs == IF Bidirectional THEN BOOLEAN ELSE {FALSE}
DeltaRecords == [nodes : Seq([key : Keys, idx : Nat]), gone : SUBSET Nat,
                 added : SUBSET Arcs, deleted : SUBSET Arcs, ids : Seq(Rows)]

\* Node indexes and relationship identities in use, and what is behind them.
Size(b, d) == Len(b.nodes) + Len(d.nodes)
IdCount(b, d) == Len(b.edges) + Len(d.ids)
NewIds(b, d) == (Len(b.edges) + 1)..IdCount(b, d)
KeyAt(b, d, i) == IF i <= Len(b.nodes) THEN b.nodes[i] ELSE d.nodes[i - Len(b.nodes)].key
RowAt(b, d, r) == IF r <= Len(b.edges) THEN b.edges[r].row ELSE d.ids[r - Len(b.edges)]
IsLive(b, d, i) == i \in 1..Size(b, d) /\ i \notin d.gone

\* Indexes and identities that a delta mentions are in use; those of its own
\* relationships are past those of the base.
DeltaShape(b, d) ==
    /\ d \in DeltaRecords
    /\ \A n \in 1..Len(d.nodes) : d.nodes[n].idx = Len(b.nodes) + n
    /\ \A i \in d.gone : i \in 1..Size(b, d)
    /\ \A e \in d.added : /\ e.src \in 1..Size(b, d) /\ e.tgt \in 1..Size(b, d)
                          /\ e.rid \in NewIds(b, d) /\ e.rev \in Revs
    /\ \A e \in d.deleted : /\ e.src \in 1..Size(b, d) /\ e.tgt \in 1..Size(b, d)
                            /\ e.rid \in (1..IdCount(b, d)) \cup {NoId}

\* ensure_write_capacity has let every entry through.
Limited(d) ==
    /\ IsFiniteSet(d.gone) /\ IsFiniteSet(d.added) /\ IsFiniteSet(d.deleted)
    /\ NodeEntries(d) <= MaxNodes /\ EdgeEntries(d) <= MaxEdges

DeltaOK(b, d) == DeltaShape(b, d) /\ Limited(d)

\* The relationships of the base, in each of their directions.
Mirror(e) == [src |-> e.tgt, tgt |-> e.src, rev |-> TRUE, rid |-> e.rid]
BaseArc(b, r) == Forward(Position(b.nodes, b.edges[r].src), Position(b.nodes, b.edges[r].tgt), r)
IsBaseArc(b, e) ==
    \E r \in 1..Len(b.edges) : e = BaseArc(b, r) \/ (Bidirectional /\ e = Mirror(BaseArc(b, r)))

IsSeen(b, d, e) ==
    /\ (IsBaseArc(b, e) /\ \A t \in d.deleted : ~Covers(t, e)) \/ e \in d.added
    /\ e.src \notin d.gone /\ e.tgt \notin d.gone

\* Arc e stands for row x, read from one end or from the other.
Depicts(b, d, e, x) ==
    /\ RowAt(b, d, e.rid) = x.row
    /\ KeyAt(b, d, e.src) = IF e.rev THEN x.tgt ELSE x.src
    /\ KeyAt(b, d, e.tgt) = IF e.rev THEN x.src ELSE x.tgt

\* Live indexes stand for the node rows, one each.
ShowsNodes(b, d, ns) ==
    /\ \A i, j : IsLive(b, d, i) /\ IsLive(b, d, j) /\ KeyAt(b, d, i) = KeyAt(b, d, j) => i = j
    /\ \A i : IsLive(b, d, i) => KeyAt(b, d, i) \in ns
    /\ \A k \in ns : \E i : IsLive(b, d, i) /\ KeyAt(b, d, i) = k

\* Arcs that are read stand for the relationship rows, in each direction; those
\* of one row share its identity.
ShowsEdges(b, d, es) ==
    /\ \A e \in Arcs : IsSeen(b, d, e) => \E x \in es : Depicts(b, d, e, x)
    /\ \A x \in es, v \in Revs : \E e \in Arcs : IsSeen(b, d, e) /\ e.rev = v /\ Depicts(b, d, e, x)
    /\ \A e, f \in Arcs :
          IsSeen(b, d, e) /\ IsSeen(b, d, f) /\ RowAt(b, d, e.rid) = RowAt(b, d, f.rid) => e.rid = f.rid

Shows(b, d, ns, es) == ShowsNodes(b, d, ns) /\ ShowsEdges(b, d, es)

RowsOK(ns, es) == ns \subseteq Keys /\ es \subseteq EdgeRows /\ Consistent(ns, es)

\* What a build yields.
BaseOK(b) ==
    /\ b.nodes \in Seq(Keys) /\ b.edges \in Seq(EdgeRows)
    /\ Len(b.nodes) <= Cardinality(Keys)
    /\ \A i, j \in 1..Len(b.nodes) : b.nodes[i] = b.nodes[j] => i = j
    /\ \A r \in 1..Len(b.edges) :
          /\ \E i \in 1..Len(b.nodes) : b.nodes[i] = b.edges[r].src
          /\ \E i \in 1..Len(b.nodes) : b.nodes[i] = b.edges[r].tgt

\* What the savepoint of level i would restore.
Restored(i) == IF i <= Len(snapshots) THEN snapshots[i] ELSE delta

IInv ==
    /\ depth \in 0..MaxDepth /\ failed \in BOOLEAN
    /\ saved \in Seq([nodes : SUBSET Keys, edges : SUBSET EdgeRows]) /\ Len(saved) = depth + 1
    /\ \A i \in 1..Len(saved) : RowsOK(saved[i].nodes, saved[i].edges)
    /\ RowsOK(nodes, edges)
    /\ base \in BuiltFrom(saved[1].nodes, saved[1].edges)
    /\ snapshots \in Seq(DeltaRecords) /\ Len(snapshots) <= depth
    /\ failed => Len(snapshots) = depth
    /\ DeltaOK(base, delta)
    /\ ~failed => Shows(base, delta, nodes, edges)
    /\ \A i \in 1..depth : /\ DeltaOK(base, Restored(i))
                           /\ Shows(base, Restored(i), saved[i + 1].nodes, saved[i + 1].edges)

----------------------------------------------------------------------------
\* The deltas along the record calls of a statement.

\* The recursion of Trail is well-founded: there is a function that obeys it.
LEMMA TrailIs ==
    ASSUME NEW d, NEW calls, NEW N \in Nat, N = Len(calls), NEW f, f = Trail(d, calls)
    PROVE  f[0] = d /\ \A n \in 1..N : f[n] = Applied(f[n - 1], calls[n])
<1> DEFINE Next1(g, n) == IF n = 0 THEN d ELSE Applied(g[n - 1], calls[n])
           Obeys(g, m) == g = [n \in 0..m |-> Next1(g, n)]
           S == {m \in 0..N : \E g : Obeys(g, m)}
<1>1. 0 \in S
  <2>1. PICK g : g = [n \in 0..0 |-> d]
    OBVIOUS
  <2>2. Obeys(g, 0)
    BY <2>1
  <2>3. QED
    BY <2>2
<1>2. ASSUME NEW m \in 1..N, m - 1 \in S PROVE m \in S
  <2>1. PICK g : Obeys(g, m - 1)
    BY <1>2
  <2>2. PICK h : h = [n \in 0..m |-> IF n = m THEN Applied(g[m - 1], calls[m]) ELSE g[n]]
    OBVIOUS
  <2>3. \A n \in 0..(m - 1) : h[n] = g[n] /\ g[n] = Next1(g, n)
    <3>1. \A n \in 0..(m - 1) : n \in 0..m /\ n # m
      OBVIOUS
    <3>2. QED
      BY <2>1, <2>2, <3>1
  <2>4. ASSUME NEW n \in 0..m PROVE h[n] = Next1(h, n)
    <3>1. CASE n = m
      <4>1. m - 1 \in 0..(m - 1) /\ n # 0
        BY <3>1
      <4>2. h[m - 1] = g[m - 1]
        BY <2>3, <4>1
      <4>3. h[n] = Applied(g[m - 1], calls[m])
        BY <2>2, <3>1
      <4>4. QED
        BY <3>1, <4>1, <4>2, <4>3
    <3>2. CASE n # m
      <4>1. n \in 0..(m - 1)
        BY <3>2
      <4>2. h[n] = Next1(g, n)
        BY <2>3, <4>1
      <4>3. CASE n = 0
        BY <4>2, <4>3
      <4>4. CASE n # 0
        <5>1. n - 1 \in 0..(m - 1)
          BY <4>1, <4>4
        <5>2. h[n - 1] = g[n - 1]
          BY <2>3, <5>1
        <5>3. QED
          BY <4>2, <4>4, <5>2
      <4>5. QED
        BY <4>3, <4>4
    <3>3. QED
      BY <3>1, <3>2
  <2>5. Obeys(h, m)
    <3>1. h = [n \in 0..m |-> h[n]]
      BY <2>2
    <3>2. QED
      BY <2>4, <3>1
  <2>6. QED
    BY <2>5
<1>3. N \in S
  <2> HIDE DEF S
  <2>1. \A n \in 0..N : n \in S
    BY <1>1, <1>2, UpTo
  <2>2. QED
    BY <2>1
<1>4. \E g : Obeys(g, N)
  BY <1>3
<1>5. Trail(d, calls) = CHOOSE g : Obeys(g, N)
  BY DEF Trail
<1>6. Obeys(f, N)
  <2> HIDE DEF Obeys
  <2>1. QED
    BY <1>4, <1>5
<1>7. f = [n \in 0..N |-> Next1(f, n)]
  BY <1>6
<1>8. f[0] = Next1(f, 0) /\ \A n \in 1..N : f[n] = Next1(f, n)
  <2> HIDE DEF Next1
  <2>1. 0 \in 0..N /\ \A n \in 1..N : n \in 0..N
    OBVIOUS
  <2>2. QED
    BY <1>7, <2>1
<1>9. QED
  BY <1>8

----------------------------------------------------------------------------
\* What a build yields.

\* Rows are finitely many: a relationship is given by its primary key.
LEMMA RowsFinite ==
    ASSUME NEW ns, NEW es, RowsOK(ns, es)
    PROVE  /\ IsFiniteSet(ns) /\ Cardinality(ns) <= Cardinality(Keys)
           /\ IsFiniteSet(es)
<1>1. IsFiniteSet(ns) /\ Cardinality(ns) <= Cardinality(Keys)
  BY TxDeltaAssumption, FS_Subset DEF RowsOK
<1>2. PICK f : f = [x \in es |-> x.row]
  OBVIOUS
<1>3. f \in [es -> Rows]
  BY <1>2 DEF RowsOK, EdgeRows
<1>4. \A x, y \in es : f[x] = f[y] => x = y
  BY <1>2 DEF RowsOK, Consistent
<1>5. f \in Injection(es, Rows)
  BY <1>3, <1>4 DEF Injection, IsInjective
<1>6. IsFiniteSet(es)
  BY <1>5, TxDeltaAssumption, FS_Injection
<1>7. QED
  BY <1>1, <1>6

\* An enumeration of a finite set lists every element once.
LEMMA Enumerates ==
    ASSUME NEW S, IsFiniteSet(S), NEW s \in SetToSeqs(S)
    PROVE  /\ s \in Seq(S) /\ Len(s) = Cardinality(S) /\ DOMAIN s = 1..Len(s)
           /\ \A i, j \in 1..Len(s) : s[i] = s[j] => i = j
           /\ \A x \in S : \E i \in 1..Len(s) : s[i] = x
<1>1. PICK n \in Nat : n = Cardinality(S)
  BY FS_CardinalityType
<1>2. s \in [1..n -> S] /\ \A i, j \in 1..n : i # j => s[i] # s[j]
  BY <1>1 DEF SetToSeqs
<1>3. s \in Seq(S) /\ Len(s) = n /\ DOMAIN s = 1..n
  BY <1>2
<1>4. s \in Injection(1..n, S)
  BY <1>2 DEF Injection, IsInjective
<1>5. Cardinality(1..n) = n
  BY FS_Interval
<1>6. s \in Surjection(1..n, S)
  BY <1>1, <1>4, <1>5, FS_Injection
<1>7. \A x \in S : \E i \in 1..n : s[i] = x
  BY <1>6 DEF Surjection
<1>8. QED
  BY <1>1, <1>2, <1>3, <1>7

\* In a sequence without repetitions an element has one position.
LEMMA PositionIs ==
    ASSUME NEW X, NEW s \in Seq(X), \A i, j \in 1..Len(s) : s[i] = s[j] => i = j,
           NEW i \in 1..Len(s)
    PROVE  Position(s, s[i]) = i
<1>1. DOMAIN s = 1..Len(s)
  OBVIOUS
<1>2. \E j \in DOMAIN s : s[j] = s[i]
  BY <1>1
<1>3. Position(s, s[i]) \in 1..Len(s) /\ s[Position(s, s[i])] = s[i]
  BY <1>1, <1>2 DEF Position
<1>4. QED
  BY <1>3

\* The endpoints of a relationship of the base are indexes of the base.
LEMMA BaseArcIs ==
    ASSUME NEW b, BaseOK(b), NEW r \in 1..Len(b.edges)
    PROVE  /\ BaseArc(b, r) \in Arcs /\ BaseArc(b, r).rid = r /\ BaseArc(b, r).rev = FALSE
           /\ BaseArc(b, r).src \in 1..Len(b.nodes) /\ b.nodes[BaseArc(b, r).src] = b.edges[r].src
           /\ BaseArc(b, r).tgt \in 1..Len(b.nodes) /\ b.nodes[BaseArc(b, r).tgt] = b.edges[r].tgt
<1>1. PICK i \in 1..Len(b.nodes) : b.nodes[i] = b.edges[r].src
  BY DEF BaseOK
<1>2. PICK j \in 1..Len(b.nodes) : b.nodes[j] = b.edges[r].tgt
  BY DEF BaseOK
<1>3. PICK s \in Seq(Keys) : s = b.nodes
  BY DEF BaseOK
<1>4. \A m, n \in 1..Len(s) : s[m] = s[n] => m = n
  BY <1>3 DEF BaseOK
<1>5. Position(s, s[i]) = i /\ Position(s, s[j]) = j
  BY <1>1, <1>2, <1>3, <1>4, PositionIs
<1>6. BaseArc(b, r) = Forward(i, j, r)
  BY <1>1, <1>2, <1>3, <1>5 DEF BaseArc
<1>7. i \in Nat /\ j \in Nat /\ r \in Nat
  BY <1>3 DEF BaseOK
<1>8. QED
  BY <1>1, <1>2, <1>6, <1>7 DEF Forward, Arcs

\* An arc of the base lies between its indexes and carries one of its identities.
LEMMA BaseArcBounds ==
    ASSUME NEW b, BaseOK(b), NEW e, IsBaseArc(b, e)
    PROVE  /\ e \in Arcs /\ e.rev \in Revs /\ e.rid \in 1..Len(b.edges)
           /\ e.src \in 1..Len(b.nodes) /\ e.tgt \in 1..Len(b.nodes)
           /\ b.nodes[e.src] = IF e.rev THEN b.edges[e.rid].tgt ELSE b.edges[e.rid].src
           /\ b.nodes[e.tgt] = IF e.rev THEN b.edges[e.rid].src ELSE b.edges[e.rid].tgt
<1>1. PICK r \in 1..Len(b.edges) :
         e = BaseArc(b, r) \/ (Bidirectional /\ e = Mirror(BaseArc(b, r)))
  BY DEF IsBaseArc
<1>2. PICK a : a = BaseArc(b, r)
  OBVIOUS
<1>3. /\ a \in Arcs /\ a.rid = r /\ a.rev = FALSE
      /\ a.src \in 1..Len(b.nodes) /\ b.nodes[a.src] = b.edges[r].src
      /\ a.tgt \in 1..Len(b.nodes) /\ b.nodes[a.tgt] = b.edges[r].tgt
  BY <1>2, BaseArcIs
<1>4. CASE e = a
  BY <1>3, <1>4 DEF Revs
<1>5. CASE Bidirectional /\ e = Mirror(a)
  BY <1>3, <1>5 DEF Revs, Mirror, Arcs
<1>6. QED
  BY <1>1, <1>2, <1>4, <1>5

\* A build of some rows, with nothing recorded yet, shows those rows.
LEMMA BuildShows ==
    ASSUME NEW ns, NEW es, RowsOK(ns, es), NEW b \in BuiltFrom(ns, es)
    PROVE  BaseOK(b) /\ DeltaOK(b, NewDelta) /\ Shows(b, NewDelta, ns, es)
<1>1. PICK d : d = NewDelta
  OBVIOUS
<1>2. /\ d.nodes = <<>> /\ d.gone = {} /\ d.added = {} /\ d.deleted = {} /\ d.ids = <<>>
      /\ d \in DeltaRecords
  BY <1>1 DEF NewDelta, DeltaRecords
<1>3. IsFiniteSet(ns) /\ IsFiniteSet(es) /\ Cardinality(ns) <= Cardinality(Keys)
  BY RowsFinite
<1>4. b.nodes \in SetToSeqs(ns) /\ b.edges \in SetToSeqs(es)
  BY DEF BuiltFrom
<1>5. /\ b.nodes \in Seq(ns) /\ Len(b.nodes) = Cardinality(ns)
      /\ \A i, j \in 1..Len(b.nodes) : b.nodes[i] = b.nodes[j] => i = j
      /\ \A k \in ns : \E i \in 1..Len(b.nodes) : b.nodes[i] = k
  BY <1>3, <1>4, Enumerates, ZenonT(60)
<1>6. /\ b.edges \in Seq(es)
      /\ \A i, j \in 1..Len(b.edges) : b.edges[i] = b.edges[j] => i = j
      /\ \A x \in es : \E i \in 1..Len(b.edges) : b.edges[i] = x
  BY <1>3, <1>4, Enumerates
<1>7. Len(b.nodes) \in Nat /\ Len(b.edges) \in Nat
  BY <1>5, <1>6
<1>8. /\ b.nodes \in Seq(Keys) /\ b.edges \in Seq(EdgeRows)
      /\ \A i \in 1..Len(b.nodes) : b.nodes[i] \in ns
      /\ \A r \in 1..Len(b.edges) : b.edges[r] \in es
  BY <1>5, <1>6 DEF RowsOK
<1>9. BaseOK(b)
  <2>1. ASSUME NEW r \in 1..Len(b.edges)
        PROVE  /\ \E i \in 1..Len(b.nodes) : b.nodes[i] = b.edges[r].src
               /\ \E i \in 1..Len(b.nodes) : b.nodes[i] = b.edges[r].tgt
    BY <1>5, <1>8 DEF RowsOK, Consistent
  <2>2. QED
    BY <1>3, <1>5, <1>8, <2>1 DEF BaseOK
<1>10. Size(b, d) = Len(b.nodes) /\ IdCount(b, d) = Len(b.edges)
  BY <1>2, <1>7 DEF Size, IdCount
<1>11. DeltaOK(b, d)
  <2>1. DeltaShape(b, d)
    BY <1>2 DEF DeltaShape
  <2>2. Limited(d)
    <3>1. IsFiniteSet({}) /\ Cardinality({}) = 0
      BY FS_EmptySet
    <3>2. QED
      BY <1>2, <3>1, TxDeltaAssumption DEF Limited, NodeEntries, EdgeEntries
  <2>3. QED
    BY <2>1, <2>2 DEF DeltaOK
<1>12. /\ \A i : IsLive(b, d, i) <=> i \in 1..Len(b.nodes)
       /\ \A i \in 1..Len(b.nodes) : KeyAt(b, d, i) = b.nodes[i]
       /\ \A r \in 1..Len(b.edges) : RowAt(b, d, r) = b.edges[r].row
  BY <1>2, <1>7, <1>10 DEF IsLive, KeyAt, RowAt
<1>13. ShowsNodes(b, d, ns)
  BY <1>5, <1>8, <1>12, SMTT(40) DEF ShowsNodes
<1>14. \A e : IsSeen(b, d, e) <=> IsBaseArc(b, e)
  BY <1>2 DEF IsSeen
<1>15. ASSUME NEW e, IsBaseArc(b, e)
       PROVE  e.rid \in 1..Len(b.edges) /\ b.edges[e.rid] \in es /\ Depicts(b, d, e, b.edges[e.rid])
  <2>1. /\ e.rid \in 1..Len(b.edges)
        /\ e.src \in 1..Len(b.nodes) /\ e.tgt \in 1..Len(b.nodes)
        /\ b.nodes[e.src] = IF e.rev THEN b.edges[e.rid].tgt ELSE b.edges[e.rid].src
        /\ b.nodes[e.tgt] = IF e.rev THEN b.edges[e.rid].src ELSE b.edges[e.rid].tgt
    BY <1>9, <1>15, BaseArcBounds
  <2>2. QED
    BY <1>8, <1>12, <2>1 DEF Depicts
<1>16. ASSUME NEW x \in es, NEW v \in Revs
       PROVE  \E e \in Arcs : IsSeen(b, d, e) /\ e.rev = v /\ Depicts(b, d, e, x)
  <2>1. PICK r \in 1..Len(b.edges) : b.edges[r] = x
    BY <1>6
  <2>2. PICK a : a = BaseArc(b, r)
    OBVIOUS
  <2>3. a.rid = r /\ a.rev = FALSE
    BY <1>9, <2>2, BaseArcIs
  <2>4. PICK e : e = IF v THEN Mirror(a) ELSE a
    OBVIOUS
  <2>5. IsBaseArc(b, e)
    BY <2>2, <2>4 DEF Revs, IsBaseArc
  <2>6. e.rid = r /\ e.rev = v
    BY <2>3, <2>4 DEF Revs, Mirror
  <2>7. e \in Arcs
    BY <1>9, <2>5, BaseArcBounds
  <2>8. QED
    BY <1>14, <1>15, <2>1, <2>5, <2>6, <2>7
<1>17. ASSUME NEW e \in Arcs, NEW f \in Arcs, IsBaseArc(b, e), IsBaseArc(b, f),
              RowAt(b, d, e.rid) = RowAt(b, d, f.rid)
       PROVE  e.rid = f.rid
  <2>1. /\ e.rid \in 1..Len(b.edges) /\ b.edges[e.rid] \in es
        /\ f.rid \in 1..Len(b.edges) /\ b.edges[f.rid] \in es
    BY <1>15, <1>17
  <2>2. b.edges[e.rid].row = b.edges[f.rid].row
    BY <1>12, <1>17, <2>1
  <2>3. b.edges[e.rid] = b.edges[f.rid]
    BY <2>1, <2>2 DEF RowsOK, Consistent
  <2>4. QED
    BY <1>6, <2>1, <2>3
<1>18. ShowsEdges(b, d, es)
  BY <1>14, <1>15, <1>16, <1>17 DEF ShowsEdges
<1>19. QED
  BY <1>1, <1>9, <1>11, <1>13, <1>18 DEF Shows

----------------------------------------------------------------------------
\* What a statement reads.

\* Lengths and counts are numbers.
LEMMA Counts ==
    ASSUME NEW b, BaseOK(b), NEW d, DeltaShape(b, d)
    PROVE  \E bn, dn, be, di \in Nat :
              /\ bn = Len(b.nodes) /\ dn = Len(d.nodes) /\ Size(b, d) = bn + dn
              /\ be = Len(b.edges) /\ di = Len(d.ids) /\ IdCount(b, d) = be + di
<1>1. b.nodes \in Seq(Keys) /\ b.edges \in Seq(EdgeRows)
  BY DEF BaseOK
<1>2. d.nodes \in Seq([key : Keys, idx : Nat]) /\ d.ids \in Seq(Rows)
  BY DEF DeltaShape, DeltaRecords
<1>3. PICK bn, dn, be, di \in Nat : /\ bn = Len(b.nodes) /\ dn = Len(d.nodes)
                                /\ be = Len(b.edges) /\ di = Len(d.ids)
  BY <1>1, <1>2
<1>4. Size(b, d) = bn + dn /\ IdCount(b, d) = be + di
  BY <1>3 DEF Size, IdCount
<1>5. QED
  BY <1>3, <1>4

\* An arc that is read lies between live nodes and has an identity in use.
LEMMA SeenBounds ==
    ASSUME NEW b, BaseOK(b), NEW d, DeltaShape(b, d), NEW e, IsSeen(b, d, e)
    PROVE  /\ e \in Arcs /\ e.rev \in Revs /\ e.rid \in 1..IdCount(b, d) /\ e.rid # NoId
           /\ IsLive(b, d, e.src) /\ IsLive(b, d, e.tgt)
<1>1. PICK bn, dn, be, di \in Nat :
         /\ bn = Len(b.nodes) /\ dn = Len(d.nodes) /\ Size(b, d) = bn + dn
         /\ be = Len(b.edges) /\ di = Len(d.ids) /\ IdCount(b, d) = be + di
  BY Counts
<1>0. /\ bn \in Nat /\ dn \in Nat /\ be \in Nat /\ di \in Nat
      /\ Size(b, d) = bn + dn /\ IdCount(b, d) = be + di
  BY <1>1
<1>2. CASE IsBaseArc(b, e)
  <2>1. /\ e \in Arcs /\ e.rev \in Revs /\ e.rid \in 1..be
        /\ e.src \in 1..bn /\ e.tgt \in 1..bn
    BY <1>1, <1>2, BaseArcBounds
  <2>2. e.rid \in 1..IdCount(b, d) /\ e.src \in 1..Size(b, d) /\ e.tgt \in 1..Size(b, d)
    BY <1>0, <2>1
  <2>3. e.rid # NoId
    BY <1>0, <2>1, TxDeltaAssumption
  <2>4. QED
    BY <2>1, <2>2, <2>3 DEF IsLive, IsSeen
<1>3. CASE e \in d.added
  <2>0. /\ e \in Arcs /\ e.rev \in Revs /\ e.rid \in (be + 1)..IdCount(b, d)
        /\ e.src \in 1..Size(b, d) /\ e.tgt \in 1..Size(b, d)
    BY <1>1, <1>3 DEF DeltaShape, DeltaRecords, NewIds
  <2>1. /\ e \in Arcs /\ e.rev \in Revs /\ e.rid \in 1..IdCount(b, d)
        /\ e.src \in 1..Size(b, d) /\ e.tgt \in 1..Size(b, d)
    BY <1>0, <2>0
  <2>2. e.rid # NoId
    BY <1>0, <2>1, TxDeltaAssumption
  <2>3. QED
    BY <2>1, <2>2 DEF IsLive, IsSeen
<1>4. QED
  BY <1>2, <1>3 DEF IsSeen

\* An identity and a direction determine the arc that is read.
LEMMA SeenSame ==
    ASSUME NEW b, BaseOK(b), NEW d, DeltaShape(b, d), NEW ns, NEW es,
           RowsOK(ns, es), Shows(b, d, ns, es),
           NEW e, IsSeen(b, d, e), NEW f, IsSeen(b, d, f),
           e.rid = f.rid, e.rev = f.rev
    PROVE  e = f
<1>1. /\ e \in Arcs /\ IsLive(b, d, e.src) /\ IsLive(b, d, e.tgt)
      /\ f \in Arcs /\ IsLive(b, d, f.src) /\ IsLive(b, d, f.tgt)
  BY SeenBounds
<1>2. PICK x \in es : Depicts(b, d, e, x)
  BY <1>1 DEF Shows, ShowsEdges
<1>3. PICK y \in es : Depicts(b, d, f, y)
  BY <1>1 DEF Shows, ShowsEdges
<1>4. x = y
  BY <1>2, <1>3 DEF Depicts, RowsOK, Consistent
<1>5. KeyAt(b, d, e.src) = KeyAt(b, d, f.src) /\ KeyAt(b, d, e.tgt) = KeyAt(b, d, f.tgt)
  BY <1>2, <1>3, <1>4 DEF Depicts
<1>6. e.src = f.src /\ e.tgt = f.tgt
  BY <1>1, <1>5 DEF Shows, ShowsNodes
<1>7. QED
  BY <1>1, <1>6 DEF Arcs

\* Both directions of an arc, as a sequence.
LEMMA DirectionsAre ==
    ASSUME NEW e
    PROVE  /\ Len(Directions(e)) = Width /\ DOMAIN Directions(e) = 1..Width /\ Width \in {1, 2}
           /\ Directions(e)[1] = e
           /\ Bidirectional => Width = 2 /\ Directions(e)[2] = Mirror(e)
           /\ ~Bidirectional => Width = 1
           /\ \A a : a \in ToSet(Directions(e)) <=> a = e \/ (Bidirectional /\ a = Mirror(e))
<1>1. CASE Bidirectional
  <2>1. Directions(e) = <<e, Mirror(e)>> /\ Width = 2
    BY <1>1 DEF Directions, Mirror, Width
  <2>2. DOMAIN Directions(e) = {1, 2} /\ 1..Width = {1, 2}
    BY <2>1
  <2>3. ToSet(Directions(e)) = {e, Mirror(e)}
    BY <2>1, <2>2 DEF ToSet
  <2>4. QED
    BY <1>1, <2>1, <2>2, <2>3
<1>2. CASE ~Bidirectional
  <2>1. Directions(e) = <<e>> /\ Width = 1
    BY <1>2 DEF Directions, Width
  <2>2. DOMAIN Directions(e) = {1} /\ 1..Width = {1}
    BY <2>1
  <2>3. ToSet(Directions(e)) = {e}
    BY <2>1, <2>2 DEF ToSet
  <2>4. QED
    BY <1>2, <2>1, <2>2, <2>3
<1>3. QED
  BY <1>1, <1>2

\* The lookups of the model, for the present base and delta.
LEMMA LookUps ==
    ASSUME BaseOK(base), DeltaShape(base, delta)
    PROVE  /\ \A i \in 1..Size(base, delta) : KeyOf(i) = KeyAt(base, delta, i)
           /\ \A r : RowOf(r) = RowAt(base, delta, r)
           /\ \A k : k \in VisibleNodes <=>
                        \E i : IsLive(base, delta, i) /\ KeyAt(base, delta, i) = k
           /\ \A e : e \in VisibleEdges <=> IsSeen(base, delta, e)
<1>1. PICK b : b = base
  OBVIOUS
<1>2. PICK d : d = delta
  OBVIOUS
<1>3. BaseOK(b) /\ DeltaShape(b, d)
  BY <1>1, <1>2
<1>4. PICK bn, dn, be, di \in Nat :
         /\ bn = Len(b.nodes) /\ dn = Len(d.nodes) /\ Size(b, d) = bn + dn
         /\ be = Len(b.edges) /\ di = Len(d.ids) /\ IdCount(b, d) = be + di
  BY <1>3, Counts
<1>0. /\ bn \in Nat /\ dn \in Nat /\ be \in Nat /\ di \in Nat
      /\ Size(b, d) = bn + dn /\ IdCount(b, d) = be + di
  BY <1>4
<1>5. /\ DOMAIN b.nodes = 1..bn /\ DOMAIN b.edges = 1..be
      /\ DOMAIN d.nodes = 1..dn
  BY <1>3, <1>4 DEF BaseOK, DeltaShape, DeltaRecords
<1>6. \A n \in 1..dn : d.nodes[n].idx = bn + n
  BY <1>3, <1>4 DEF DeltaShape
<1>7. ASSUME NEW i \in 1..Size(b, d) PROVE KeyOf(i) = KeyAt(b, d, i)
  <2>1. CASE i <= bn
    BY <1>1, <1>4, <2>1 DEF KeyOf, KeyAt
  <2>2. CASE ~(i <= bn)
    <3>1. i - bn \in 1..dn /\ i = bn + (i - bn)
      BY <1>0, <2>2
    <3>2. PICK c : c = CHOOSE n \in DOMAIN d.nodes : d.nodes[n].idx = i
      OBVIOUS
    <3>3. c \in 1..dn /\ d.nodes[c].idx = i
      BY <1>5, <1>6, <3>1, <3>2
    <3>4. c = i - bn
      BY <1>0, <1>6, <3>3
    <3>5. QED
      <4>1. ~(i <= Len(b.nodes))
        BY <1>4, <2>2
      <4>2. KeyOf(i) = d.nodes[c].key
        BY <1>1, <1>2, <3>2, <4>1 DEF KeyOf
      <4>3. KeyAt(b, d, i) = d.nodes[i - bn].key
        BY <1>4, <4>1 DEF KeyAt
      <4>4. QED
        BY <3>4, <4>2, <4>3
  <2>3. QED
    BY <2>1, <2>2
<1>8. ASSUME NEW r PROVE RowOf(r) = RowAt(b, d, r)
  BY <1>1, <1>2 DEF RowOf, RowAt
<1>9. ASSUME NEW i
      PROVE  i \in DOMAIN b.nodes \cup {n.idx : n \in ToSet(d.nodes)} <=> i \in 1..Size(b, d)
  <2>1. i \in {n.idx : n \in ToSet(d.nodes)} <=> \E n \in 1..dn : i = bn + n
    BY <1>5, <1>6 DEF ToSet
  <2>2. (\E n \in 1..dn : i = bn + n) <=>
            i \in (bn + 1)..Size(b, d)
    <3>1. ASSUME i \in (bn + 1)..Size(b, d)
          PROVE  i - bn \in 1..dn /\ i = bn + (i - bn)
      BY <1>0, <3>1
    <3>2. QED
      BY <1>0, <3>1
  <2>3. i \in 1..Size(b, d) <=> i \in 1..bn \/ i \in (bn + 1)..Size(b, d)
    BY <1>0
  <2>4. QED
    BY <1>5, <2>1, <2>2, <2>3
<1>10. ASSUME NEW k
       PROVE  k \in VisibleNodes <=> \E i : IsLive(b, d, i) /\ KeyAt(b, d, i) = k
  <2>1. k \in VisibleNodes <=>
          \E i : i \in DOMAIN b.nodes \cup {n.idx : n \in ToSet(d.nodes)} /\ i \notin d.gone /\ KeyOf(i) = k
    BY <1>1, <1>2 DEF VisibleNodes
  <2>2. k \in VisibleNodes <=> \E i : i \in 1..Size(b, d) /\ i \notin d.gone /\ KeyOf(i) = k
    BY <1>9, <2>1, Zenon
  <2>3. QED
    BY <1>7, <2>2 DEF IsLive
<1>11. ASSUME NEW e PROVE e \in VisibleEdges <=> IsSeen(b, d, e)
  <2>1. \A r : BaseEdge(r) = BaseArc(b, r)
    BY <1>1 DEF BaseEdge, BaseArc
  <2>2. e \in BaseEdges <=> \E r \in 1..be : e \in ToSet(Directions(BaseArc(b, r)))
    BY <1>1, <1>5, <2>1 DEF BaseEdges
  <2>3. \A a : e \in ToSet(Directions(a)) <=> e = a \/ (Bidirectional /\ e = Mirror(a))
    BY DirectionsAre
  <2>4. e \in BaseEdges <=> IsBaseArc(b, e)
    BY <1>4, <2>2, <2>3 DEF IsBaseArc
  <2>5. e \in VisibleEdges <=>
          /\ (e \in BaseEdges /\ \A t \in d.deleted : ~Covers(t, e)) \/ e \in d.added
          /\ e.src \notin d.gone /\ e.tgt \notin d.gone
    BY <1>2 DEF VisibleEdges
  <2>6. QED
    BY <2>4, <2>5 DEF IsSeen
<1>12. QED
  BY <1>1, <1>2, <1>7, <1>8, <1>10, <1>11

\* A key that is read resolves to the live index behind it.
LEMMA ResolveIs ==
    ASSUME BaseOK(base), DeltaShape(base, delta), NEW ns, ShowsNodes(base, delta, ns),
           NEW i, IsLive(base, delta, i), NEW k, k = KeyAt(base, delta, i)
    PROVE  Resolve(k) = i
<1>1. PICK b : b = base
  OBVIOUS
<1>2. PICK d : d = delta
  OBVIOUS
<1>3. BaseOK(b) /\ DeltaShape(b, d) /\ IsLive(b, d, i) /\ k = KeyAt(b, d, i)
  BY <1>1, <1>2
<1>4. \A j : IsLive(b, d, j) /\ KeyAt(b, d, j) = k => j = i
  BY <1>1, <1>2, <1>3 DEF ShowsNodes
<1>5. PICK bn, dn, be, di \in Nat :
         /\ bn = Len(b.nodes) /\ dn = Len(d.nodes) /\ Size(b, d) = bn + dn
         /\ be = Len(b.edges) /\ di = Len(d.ids) /\ IdCount(b, d) = be + di
  BY <1>3, Counts
<1>0. /\ bn \in Nat /\ dn \in Nat /\ be \in Nat /\ di \in Nat
      /\ Size(b, d) = bn + dn /\ IdCount(b, d) = be + di
  BY <1>5
<1>6. /\ DOMAIN b.nodes = 1..bn /\ DOMAIN d.nodes = 1..dn
      /\ \A n \in 1..dn : d.nodes[n].idx = bn + n
  BY <1>3, <1>5 DEF BaseOK, DeltaShape, DeltaRecords
<1>7. \A j : j \in Resolvable(k) <=> j \in 1..bn /\ b.nodes[j] = k /\ j \notin d.gone
  BY <1>1, <1>2, <1>6 DEF Resolvable
<1>8. \A j \in 1..bn : j \in 1..Size(b, d) /\ KeyAt(b, d, j) = b.nodes[j]
  <2>1. \A j \in 1..bn : j \in 1..Size(b, d) /\ j <= bn
    BY <1>0
  <2>2. QED
    BY <1>5, <2>1 DEF KeyAt
<1>9. \A j \in Resolvable(k) : j = i
  BY <1>4, <1>7, <1>8 DEF IsLive
<1>10. CASE Resolvable(k) # {}
  BY <1>9, <1>10 DEF Resolve
<1>11. CASE Resolvable(k) = {}
  <2>1. PICK M : M = {n.idx : n \in {m \in ToSet(d.nodes) : m.key = k /\ m.idx \notin d.gone}}
    OBVIOUS
  <2>2. \A j : j \in M <=> \E n \in 1..dn :
                              j = bn + n /\ d.nodes[n].key = k /\ j \notin d.gone
    BY <1>6, <2>1 DEF ToSet
  <2>3. ASSUME NEW j \in M PROVE j = i
    <3>1. PICK n \in 1..dn : j = bn + n /\ d.nodes[n].key = k /\ j \notin d.gone
      BY <2>2
    <3>2. j \in 1..Size(b, d) /\ ~(j <= bn) /\ j - bn = n
      BY <1>0, <3>1
    <3>3. QED
      BY <1>4, <1>5, <3>1, <3>2 DEF IsLive, KeyAt
  <2>4. i \in M
    <3>1. i \in 1..Size(b, d) /\ i \notin d.gone
      BY <1>3 DEF IsLive
    <3>2. ~(i <= bn)
      <4>1. CASE i <= bn
        <5>1. i \in 1..bn
          BY <1>0, <3>1, <4>1
        <5>2. QED
          BY <1>3, <1>7, <1>8, <1>11, <3>1, <5>1
      <4>2. QED
        BY <4>1
    <3>3. i - bn \in 1..dn /\ i = bn + (i - bn)
      BY <1>0, <3>1, <3>2
    <3>4. d.nodes[i - bn].key = k
      BY <1>3, <1>5, <3>2 DEF KeyAt
    <3>5. QED
      BY <2>2, <3>1, <3>3, <3>4
  <2>5. i \in Int
    BY <1>3, <1>0 DEF IsLive
  <2>6. M \in SUBSET Int /\ \A j \in M : i >= j
    BY <2>3, <2>5
  <2>7. Max(M) = i
    BY <2>4, <2>6, MaxIs
  <2>8. QED
    BY <1>2, <1>11, <2>1, <2>7 DEF Resolve
<1>12. QED
  BY <1>10, <1>11

----------------------------------------------------------------------------
\* The record calls.

Call(op, arg) == [op |-> op, arg |-> arg]

\* An entry for a relationship between indexes in use.
Within(b, d, e) == e \in Arcs /\ e.src \in 1..Size(b, d) /\ e.tgt \in 1..Size(b, d)

\* A delta with the same nodes, tombstones of nodes and identities.
SameNodes(d, c) == c.nodes = d.nodes /\ c.gone = d.gone /\ c.ids = d.ids

\* Which record function a call stands for.
LEMMA AppliedIs ==
    ASSUME NEW d, NEW x
    PROVE  /\ Applied(d, Call("node", x)) = AddedNode(d, x)
           /\ Applied(d, Call("gone", x)) = DeletedNode(d, x)
           /\ Applied(d, Call("identity", x)) = AddedIdentity(d, x)
           /\ Applied(d, Call("edge", x)) = AddedEdge(d, x)
           /\ Applied(d, Call("unedge", x)) = DeletedEdge(d, x)
           /\ CallFits(d, Call("node", x)) => Fits(d, 1, 0)
           /\ CallFits(d, Call("gone", x)) => Fits(d, 1, 0)
           /\ CallFits(d, Call("edge", x)) => Fits(d, 0, IF x \in d.deleted THEN 0 ELSE 1)
           /\ CallFits(d, Call("unedge", x)) =>
                 Fits(d, 0, IF \E e \in d.added : Covers(x, e) THEN 0 ELSE 1)
  BY DEF Applied, CallFits, Call

\* What the limits say of the counts.
LEMMA LimitCounts ==
    ASSUME NEW b, NEW d, DeltaOK(b, d)
    PROVE  \E ln, cg, ca, cd \in Nat :
              /\ ln = Len(d.nodes) /\ cg = Cardinality(d.gone)
              /\ ca = Cardinality(d.added) /\ cd = Cardinality(d.deleted)
              /\ NodeEntries(d) = ln + cg /\ EdgeEntries(d) = ca + cd
              /\ ln + cg <= MaxNodes /\ ca + cd <= MaxEdges
<1>1. d.nodes \in Seq([key : Keys, idx : Nat])
  BY DEF DeltaOK, DeltaShape, DeltaRecords
<1>2. PICK ln \in Nat : ln = Len(d.nodes)
  BY <1>1
<1>3. IsFiniteSet(d.gone) /\ IsFiniteSet(d.added) /\ IsFiniteSet(d.deleted)
  BY DEF DeltaOK, Limited
<1>4. PICK cg \in Nat : cg = Cardinality(d.gone)
  BY <1>3, FS_CardinalityType
<1>5. PICK ca \in Nat : ca = Cardinality(d.added)
  BY <1>3, FS_CardinalityType
<1>6. PICK cd \in Nat : cd = Cardinality(d.deleted)
  BY <1>3, FS_CardinalityType
<1>7. NodeEntries(d) = ln + cg /\ EdgeEntries(d) = ca + cd
  BY <1>2, <1>4, <1>5, <1>6 DEF NodeEntries, EdgeEntries
<1>8. NodeEntries(d) <= MaxNodes /\ EdgeEntries(d) <= MaxEdges
  BY DEF DeltaOK, Limited
<1>9. QED
  BY <1>2, <1>4, <1>5, <1>6, <1>7, <1>8

\* record_added_node takes the next index.
LEMMA NodeCall ==
    ASSUME NEW b, b = base, BaseOK(b), NEW d, DeltaOK(b, d), NEW k \in Keys,
           CallFits(d, Call("node", k)), NEW c, c = Applied(d, Call("node", k))
    PROVE  /\ DeltaOK(b, c)
           /\ Size(b, c) = Size(b, d) + 1 /\ IdCount(b, c) = IdCount(b, d)
           /\ c.gone = d.gone /\ c.added = d.added /\ c.deleted = d.deleted /\ c.ids = d.ids
           /\ \A i \in 1..Size(b, d) : KeyAt(b, c, i) = KeyAt(b, d, i)
           /\ KeyAt(b, c, Size(b, d) + 1) = k
<1>1. DeltaShape(b, d)
  BY DEF DeltaOK
<1>2. PICK bn, dn, be, di \in Nat :
         /\ bn = Len(b.nodes) /\ dn = Len(d.nodes) /\ Size(b, d) = bn + dn
         /\ be = Len(b.edges) /\ di = Len(d.ids) /\ IdCount(b, d) = be + di
  BY <1>1, Counts
<1>3. /\ bn \in Nat /\ dn \in Nat /\ be \in Nat /\ di \in Nat
      /\ Size(b, d) = bn + dn /\ IdCount(b, d) = be + di
  BY <1>2
<1>4. TemporaryIndex(d) = bn + dn + 1
  BY <1>2 DEF TemporaryIndex
<1>5. PICK x \in [key : Keys, idx : Nat] : x = [key |-> k, idx |-> bn + dn + 1]
  <2>1. bn + dn + 1 \in Nat
    BY <1>3
  <2>2. [key |-> k, idx |-> bn + dn + 1] \in [key : Keys, idx : Nat]
    BY <2>1
  <2>3. QED
    BY <2>2
<1>6. c = [d EXCEPT !.nodes = Append(@, x)]
  BY <1>4, <1>5, AppliedIs DEF AddedNode
<1>7. d \in DeltaRecords
  BY <1>1 DEF DeltaShape
<1>8. PICK s \in Seq([key : Keys, idx : Nat]) : s = d.nodes
  BY <1>7 DEF DeltaRecords
<1>9. /\ c.nodes = Append(s, x) /\ c \in DeltaRecords
      /\ c.gone = d.gone /\ c.added = d.added /\ c.deleted = d.deleted /\ c.ids = d.ids
  <2>1. Append(s, x) \in Seq([key : Keys, idx : Nat])
    BY <1>5, <1>8
  <2>2. QED
    BY <1>6, <1>7, <1>8, <2>1 DEF DeltaRecords
<1>10. PICK u \in Seq([key : Keys, idx : Nat]) : u = c.nodes
  BY <1>9 DEF DeltaRecords
<1>11. Len(s) = dn
  BY <1>2, <1>8
<1>12. Len(u) = dn + 1 /\ u[dn + 1] = x /\ \A n \in 1..dn : u[n] = s[n]
  BY <1>5, <1>8, <1>9, <1>10, <1>11
<1>13. Size(b, c) = bn + (dn + 1) /\ IdCount(b, c) = be + di
  BY <1>2, <1>9, <1>10, <1>12 DEF Size, IdCount
<1>14. Size(b, c) = Size(b, d) + 1 /\ IdCount(b, c) = IdCount(b, d)
  BY <1>3, <1>13
<1>15. 1..Size(b, d) \subseteq 1..Size(b, c) /\ 1..IdCount(b, c) = 1..IdCount(b, d)
  BY <1>3, <1>13
<1>16. DeltaShape(b, c)
  <2>1. \A n \in 1..dn : s[n].idx = bn + n
    BY <1>1, <1>2, <1>8 DEF DeltaShape
  <2>2. ASSUME NEW n \in 1..(dn + 1) PROVE u[n].idx = bn + n
    <3>1. CASE n \in 1..dn
      BY <1>12, <2>1, <3>1
    <3>2. CASE n = dn + 1
      <4>1. bn + dn + 1 = bn + (dn + 1)
        BY <1>3
      <4>2. QED
        BY <1>5, <1>12, <3>2, <4>1
    <3>3. QED
      BY <1>3, <3>1, <3>2
  <2>3. \A n \in 1..Len(c.nodes) : c.nodes[n].idx = Len(b.nodes) + n
    BY <1>2, <1>10, <1>12, <2>2
  <2>4. \A i \in c.gone : i \in 1..Size(b, c)
    BY <1>1, <1>9, <1>15 DEF DeltaShape
  <2> NewIds(b, c) = NewIds(b, d)
    BY <1>14 DEF NewIds
  <2>5. \A e \in c.added : /\ e.src \in 1..Size(b, c) /\ e.tgt \in 1..Size(b, c)
                           /\ e.rid \in NewIds(b, c) /\ e.rev \in Revs
    BY <1>1, <1>9, <1>15 DEF DeltaShape
  <2>6. \A e \in c.deleted : /\ e.src \in 1..Size(b, c) /\ e.tgt \in 1..Size(b, c)
                             /\ e.rid \in (1..IdCount(b, c)) \cup {NoId}
    BY <1>1, <1>9, <1>15 DEF DeltaShape
  <2>7. QED
    BY <1>9, <2>3, <2>4, <2>5, <2>6 DEF DeltaShape
<1>17. Limited(c)
  <2>1. PICK ln, cg, ca, cd \in Nat :
           /\ ln = Len(d.nodes) /\ cg = Cardinality(d.gone)
           /\ ca = Cardinality(d.added) /\ cd = Cardinality(d.deleted)
           /\ NodeEntries(d) = ln + cg /\ EdgeEntries(d) = ca + cd
           /\ ln + cg <= MaxNodes /\ ca + cd <= MaxEdges
    BY LimitCounts
  <2>2. ln = dn
    BY <1>2, <2>1
  <2>3. NodeEntries(c) = (dn + 1) + cg /\ EdgeEntries(c) = ca + cd
    BY <1>9, <1>10, <1>12, <2>1 DEF NodeEntries, EdgeEntries
  <2>4. Fits(d, 1, 0)
    BY AppliedIs
  <2>5. NodeEntries(d) + 1 <= MaxNodes /\ NodeEntries(d) = dn + cg
    BY <2>1, <2>2, <2>4 DEF Fits
  <2>6. cg \in Nat /\ ca \in Nat /\ cd \in Nat /\ ca + cd <= MaxEdges
    BY <2>1
  <2>7. NodeEntries(c) <= MaxNodes /\ EdgeEntries(c) <= MaxEdges
    BY <1>3, <2>3, <2>5, <2>6, TxDeltaAssumption
  <2>8. IsFiniteSet(d.gone) /\ IsFiniteSet(d.added) /\ IsFiniteSet(d.deleted)
    BY DEF DeltaOK, Limited
  <2>9. QED
    BY <1>9, <2>7, <2>8 DEF Limited
<1>18. ASSUME NEW i \in 1..Size(b, d) PROVE KeyAt(b, c, i) = KeyAt(b, d, i)
  <2>1. CASE i <= Len(b.nodes)
    BY <2>1 DEF KeyAt
  <2>2. CASE ~(i <= Len(b.nodes))
    <3>1. ~(i <= bn)
      BY <1>2, <2>2
    <3>2. i - bn \in 1..dn
      BY <1>3, <3>1
    <3>3. u[i - bn] = s[i - bn]
      BY <1>12, <3>2
    <3>4. QED
      BY <1>2, <1>8, <1>10, <2>2, <3>3 DEF KeyAt
  <2>3. QED
    BY <2>1, <2>2
<1>19. KeyAt(b, c, Size(b, d) + 1) = k
  <2>1. PICK i : i = Size(b, d) + 1
    OBVIOUS
  <2>2. ~(i <= bn) /\ i - bn = dn + 1
    BY <1>3, <2>1
  <2>3. KeyAt(b, c, i) = u[dn + 1].key
    BY <1>2, <1>10, <2>2 DEF KeyAt
  <2>4. QED
    BY <1>5, <1>12, <2>1, <2>3
<1>20. QED
  BY <1>9, <1>14, <1>16, <1>17, <1>18, <1>19 DEF DeltaOK

\* record_deleted_node hides an index.
LEMMA GoneCall ==
    ASSUME NEW b, BaseOK(b), NEW d, DeltaOK(b, d), NEW i, i \in 1..Size(b, d),
           CallFits(d, Call("gone", i)), NEW c, c = Applied(d, Call("gone", i))
    PROVE  /\ DeltaOK(b, c) /\ c.gone = d.gone \cup {i}
           /\ c.nodes = d.nodes /\ c.added = d.added /\ c.deleted = d.deleted /\ c.ids = d.ids
<1>1. DeltaShape(b, d) /\ d \in DeltaRecords
  BY DEF DeltaOK, DeltaShape
<1>2. c = [d EXCEPT !.gone = @ \cup {i}]
  BY AppliedIs DEF DeletedNode
<1>3. /\ c.gone = d.gone \cup {i}
      /\ c.nodes = d.nodes /\ c.added = d.added /\ c.deleted = d.deleted /\ c.ids = d.ids
  BY <1>1, <1>2 DEF DeltaRecords
<1>4. Size(b, c) = Size(b, d) /\ IdCount(b, c) = IdCount(b, d) /\ NewIds(b, c) = NewIds(b, d)
  BY <1>3 DEF Size, IdCount, NewIds
<1>5. PICK bn, dn \in Nat : Size(b, d) = bn + dn
  BY <1>1, Counts
<1>6. i \in Nat
  BY <1>5
<1>7. c \in DeltaRecords
  BY <1>1, <1>2, <1>6 DEF DeltaRecords
<1>8. DeltaShape(b, c)
  BY <1>1, <1>3, <1>4, <1>7 DEF DeltaShape
<1>9. PICK ln, cg, ca, cd \in Nat :
         /\ ln = Len(d.nodes) /\ cg = Cardinality(d.gone)
         /\ ca = Cardinality(d.added) /\ cd = Cardinality(d.deleted)
         /\ NodeEntries(d) = ln + cg /\ EdgeEntries(d) = ca + cd
         /\ ln + cg <= MaxNodes /\ ca + cd <= MaxEdges
  BY LimitCounts
<1>10. IsFiniteSet(d.gone) /\ IsFiniteSet(d.added) /\ IsFiniteSet(d.deleted)
  BY DEF DeltaOK, Limited
<1>11. IsFiniteSet(c.gone) /\ Cardinality(c.gone) = IF i \in d.gone THEN cg ELSE cg + 1
  BY <1>3, <1>9, <1>10, FS_AddElement
<1>12. PICK x \in Nat : x = Cardinality(c.gone) /\ x <= cg + 1
  BY <1>9, <1>11
<1>13. NodeEntries(c) = ln + x /\ EdgeEntries(c) = ca + cd
  BY <1>3, <1>9, <1>12 DEF NodeEntries, EdgeEntries
<1>14. ln + cg + 1 <= MaxNodes
  BY <1>9, AppliedIs DEF Fits
<1>15. NodeEntries(c) <= MaxNodes /\ EdgeEntries(c) <= MaxEdges
  <2>1. ln \in Nat /\ cg \in Nat /\ ca + cd <= MaxEdges /\ x \in Nat /\ x <= cg + 1
    BY <1>9, <1>12
  <2>2. QED
    BY <1>13, <1>14, <2>1, TxDeltaAssumption
<1>16. Limited(c)
  BY <1>3, <1>10, <1>11, <1>15 DEF Limited
<1>17. QED
  BY <1>3, <1>8, <1>16 DEF DeltaOK

\* record_relationship_identity takes the next identity.
LEMMA IdentityCall ==
    ASSUME NEW b, BaseOK(b), NEW d, DeltaOK(b, d), NEW r \in Rows,
           NEW c, c = Applied(d, Call("identity", r))
    PROVE  /\ DeltaOK(b, c)
           /\ Size(b, c) = Size(b, d) /\ IdCount(b, c) = IdCount(b, d) + 1
           /\ c.nodes = d.nodes /\ c.gone = d.gone /\ c.added = d.added /\ c.deleted = d.deleted
           /\ \A i \in 1..IdCount(b, d) : RowAt(b, c, i) = RowAt(b, d, i)
           /\ RowAt(b, c, IdCount(b, d) + 1) = r
<1>1. DeltaShape(b, d)
  BY DEF DeltaOK
<1>2. PICK bn, dn, be, di \in Nat :
         /\ bn = Len(b.nodes) /\ dn = Len(d.nodes) /\ Size(b, d) = bn + dn
         /\ be = Len(b.edges) /\ di = Len(d.ids) /\ IdCount(b, d) = be + di
  BY <1>1, Counts
<1>3. /\ bn \in Nat /\ dn \in Nat /\ be \in Nat /\ di \in Nat
      /\ Size(b, d) = bn + dn /\ IdCount(b, d) = be + di
  BY <1>2
<1>4. c = [d EXCEPT !.ids = Append(@, r)]
  BY AppliedIs DEF AddedIdentity
<1>5. d \in DeltaRecords
  BY <1>1 DEF DeltaShape
<1>6. PICK s \in Seq(Rows) : s = d.ids
  BY <1>5 DEF DeltaRecords
<1>7. /\ c.ids = Append(s, r) /\ c \in DeltaRecords
      /\ c.nodes = d.nodes /\ c.gone = d.gone /\ c.added = d.added /\ c.deleted = d.deleted
  <2>1. Append(s, r) \in Seq(Rows)
    BY <1>6
  <2>2. QED
    BY <1>4, <1>5, <1>6, <2>1 DEF DeltaRecords
<1>8. PICK u \in Seq(Rows) : u = c.ids
  BY <1>7 DEF DeltaRecords
<1>9. Len(s) = di
  BY <1>2, <1>6
<1>10. Len(u) = di + 1 /\ u[di + 1] = r /\ \A n \in 1..di : u[n] = s[n]
  BY <1>6, <1>7, <1>8, <1>9
<1>11. Size(b, c) = bn + dn /\ IdCount(b, c) = be + (di + 1)
  BY <1>2, <1>7, <1>8, <1>10 DEF Size, IdCount
<1>12. Size(b, c) = Size(b, d) /\ IdCount(b, c) = IdCount(b, d) + 1
  BY <1>3, <1>11
<1>13. 1..IdCount(b, d) \subseteq 1..IdCount(b, c) /\ NewIds(b, d) \subseteq NewIds(b, c)
  <2>1. /\ 1..IdCount(b, d) \subseteq 1..IdCount(b, c)
        /\ (be + 1)..IdCount(b, d) \subseteq (be + 1)..IdCount(b, c)
    BY <1>3, <1>11
  <2>2. QED
    BY <1>2, <2>1 DEF NewIds
<1>14. DeltaShape(b, c)
  <2>1. \A e \in c.added : /\ e.src \in 1..Size(b, c) /\ e.tgt \in 1..Size(b, c)
                           /\ e.rid \in NewIds(b, c) /\ e.rev \in Revs
    BY <1>1, <1>7, <1>12, <1>13 DEF DeltaShape
  <2>2. \A e \in c.deleted : /\ e.src \in 1..Size(b, c) /\ e.tgt \in 1..Size(b, c)
                             /\ e.rid \in (1..IdCount(b, c)) \cup {NoId}
    BY <1>1, <1>7, <1>12, <1>13 DEF DeltaShape
  <2>3. /\ \A n \in 1..Len(c.nodes) : c.nodes[n].idx = Len(b.nodes) + n
        /\ \A i \in c.gone : i \in 1..Size(b, c)
    BY <1>1, <1>7, <1>12 DEF DeltaShape
  <2>4. QED
    BY <1>7, <2>1, <2>2, <2>3 DEF DeltaShape
<1>15. Limited(c)
  BY <1>7 DEF DeltaOK, Limited, NodeEntries, EdgeEntries
<1>16. ASSUME NEW i \in 1..IdCount(b, d) PROVE RowAt(b, c, i) = RowAt(b, d, i)
  <2>1. CASE i <= Len(b.edges)
    BY <2>1 DEF RowAt
  <2>2. CASE ~(i <= Len(b.edges))
    <3>1. ~(i <= be)
      BY <1>2, <2>2
    <3>2. i - be \in 1..di
      BY <1>3, <3>1
    <3>3. u[i - be] = s[i - be]
      BY <1>10, <3>2
    <3>4. QED
      BY <1>2, <1>6, <1>8, <2>2, <3>3 DEF RowAt
  <2>3. QED
    BY <2>1, <2>2
<1>17. RowAt(b, c, IdCount(b, d) + 1) = r
  <2>1. PICK i : i = IdCount(b, d) + 1
    OBVIOUS
  <2>2. ~(i <= be) /\ i - be = di + 1
    BY <1>3, <2>1
  <2>3. RowAt(b, c, i) = u[di + 1]
    BY <1>2, <1>8, <2>2 DEF RowAt
  <2>4. QED
    BY <1>10, <2>1, <2>3
<1>18. QED
  BY <1>7, <1>12, <1>14, <1>15, <1>16, <1>17 DEF DeltaOK

\* A delta with other relationship entries.
WithEntries(d, A, D) == [d EXCEPT !.added = A, !.deleted = D]

\* Relationship entries for which there is room, between indexes in use.
Admits(b, d, A, D) ==
    /\ \A e \in A : Within(b, d, e) /\ e.rid \in NewIds(b, d) /\ e.rev \in Revs
    /\ \A e \in D : Within(b, d, e) /\ e.rid \in (1..IdCount(b, d)) \cup {NoId}
    /\ IsFiniteSet(A) /\ IsFiniteSet(D) /\ Cardinality(A) + Cardinality(D) <= MaxEdges

\* Changing the relationship entries alone keeps a delta in shape and within its
\* limits, if they are admitted.
LEMMA EntriesChange ==
    ASSUME NEW b, NEW d, DeltaOK(b, d), NEW A, NEW D, NEW c,
           c = WithEntries(d, A, D),
           Admits(b, d, A, D)
    PROVE  /\ DeltaOK(b, c) /\ SameNodes(d, c) /\ c.added = A /\ c.deleted = D
           /\ Size(b, c) = Size(b, d) /\ IdCount(b, c) = IdCount(b, d)
<1>1. DeltaShape(b, d) /\ d \in DeltaRecords
  BY DEF DeltaOK, DeltaShape
<1>2. A \in SUBSET Arcs /\ D \in SUBSET Arcs
  BY DEF Admits, Within
<1>3. /\ c \in DeltaRecords /\ c.added = A /\ c.deleted = D
      /\ c.nodes = d.nodes /\ c.gone = d.gone /\ c.ids = d.ids
  BY <1>1, <1>2 DEF DeltaRecords, WithEntries
<1>4. Size(b, c) = Size(b, d) /\ IdCount(b, c) = IdCount(b, d) /\ NewIds(b, c) = NewIds(b, d)
  BY <1>3 DEF Size, IdCount, NewIds
<1>5. DeltaShape(b, c)
  BY <1>1, <1>3, <1>4 DEF DeltaShape, Admits, Within
<1>6. Limited(c)
  BY <1>3 DEF Admits, DeltaOK, Limited, NodeEntries, EdgeEntries
<1>7. QED
  BY <1>3, <1>4, <1>5, <1>6 DEF DeltaOK, SameNodes

\* The entries that a delta has are between indexes in use.
LEMMA EntriesWithin ==
    ASSUME NEW b, NEW d, DeltaOK(b, d)
    PROVE  /\ \A e \in d.added : Within(b, d, e) /\ e.rid \in NewIds(b, d) /\ e.rev \in Revs
           /\ \A e \in d.deleted : Within(b, d, e) /\ e.rid \in (1..IdCount(b, d)) \cup {NoId}
           /\ IsFiniteSet(d.added) /\ IsFiniteSet(d.deleted)
  BY DEF DeltaOK, DeltaShape, Limited, DeltaRecords, Within

\* record_added_edge of a relationship without a tombstone.
LEMMA EdgeCall ==
    ASSUME NEW b, NEW d, DeltaOK(b, d), NEW e, Within(b, d, e),
           e.rid \in NewIds(b, d), e.rev \in Revs, e \notin d.deleted,
           CallFits(d, Call("edge", e)), NEW c, c = Applied(d, Call("edge", e))
    PROVE  /\ DeltaOK(b, c) /\ SameNodes(d, c)
           /\ c.added = d.added \cup {e} /\ c.deleted = d.deleted
           /\ Size(b, c) = Size(b, d) /\ IdCount(b, c) = IdCount(b, d)
<1>1. d \in DeltaRecords
  BY DEF DeltaOK, DeltaShape
<1>2. c = AddedEdge(d, e)
  BY AppliedIs
<1>3. PICK A : A = d.added \cup {e}
  OBVIOUS
<1>4. PICK D : D = d.deleted
  OBVIOUS
<1>5. c = WithEntries(d, A, D)
  BY <1>1, <1>2, <1>3, <1>4 DEF AddedEdge, WithEntries, DeltaRecords
<1>6. /\ \A a \in A : Within(b, d, a) /\ a.rid \in NewIds(b, d) /\ a.rev \in Revs
      /\ \A a \in D : Within(b, d, a) /\ a.rid \in (1..IdCount(b, d)) \cup {NoId}
      /\ IsFiniteSet(d.added) /\ IsFiniteSet(D)
  BY <1>3, <1>4, EntriesWithin
<1>7. PICK ln, cg, ca, cd \in Nat :
         /\ ln = Len(d.nodes) /\ cg = Cardinality(d.gone)
         /\ ca = Cardinality(d.added) /\ cd = Cardinality(d.deleted)
         /\ NodeEntries(d) = ln + cg /\ EdgeEntries(d) = ca + cd
         /\ ln + cg <= MaxNodes /\ ca + cd <= MaxEdges
  BY LimitCounts
<1>8. Fits(d, 0, 1)
  BY AppliedIs
<1>9. EdgeEntries(d) + 1 <= MaxEdges
  BY <1>8 DEF Fits
<1>10. IsFiniteSet(A) /\ Cardinality(A) = IF e \in d.added THEN ca ELSE ca + 1
  BY <1>3, <1>6, <1>7, FS_AddElement
<1>11. PICK x \in Nat : x = Cardinality(A) /\ x <= ca + 1
  BY <1>7, <1>10
<1>12. x + cd <= MaxEdges
  BY <1>7, <1>9, <1>11, TxDeltaAssumption, SMTT(40)
<1>13. Cardinality(A) + Cardinality(D) <= MaxEdges
  BY <1>4, <1>7, <1>11, <1>12
<1>14. Admits(b, d, A, D)
  BY <1>6, <1>10, <1>13 DEF Admits
<1>15. QED
  BY <1>3, <1>4, <1>5, <1>14, EntriesChange

\* record_deleted_edge_with_identity: own insertions are taken back, or a tombstone
\* is left.
LEMMA UnedgeCall ==
    ASSUME NEW b, NEW d, DeltaOK(b, d), NEW t, Within(b, d, t),
           t.rid \in (1..IdCount(b, d)) \cup {NoId},
           CallFits(d, Call("unedge", t)), NEW c, c = Applied(d, Call("unedge", t))
    PROVE  /\ DeltaOK(b, c) /\ SameNodes(d, c)
           /\ Size(b, c) = Size(b, d) /\ IdCount(b, c) = IdCount(b, d)
           /\ \A e : e \in c.added <=> e \in d.added /\ ~Covers(t, e)
           /\ (\E e \in d.added : Covers(t, e)) => c.deleted = d.deleted
           /\ (\A e \in d.added : ~Covers(t, e)) => c.deleted = d.deleted \cup {t}
<1>1. d \in DeltaRecords
  BY DEF DeltaOK, DeltaShape
<1>2. c = DeletedEdge(d, t)
  BY AppliedIs
<1>3. PICK own : own = {e \in d.added : Covers(t, e)}
  OBVIOUS
<1>4. PICK A : A = d.added \ own
  OBVIOUS
<1>5. PICK D : D = IF own # {} THEN d.deleted ELSE d.deleted \cup {t}
  OBVIOUS
<1>6. c = WithEntries(d, A, D)
  <2>1. CASE own # {}
    <3>1. c = [d EXCEPT !.added = d.added \ own]
      BY <1>2, <1>3, <2>1 DEF DeletedEdge
    <3>2. QED
      BY <1>1, <1>4, <1>5, <2>1, <3>1 DEF WithEntries, DeltaRecords
  <2>2. CASE own = {}
    <3>1. c = [d EXCEPT !.deleted = d.deleted \cup {t}]
      BY <1>2, <1>3, <2>2 DEF DeletedEdge
    <3>2. A = d.added /\ D = d.deleted \cup {t}
      BY <1>4, <1>5, <2>2
    <3>3. QED
      BY <1>1, <3>1, <3>2 DEF WithEntries, DeltaRecords
  <2>3. QED
    BY <2>1, <2>2
<1>7. /\ \A e \in d.added : Within(b, d, e) /\ e.rid \in NewIds(b, d) /\ e.rev \in Revs
      /\ \A e \in d.deleted : Within(b, d, e) /\ e.rid \in (1..IdCount(b, d)) \cup {NoId}
      /\ IsFiniteSet(d.added) /\ IsFiniteSet(d.deleted)
  BY EntriesWithin
<1>8. /\ \A e \in A : Within(b, d, e) /\ e.rid \in NewIds(b, d) /\ e.rev \in Revs
      /\ \A e \in D : Within(b, d, e) /\ e.rid \in (1..IdCount(b, d)) \cup {NoId}
  BY <1>4, <1>5, <1>7
<1>9. PICK ln, cg, ca, cd \in Nat :
         /\ ln = Len(d.nodes) /\ cg = Cardinality(d.gone)
         /\ ca = Cardinality(d.added) /\ cd = Cardinality(d.deleted)
         /\ NodeEntries(d) = ln + cg /\ EdgeEntries(d) = ca + cd
         /\ ln + cg <= MaxNodes /\ ca + cd <= MaxEdges
  BY LimitCounts
<1>10. IsFiniteSet(A) /\ Cardinality(A) <= ca /\ Cardinality(A) \in Nat
  <2>1. A \in SUBSET d.added
    BY <1>4
  <2>2. QED
    BY <1>7, <1>9, <2>1, FS_Subset, FS_CardinalityType
<1>11. PICK x \in Nat : x = Cardinality(A) /\ x <= ca
  BY <1>10
<1>12. IsFiniteSet(D) /\ Cardinality(A) + Cardinality(D) <= MaxEdges
  <2>1. CASE own # {}
    <3>1. D = d.deleted
      BY <1>5, <2>1
    <3>2. x + cd <= MaxEdges
      BY <1>9, <1>11, TxDeltaAssumption
    <3>3. QED
      BY <1>7, <1>9, <1>11, <3>1, <3>2
  <2>2. CASE own = {}
    <3>1. D = d.deleted \cup {t} /\ \A e \in d.added : ~Covers(t, e)
      BY <1>3, <1>5, <2>2
    <3>2. Fits(d, 0, 1)
      BY <3>1, AppliedIs
    <3>3. EdgeEntries(d) + 1 <= MaxEdges
      BY <3>2 DEF Fits
    <3>4. IsFiniteSet(D) /\ Cardinality(D) = IF t \in d.deleted THEN cd ELSE cd + 1
      BY <1>7, <1>9, <3>1, FS_AddElement
    <3>5. PICK y \in Nat : y = Cardinality(D) /\ y <= cd + 1
      BY <1>9, <3>4
    <3>6. x + y <= MaxEdges
      BY <1>9, <1>11, <3>3, <3>5, TxDeltaAssumption, SMTT(40)
    <3>7. QED
      BY <1>11, <3>4, <3>5, <3>6
  <2>3. QED
    BY <2>1, <2>2
<1>13. /\ DeltaOK(b, c) /\ SameNodes(d, c) /\ c.added = A /\ c.deleted = D
       /\ Size(b, c) = Size(b, d) /\ IdCount(b, c) = IdCount(b, d)
  <2>1. Admits(b, d, A, D)
    BY <1>8, <1>10, <1>12 DEF Admits
  <2>2. QED
    BY <1>6, <2>1, EntriesChange
<1>14. \A e : e \in A <=> e \in d.added /\ ~Covers(t, e)
  BY <1>3, <1>4
<1>15. /\ (\E e \in d.added : Covers(t, e)) => D = d.deleted
       /\ (\A e \in d.added : ~Covers(t, e)) => D = d.deleted \cup {t}
  BY <1>3, <1>5
<1>16. QED
  BY <1>13, <1>14, <1>15

----------------------------------------------------------------------------
\* What the changed delta shows.

\* A delta with the same nodes has the same live indexes and the same rows behind.
LEMMA SameLookUps ==
    ASSUME NEW b, NEW d, NEW c, SameNodes(d, c)
    PROVE  /\ Size(b, c) = Size(b, d) /\ IdCount(b, c) = IdCount(b, d)
           /\ \A i : IsLive(b, c, i) <=> IsLive(b, d, i)
           /\ \A i : KeyAt(b, c, i) = KeyAt(b, d, i)
           /\ \A r : RowAt(b, c, r) = RowAt(b, d, r)
           /\ \A e, x : Depicts(b, c, e, x) <=> Depicts(b, d, e, x)
           /\ \A ns : ShowsNodes(b, d, ns) => ShowsNodes(b, c, ns)
<1>1. Size(b, c) = Size(b, d) /\ IdCount(b, c) = IdCount(b, d)
  BY DEF SameNodes, Size, IdCount
<1>2. \A i : IsLive(b, c, i) <=> IsLive(b, d, i)
  BY <1>1 DEF SameNodes, IsLive
<1>3. \A i : KeyAt(b, c, i) = KeyAt(b, d, i)
  BY DEF SameNodes, KeyAt
<1>4. \A r : RowAt(b, c, r) = RowAt(b, d, r)
  BY DEF SameNodes, RowAt
<1>5. \A e, x : Depicts(b, c, e, x) <=> Depicts(b, d, e, x)
  BY <1>3, <1>4 DEF Depicts
<1>6. \A ns : ShowsNodes(b, d, ns) => ShowsNodes(b, c, ns)
  BY <1>2, <1>3 DEF ShowsNodes
<1>7. QED
  BY <1>1, <1>2, <1>3, <1>4, <1>5, <1>6

\* CREATE (n): a new index shows the new key, and no arc changes.
LEMMA NodeShows ==
    ASSUME NEW b, b = base, BaseOK(b), NEW d, DeltaOK(b, d), NEW ns, NEW es,
           Shows(b, d, ns, es), NEW k \in Keys, k \notin ns,
           CallFits(d, Call("node", k)), NEW c, c = Applied(d, Call("node", k))
    PROVE  Shows(b, c, ns \cup {k}, es)
<1>1. /\ Size(b, c) = Size(b, d) + 1 /\ IdCount(b, c) = IdCount(b, d)
      /\ c.gone = d.gone /\ c.added = d.added /\ c.deleted = d.deleted /\ c.ids = d.ids
      /\ \A i \in 1..Size(b, d) : KeyAt(b, c, i) = KeyAt(b, d, i)
      /\ KeyAt(b, c, Size(b, d) + 1) = k
  BY NodeCall
<1>2. DeltaShape(b, d)
  BY DEF DeltaOK
<1>3. PICK s \in Nat : s = Size(b, d)
  <2>1. PICK bn, dn, be, di \in Nat :
           /\ bn = Len(b.nodes) /\ dn = Len(d.nodes) /\ Size(b, d) = bn + dn
           /\ be = Len(b.edges) /\ di = Len(d.ids) /\ IdCount(b, d) = be + di
    BY <1>2, Counts
  <2>2. bn \in Nat /\ dn \in Nat /\ Size(b, d) = bn + dn
    BY <2>1
  <2>3. Size(b, d) \in Nat
    BY <2>2
  <2>4. QED
    BY <2>3
<1>4. \A i \in d.gone : i \in 1..s
  BY <1>2, <1>3 DEF DeltaShape
<1>5. ASSUME NEW i PROVE IsLive(b, c, i) <=> IsLive(b, d, i) \/ i = s + 1
  <2>1. i \in 1..(s + 1) <=> i \in 1..s \/ i = s + 1
    BY <1>3
  <2>2. s + 1 \notin d.gone
    BY <1>3, <1>4
  <2>3. Size(b, c) = s + 1
    BY <1>1, <1>3
  <2>4. QED
    BY <1>1, <1>3, <2>1, <2>2, <2>3 DEF IsLive
<1>6. /\ \A i : IsLive(b, d, i) => KeyAt(b, c, i) = KeyAt(b, d, i)
      /\ KeyAt(b, c, s + 1) = k
  BY <1>1, <1>3 DEF IsLive
<1>7. /\ \A i, j : IsLive(b, d, i) /\ IsLive(b, d, j) /\ KeyAt(b, d, i) = KeyAt(b, d, j) => i = j
      /\ \A i : IsLive(b, d, i) => KeyAt(b, d, i) \in ns
      /\ \A y \in ns : \E i : IsLive(b, d, i) /\ KeyAt(b, d, i) = y
  BY DEF Shows, ShowsNodes
<1>8. ShowsNodes(b, c, ns \cup {k})
  <2>1. ASSUME NEW i, NEW j, IsLive(b, c, i), IsLive(b, c, j), KeyAt(b, c, i) = KeyAt(b, c, j)
        PROVE  i = j
    BY <1>5, <1>6, <1>7, <2>1
  <2>2. \A i : IsLive(b, c, i) => KeyAt(b, c, i) \in ns \cup {k}
    BY <1>5, <1>6, <1>7
  <2>3. \A y \in ns \cup {k} : \E i : IsLive(b, c, i) /\ KeyAt(b, c, i) = y
    BY <1>5, <1>6, <1>7
  <2>4. QED
    BY <2>1, <2>2, <2>3 DEF ShowsNodes
<1>9. \A e : IsSeen(b, c, e) <=> IsSeen(b, d, e)
  BY <1>1 DEF IsSeen
<1>10. \A r : RowAt(b, c, r) = RowAt(b, d, r)
  BY <1>1 DEF RowAt
<1>11. ASSUME NEW e, IsSeen(b, d, e), NEW x PROVE Depicts(b, c, e, x) <=> Depicts(b, d, e, x)
  <2>1. IsLive(b, d, e.src) /\ IsLive(b, d, e.tgt)
    BY <1>2, <1>11, SeenBounds
  <2>2. QED
    BY <1>6, <1>10, <2>1 DEF Depicts
<1>12. ShowsEdges(b, d, es)
  BY DEF Shows
<1>13. ShowsEdges(b, c, es)
  BY <1>9, <1>10, <1>11, <1>12 DEF ShowsEdges
<1>14. QED
  BY <1>8, <1>13 DEF Shows

\* CREATE of a relationship x: its arcs carry a fresh identity, so that no tombstone
\* covers them, and their row is new.
LEMMA ArcShows ==
    ASSUME NEW b, BaseOK(b), NEW d, DeltaOK(b, d), NEW ns, NEW es,
           RowsOK(ns, es), Shows(b, d, ns, es),
           NEW c, c.nodes = d.nodes, c.gone = d.gone, c.deleted = d.deleted,
           NEW x \in EdgeRows, NEW r, RowAt(b, c, r) = x.row,
           \A n \in 1..IdCount(b, d) : RowAt(b, c, n) = RowAt(b, d, n),
           NEW i, IsLive(b, d, i), NEW j, IsLive(b, d, j),
           x.src = KeyAt(b, d, i), x.tgt = KeyAt(b, d, j), \A y \in es : y.row # x.row,
           NEW e, e = Forward(i, j, r), e \in Arcs,
           \A a : a \in c.added <=> a \in d.added \/ a = e \/ (Bidirectional /\ a = Mirror(e))
    PROVE  Shows(b, c, ns, es \cup {x})
<1>1. DeltaShape(b, d)
  BY DEF DeltaOK
<1>2. /\ \A n : KeyAt(b, c, n) = KeyAt(b, d, n)
      /\ \A n : IsLive(b, c, n) <=> IsLive(b, d, n)
  BY DEF KeyAt, IsLive, Size
<1>3. ShowsNodes(b, c, ns)
  BY <1>2 DEF Shows, ShowsNodes
<1>4. i \notin d.gone /\ j \notin d.gone
  BY DEF IsLive
<1>5. e.src = i /\ e.tgt = j /\ e.rev = FALSE /\ e.rid = r
  BY DEF Forward
<1>6. PICK m : m = Mirror(e)
  OBVIOUS
<1>7. m.src = j /\ m.tgt = i /\ m.rev = TRUE /\ m.rid = r /\ m \in Arcs
  BY <1>5, <1>6 DEF Mirror, Arcs
<1>8. ASSUME NEW a
      PROVE  IsSeen(b, c, a) <=> IsSeen(b, d, a) \/ a = e \/ (Bidirectional /\ a = m)
  BY <1>4, <1>5, <1>6, <1>7 DEF IsSeen
<1>9. ASSUME NEW a, IsSeen(b, d, a)
      PROVE  /\ RowAt(b, c, a.rid) = RowAt(b, d, a.rid)
             /\ \A y : Depicts(b, c, a, y) <=> Depicts(b, d, a, y)
  <2>1. a.rid \in 1..IdCount(b, d)
    BY <1>1, <1>9, SeenBounds
  <2>2. RowAt(b, c, a.rid) = RowAt(b, d, a.rid)
    BY <2>1
  <2>3. QED
    BY <1>2, <2>2 DEF Depicts
<1>10. Depicts(b, c, e, x) /\ Depicts(b, c, m, x)
  BY <1>2, <1>5, <1>7 DEF Depicts
<1>11. ASSUME NEW a \in Arcs, IsSeen(b, d, a)
       PROVE  \E y \in es : Depicts(b, d, a, y) /\ RowAt(b, d, a.rid) # x.row
  <2>1. PICK y \in es : Depicts(b, d, a, y)
    BY <1>11 DEF Shows, ShowsEdges
  <2>2. RowAt(b, d, a.rid) = y.row
    BY <2>1 DEF Depicts
  <2>3. QED
    BY <2>1, <2>2
<1>12. ASSUME NEW a \in Arcs, IsSeen(b, c, a)
       PROVE  \E y \in es \cup {x} : Depicts(b, c, a, y)
  BY <1>8, <1>9, <1>10, <1>11, <1>12
<1>13. ASSUME NEW y \in es \cup {x}, NEW v \in Revs
       PROVE  \E a \in Arcs : IsSeen(b, c, a) /\ a.rev = v /\ Depicts(b, c, a, y)
  <2>1. CASE y \in es
    <3>1. PICK a \in Arcs : IsSeen(b, d, a) /\ a.rev = v /\ Depicts(b, d, a, y)
      BY <2>1 DEF Shows, ShowsEdges
    <3>2. QED
      BY <1>8, <1>9, <3>1
  <2>2. CASE y = x /\ v = FALSE
    BY <1>5, <1>8, <1>10, <2>2
  <2>3. CASE y = x /\ v = TRUE
    <3>1. Bidirectional
      BY <2>3 DEF Revs
    <3>2. QED
      BY <1>7, <1>8, <1>10, <2>3, <3>1
  <2>4. QED
    BY <2>1, <2>2, <2>3 DEF Revs
<1>14. ASSUME NEW a \in Arcs, NEW f \in Arcs, IsSeen(b, c, a), IsSeen(b, c, f),
              RowAt(b, c, a.rid) = RowAt(b, c, f.rid)
       PROVE  a.rid = f.rid
  <2>1. CASE IsSeen(b, d, a) /\ IsSeen(b, d, f)
    BY <1>9, <1>14, <2>1 DEF Shows, ShowsEdges
  <2>2. ASSUME NEW g \in Arcs, NEW h \in Arcs, IsSeen(b, d, g), ~IsSeen(b, d, h), IsSeen(b, c, h)
        PROVE  RowAt(b, c, g.rid) # RowAt(b, c, h.rid)
    <3>1. RowAt(b, c, h.rid) = x.row
      BY <1>5, <1>7, <1>8, <2>2
    <3>2. RowAt(b, c, g.rid) # x.row
      BY <1>9, <1>11, <2>2
    <3>3. QED
      BY <3>1, <3>2
  <2>3. CASE ~IsSeen(b, d, a) /\ ~IsSeen(b, d, f)
    BY <1>5, <1>7, <1>8, <1>14, <2>3
  <2>4. QED
    BY <1>14, <2>1, <2>2, <2>3
<1>15. ShowsEdges(b, c, es \cup {x})
  BY <1>12, <1>13, <1>14 DEF ShowsEdges
<1>16. QED
  BY <1>3, <1>15 DEF Shows

\* An entry that names a relationship by its identity.
Names(b, d, t) == Within(b, d, t) /\ t.rid \in 1..IdCount(b, d)

\* A deletion by identity hides exactly the arc it names: an insertion of the
\* transaction has an identity past the base, so it never shares one with an arc
\* of the base that would show through once the insertion is taken back.
LEMMA UnseesOne ==
    ASSUME NEW b, BaseOK(b), NEW d, DeltaOK(b, d), NEW t, Names(b, d, t),
           CallFits(d, Call("unedge", t)), NEW c, c = Applied(d, Call("unedge", t))
    PROVE  \A a : IsSeen(b, c, a) <=> IsSeen(b, d, a) /\ a # t
<1>1. DeltaShape(b, d)
  BY DEF DeltaOK
<1>2. PICK bn, dn, be, di \in Nat :
         /\ bn = Len(b.nodes) /\ dn = Len(d.nodes) /\ Size(b, d) = bn + dn
         /\ be = Len(b.edges) /\ di = Len(d.ids) /\ IdCount(b, d) = be + di
  BY <1>1, Counts
<1>3. be \in Nat /\ di \in Nat /\ IdCount(b, d) = be + di
  BY <1>2
<1>4. t.rid # NoId
  BY <1>3, TxDeltaAssumption DEF Names
<1>5. /\ SameNodes(d, c)
      /\ \A e : e \in c.added <=> e \in d.added /\ ~Covers(t, e)
      /\ (\E e \in d.added : Covers(t, e)) => c.deleted = d.deleted
      /\ (\A e \in d.added : ~Covers(t, e)) => c.deleted = d.deleted \cup {t}
  BY UnedgeCall DEF Names
<1>6. \A a \in Arcs : Covers(t, a) <=> a = t
  BY <1>4 DEF Names, Covers, Within, Arcs
<1>7. /\ \A a \in d.added : a \in Arcs /\ a.rid \in NewIds(b, d)
      /\ \A a : IsBaseArc(b, a) => a \in Arcs /\ a.rid \in 1..Len(b.edges)
  BY <1>1, BaseArcBounds DEF DeltaShape, DeltaRecords
<1>8. ASSUME NEW a \in d.added PROVE ~IsBaseArc(b, a)
  <2>1. a.rid \in (be + 1)..(be + di)
    BY <1>2, <1>7 DEF NewIds
  <2>2. ~(a.rid \in 1..be)
    BY <1>3, <2>1
  <2>3. QED
    BY <1>2, <1>7, <2>2
<1>9. ASSUME NEW a PROVE IsSeen(b, c, a) <=> IsSeen(b, d, a) /\ a # t
  <2>1. a \in c.added <=> a \in d.added /\ a # t
    BY <1>5, <1>6, <1>7
  <2>2. CASE t \in d.added
    <3>1. Covers(t, t)
      BY <1>6, <2>2, <1>7
    <3>2. c.deleted = d.deleted
      BY <1>5, <2>2, <3>1
    <3>3. IsBaseArc(b, a) => a # t
      BY <1>8, <2>2
    <3>4. QED
      BY <1>5, <2>1, <3>2, <3>3 DEF IsSeen, SameNodes
  <2>3. CASE t \notin d.added
    <3>1. c.deleted = d.deleted \cup {t}
      BY <1>5, <1>6, <1>7, <2>3
    <3>2. IsBaseArc(b, a) => (Covers(t, a) <=> a = t)
      BY <1>6, <1>7
    <3>3. QED
      BY <1>5, <2>1, <2>3, <3>1, <3>2 DEF IsSeen, SameNodes
  <2>4. QED
    BY <2>2, <2>3
<1>10. QED
  BY <1>9

\* Only the two directions of one arc are no longer read.
LosesArc(b, d, c, e) ==
    \A a : IsSeen(b, c, a) <=> IsSeen(b, d, a) /\ a # e /\ (Bidirectional => a # Mirror(e))

\* DELETE r: without the arcs of one row, the others are shown.
LEMMA UnarcShows ==
    ASSUME NEW b, BaseOK(b), NEW d, DeltaOK(b, d), NEW ns, NEW es,
           RowsOK(ns, es), Shows(b, d, ns, es),
           NEW e, IsSeen(b, d, e), e.rev = FALSE, NEW x \in es, Depicts(b, d, e, x),
           NEW c, SameNodes(d, c), LosesArc(b, d, c, e)
    PROVE  Shows(b, c, ns, es \ {x})
<1>1. DeltaShape(b, d)
  BY DEF DeltaOK
<1>2. /\ \A r : RowAt(b, c, r) = RowAt(b, d, r)
      /\ \A a, y : Depicts(b, c, a, y) <=> Depicts(b, d, a, y)
      /\ ShowsNodes(b, c, ns)
  BY SameLookUps DEF Shows
<1>3. e \in Arcs /\ IsLive(b, d, e.src) /\ IsLive(b, d, e.tgt)
  BY <1>1, SeenBounds
<1>4. PICK m : m = Mirror(e)
  OBVIOUS
<1>5. m.src = e.tgt /\ m.tgt = e.src /\ m.rev = TRUE /\ m.rid = e.rid /\ m \in Arcs
  BY <1>3, <1>4 DEF Mirror, Arcs
<1>6. ASSUME NEW a, IsSeen(b, d, a), Depicts(b, d, a, x)
      PROVE  a = e \/ (Bidirectional /\ a = m)
  <2>1. a \in Arcs /\ a.rev \in Revs /\ IsLive(b, d, a.src) /\ IsLive(b, d, a.tgt)
    BY <1>1, <1>6, SeenBounds
  <2>2. RowAt(b, d, a.rid) = RowAt(b, d, e.rid)
    BY <1>6 DEF Depicts
  <2>3. a.rid = e.rid
    BY <1>3, <1>6, <2>1, <2>2 DEF Shows, ShowsEdges
  <2>4. CASE a.rev = FALSE
    BY <1>1, <1>6, <2>3, <2>4, SeenSame
  <2>5. CASE a.rev = TRUE
    <3>1. Bidirectional
      BY <2>1, <2>5 DEF Revs
    <3>2. KeyAt(b, d, a.src) = KeyAt(b, d, e.tgt) /\ KeyAt(b, d, a.tgt) = KeyAt(b, d, e.src)
      BY <1>6, <2>5 DEF Depicts
    <3>3. a.src = e.tgt /\ a.tgt = e.src
      BY <1>3, <2>1, <3>2 DEF Shows, ShowsNodes
    <3>4. a = m
      BY <1>5, <2>1, <2>3, <2>5, <3>3 DEF Arcs
    <3>5. QED
      BY <3>1, <3>4
  <2>6. QED
    BY <2>1, <2>4, <2>5 DEF Arcs
<1>7. ASSUME NEW a \in Arcs, IsSeen(b, c, a) PROVE \E y \in es \ {x} : Depicts(b, c, a, y)
  <2>1. IsSeen(b, d, a) /\ a # e /\ (Bidirectional => a # m)
    BY <1>4, <1>7 DEF LosesArc
  <2>2. PICK y \in es : Depicts(b, d, a, y)
    BY <2>1 DEF Shows, ShowsEdges
  <2>3. y # x
    BY <1>6, <2>1, <2>2
  <2>4. QED
    BY <1>2, <2>2, <2>3
<1>8. ASSUME NEW y \in es \ {x}, NEW v \in Revs
      PROVE  \E a \in Arcs : IsSeen(b, c, a) /\ a.rev = v /\ Depicts(b, c, a, y)
  <2>1. PICK a \in Arcs : IsSeen(b, d, a) /\ a.rev = v /\ Depicts(b, d, a, y)
    BY DEF Shows, ShowsEdges
  <2>2. y.row # x.row
    BY DEF RowsOK, Consistent
  <2>3. a.rid # e.rid
    BY <2>1, <2>2 DEF Depicts
  <2>4. a # e /\ a # m
    BY <1>5, <2>3
  <2>5. QED
    BY <1>2, <1>4, <2>1, <2>4 DEF LosesArc
<1>9. \A a, f \in Arcs :
         IsSeen(b, c, a) /\ IsSeen(b, c, f) /\ RowAt(b, c, a.rid) = RowAt(b, c, f.rid)
            => a.rid = f.rid
  BY <1>2 DEF Shows, ShowsEdges, LosesArc
<1>10. ShowsEdges(b, c, es \ {x})
  BY <1>7, <1>8, <1>9 DEF ShowsEdges
<1>11. QED
  BY <1>2, <1>10 DEF Shows

\* DETACH DELETE n: every arc at a hidden index goes with it.
Touches(a, i) == a.src = i \/ a.tgt = i

\* Two deltas differ in arcs at index i only.
DiffersAt(d, c, i) ==
    /\ SameNodes(d, c)
    /\ \A a : ~Touches(a, i) => (a \in c.added <=> a \in d.added)
    /\ \A t \in d.deleted : t \in c.deleted
    /\ \A t \in c.deleted : t \in d.deleted \/ Touches(t, i)

\* Once index i is hidden, such a difference cannot be seen.
LEMMA HidingShows ==
    ASSUME NEW b, BaseOK(b), NEW d, DeltaOK(b, d), NEW ns, NEW es,
           RowsOK(ns, es), Shows(b, d, ns, es), NEW i, IsLive(b, d, i), NEW k, k = KeyAt(b, d, i),
           NEW z, DiffersAt(d, z, i), NEW c, c.nodes = z.nodes, c.ids = z.ids,
           c.gone = z.gone \cup {i}, c.added = z.added, c.deleted = z.deleted
    PROVE  Shows(b, c, ns \ {k}, es \ {x \in es : k \in {x.src, x.tgt}})
<1>1. DeltaShape(b, d)
  BY DEF DeltaOK
<1>2. c.nodes = d.nodes /\ c.ids = d.ids /\ c.gone = d.gone \cup {i}
  BY DEF DiffersAt, SameNodes
<1>3. /\ \A n : IsLive(b, c, n) <=> IsLive(b, d, n) /\ n # i
      /\ \A n : KeyAt(b, c, n) = KeyAt(b, d, n)
      /\ \A r : RowAt(b, c, r) = RowAt(b, d, r)
  BY <1>2 DEF IsLive, Size, KeyAt, RowAt
<1>4. \A a, x : Depicts(b, c, a, x) <=> Depicts(b, d, a, x)
  BY <1>3 DEF Depicts
<1>5. ShowsNodes(b, d, ns) /\ ShowsEdges(b, d, es)
  BY DEF Shows
<1>6. \A n : IsLive(b, d, n) /\ KeyAt(b, d, n) = k => n = i
  BY <1>5 DEF ShowsNodes
<1>7. ShowsNodes(b, c, ns \ {k})
  BY <1>3, <1>5, <1>6 DEF ShowsNodes
<1>8. ASSUME NEW a PROVE IsSeen(b, c, a) <=> IsSeen(b, d, a) /\ ~Touches(a, i)
  <2>1. CASE Touches(a, i)
    BY <1>2, <2>1 DEF IsSeen, Touches
  <2>2. CASE ~Touches(a, i)
    <3>1. a \in c.added <=> a \in d.added
      BY <2>2 DEF DiffersAt
    <3>2. \A t : Touches(t, i) => ~Covers(t, a)
      BY <2>2 DEF Touches, Covers
    <3>3. (\A t \in c.deleted : ~Covers(t, a)) <=> (\A t \in d.deleted : ~Covers(t, a))
      BY <3>2 DEF DiffersAt
    <3>4. /\ a.src \notin c.gone <=> a.src \notin d.gone
          /\ a.tgt \notin c.gone <=> a.tgt \notin d.gone
      BY <1>2, <2>2 DEF Touches
    <3>5. QED
      BY <2>2, <3>1, <3>3, <3>4 DEF IsSeen
  <2>3. QED
    BY <2>1, <2>2
<1>9. ASSUME NEW a, IsSeen(b, d, a), NEW x, Depicts(b, d, a, x)
      PROVE  Touches(a, i) <=> k \in {x.src, x.tgt}
  <2>1. IsLive(b, d, a.src) /\ IsLive(b, d, a.tgt) /\ a.rev \in BOOLEAN
    BY <1>1, <1>9, SeenBounds DEF Arcs
  <2>2. {x.src, x.tgt} = {KeyAt(b, d, a.src), KeyAt(b, d, a.tgt)}
    BY <1>9, <2>1 DEF Depicts
  <2>3. QED
    BY <1>6, <2>1, <2>2 DEF Touches
<1>10. PICK rest : rest = es \ {x \in es : k \in {x.src, x.tgt}}
  OBVIOUS
<1>11. \A x : x \in rest <=> x \in es /\ k \notin {x.src, x.tgt}
  BY <1>10
<1>12. ASSUME NEW a \in Arcs, IsSeen(b, c, a) PROVE \E x \in rest : Depicts(b, c, a, x)
  <2>1. IsSeen(b, d, a) /\ ~Touches(a, i)
    BY <1>8, <1>12
  <2>2. PICK x \in es : Depicts(b, d, a, x)
    BY <1>5, <2>1 DEF ShowsEdges
  <2>3. x \in rest
    BY <1>9, <1>11, <2>1, <2>2
  <2>4. QED
    BY <1>4, <2>2, <2>3
<1>13. ASSUME NEW x \in rest, NEW v \in Revs
       PROVE  \E a \in Arcs : IsSeen(b, c, a) /\ a.rev = v /\ Depicts(b, c, a, x)
  <2>1. x \in es /\ k \notin {x.src, x.tgt}
    BY <1>11, <1>13
  <2>2. PICK a \in Arcs : IsSeen(b, d, a) /\ a.rev = v /\ Depicts(b, d, a, x)
    BY <1>5, <2>1 DEF ShowsEdges
  <2>3. ~Touches(a, i)
    BY <1>9, <2>1, <2>2
  <2>4. QED
    BY <1>4, <1>8, <2>2, <2>3
<1>14. \A a, f \in Arcs :
          IsSeen(b, c, a) /\ IsSeen(b, c, f) /\ RowAt(b, c, a.rid) = RowAt(b, c, f.rid)
             => a.rid = f.rid
  BY <1>3, <1>5, <1>8 DEF ShowsEdges
<1>15. ShowsEdges(b, c, rest)
  BY <1>12, <1>13, <1>14 DEF ShowsEdges
<1>16. QED
  BY <1>7, <1>10, <1>15 DEF Shows

\* A deletion without identity, of arcs at index i.
LEMMA UnseesAt ==
    ASSUME NEW b, NEW z, DeltaOK(b, z), NEW d, NEW i, DiffersAt(d, z, i),
           NEW t, Within(b, z, t), t.rid = NoId, Touches(t, i),
           CallFits(z, Call("unedge", t)), NEW c, c = Applied(z, Call("unedge", t))
    PROVE  DeltaOK(b, c) /\ DiffersAt(d, c, i)
<1>1. /\ DeltaOK(b, c) /\ SameNodes(z, c)
      /\ \A e : e \in c.added <=> e \in z.added /\ ~Covers(t, e)
      /\ (\E e \in z.added : Covers(t, e)) => c.deleted = z.deleted
      /\ (\A e \in z.added : ~Covers(t, e)) => c.deleted = z.deleted \cup {t}
  BY UnedgeCall
<1>2. \A a : Covers(t, a) => Touches(a, i)
  BY DEF Covers, Touches
<1>3. SameNodes(d, c)
  BY <1>1 DEF SameNodes, DiffersAt
<1>4. \A a : ~Touches(a, i) => (a \in c.added <=> a \in d.added)
  BY <1>1, <1>2 DEF DiffersAt
<1>5. c.deleted = z.deleted \/ c.deleted = z.deleted \cup {t}
  BY <1>1
<1>6. QED
  BY <1>1, <1>3, <1>4, <1>5 DEF DiffersAt

----------------------------------------------------------------------------
\* The statements.

\* What the present transaction reads is right.
Ready ==
    /\ BaseOK(base) /\ DeltaOK(base, delta)
    /\ RowsOK(nodes, edges) /\ Shows(base, delta, nodes, edges)

\* What a statement has to leave behind.
Kept ==
    /\ DeltaOK(base, delta') /\ RowsOK(nodes', edges')
    /\ ~failed' => Shows(base, delta', nodes', edges')

\* The first done calls have been made, with f the deltas between them.
Runs(calls, N, f, done) ==
    /\ f[0] = delta
    /\ \A n \in 1..done : f[n] = Applied(f[n - 1], calls[n]) /\ CallFits(f[n - 1], calls[n])
    /\ done \in 0..N /\ delta' = f[done] /\ (failed' <=> done < N)

\* A statement makes the first of its record calls, and fails unless it makes all.
LEMMA StatementRuns ==
    ASSUME NEW calls, NEW N \in Nat, N = Len(calls), NEW ns, NEW es, Statement(calls, ns, es)
    PROVE  /\ \E f, done : Runs(calls, N, f, done)
           /\ nodes' = ns /\ edges' = es
<1>1. PICK f : f = Trail(delta, calls)
  OBVIOUS
<1>2. PICK d : d = delta
  OBVIOUS
<1>3. f[0] = d /\ \A n \in 1..N : f[n] = Applied(f[n - 1], calls[n])
  <2>1. f = Trail(d, calls)
    BY <1>1, <1>2
  <2>2. QED
    BY <2>1, TrailIs
<1>4. PICK done \in 0..N :
         /\ \A n \in 1..done : CallFits(f[n - 1], calls[n])
         /\ delta' = f[done] /\ (failed' <=> done < N)
  <2>1. PICK done \in 0..Len(calls) :
           /\ \A n \in 1..done : CallFits(f[n - 1], calls[n])
           /\ delta' = f[done] /\ failed' = (done < Len(calls))
    BY <1>1 DEF Statement, Record
  <2>2. failed' <=> done < N
    BY <2>1, Zenon
  <2>3. QED
    BY <2>1, <2>2
<1>5. \A n \in 1..done : n \in 1..N
  BY <1>4
<1>6. Runs(calls, N, f, done)
  BY <1>2, <1>3, <1>4, <1>5 DEF Runs
<1>7. QED
  BY <1>6 DEF Statement

\* A statement of one call.
LEMMA CreateNodeKeeps ==
    ASSUME Ready, NEW k \in Keys, CreateNode(k)
    PROVE  Kept
<1>1. PICK calls : calls = <<[op |-> "node", arg |-> k]>>
  OBVIOUS
<1>2. Len(calls) = 1 /\ calls[1] = Call("node", k)
  BY <1>1 DEF Call
<1>3. Statement(calls, nodes \cup {k}, edges) /\ k \notin nodes
  BY <1>1 DEF CreateNode
<1>4. nodes' = nodes \cup {k} /\ edges' = edges /\ \E f, done : Runs(calls, 1, f, done)
  <2>1. PICK ns : ns = nodes \cup {k}
    OBVIOUS
  <2>2. PICK es : es = edges
    OBVIOUS
  <2>3. Statement(calls, ns, es)
    BY <1>3, <2>1, <2>2
  <2>4. PICK N \in Nat : N = 1
    OBVIOUS
  <2>5. N = Len(calls)
    BY <1>2, <2>4
  <2>6. nodes' = ns /\ edges' = es /\ \E f, done : Runs(calls, N, f, done)
    BY <2>3, <2>4, <2>5, StatementRuns
  <2>7. QED
    BY <2>1, <2>2, <2>4, <2>6
<1>5. PICK f, done : Runs(calls, 1, f, done)
  BY <1>4
<1>6. PICK ns : ns = nodes
  OBVIOUS
<1>7. PICK es : es = edges
  OBVIOUS
<1>8. PICK d : d = delta
  OBVIOUS
<1>9. PICK b : b = base
  OBVIOUS
<1>10. /\ BaseOK(b) /\ DeltaOK(b, d) /\ RowsOK(ns, es) /\ Shows(b, d, ns, es) /\ b = base
       /\ k \notin ns
  BY <1>3, <1>6, <1>7, <1>8, <1>9 DEF Ready
<1>11. RowsOK(ns \cup {k}, es)
  BY <1>10 DEF RowsOK, Consistent
<1>12. f[0] = d /\ done \in 0..1 /\ delta' = f[done] /\ (failed' <=> done < 1)
  BY <1>5, <1>8 DEF Runs
<1>13. CASE done = 0
  <2>1. failed' /\ delta' = d
    BY <1>12, <1>13
  <2>2. QED
    BY <1>4, <1>6, <1>7, <1>9, <1>10, <1>11, <2>1 DEF Kept
<1>14. CASE done = 1
  <2>1. PICK c : c = f[1]
    OBVIOUS
  <2>2. c = Applied(d, Call("node", k)) /\ CallFits(d, Call("node", k))
    <3>1. 1 \in 1..done /\ 1 - 1 = 0
      BY <1>14
    <3>2. f[1] = Applied(f[1 - 1], calls[1]) /\ CallFits(f[1 - 1], calls[1])
      BY <1>5, <3>1 DEF Runs
    <3>3. QED
      BY <1>2, <1>12, <2>1, <3>1, <3>2
  <2>3. DeltaOK(b, c)
    BY <1>10, <2>2, NodeCall
  <2>4. Shows(b, c, ns \cup {k}, es)
    BY <1>10, <2>2, NodeShows
  <2>5. delta' = c
    BY <1>12, <1>14, <2>1
  <2>6. QED
    BY <1>4, <1>6, <1>7, <1>9, <1>11, <2>3, <2>4, <2>5 DEF Kept
<1>15. QED
  BY <1>12, <1>13, <1>14

\* The calls of a statement on both directions of an arc, after a first call.
LEMMA CallsAfter ==
    ASSUME NEW X, NEW x \in X, NEW w \in Nat, NEW g \in [1..w -> X], NEW calls, calls = <<x>> \o g
    PROVE  Len(calls) = w + 1 /\ calls[1] = x /\ \A n \in 1..w : calls[n + 1] = g[n]
<1>1. <<x>> \in Seq(X) /\ Len(<<x>>) = 1 /\ g \in Seq(X) /\ Len(g) = w
  OBVIOUS
<1>2. Len(calls) = w + 1
  BY <1>1
<1>3. calls[1] = x
  BY <1>1
<1>4. ASSUME NEW n \in 1..w PROVE calls[n + 1] = g[n]
  BY <1>1
<1>5. QED
  BY <1>2, <1>3, <1>4

\* The calls of a statement before a last call.
LEMMA CallsBefore ==
    ASSUME NEW X, NEW x \in X, NEW w \in Nat, NEW g \in [1..w -> X], NEW calls, calls = g \o <<x>>
    PROVE  Len(calls) = w + 1 /\ calls[w + 1] = x /\ \A n \in 1..w : calls[n] = g[n]
<1>1. <<x>> \in Seq(X) /\ Len(<<x>>) = 1 /\ g \in Seq(X) /\ Len(g) = w
  OBVIOUS
<1>2. Len(calls) = w + 1
  BY <1>1
<1>3. calls[w + 1] = x
  BY <1>1
<1>4. ASSUME NEW n \in 1..w PROVE calls[n] = g[n]
  BY <1>1
<1>5. QED
  BY <1>2, <1>3, <1>4

\* An arc with an identity of the transaction's own that has no tombstone.
Fresh(b, c, e) == Within(b, c, e) /\ e.rid \in NewIds(b, c) /\ e \notin c.deleted

\* After its identity has been recorded, a new relationship is fresh both ways.
LEMMA IdentityFresh ==
    ASSUME NEW b, BaseOK(b), NEW d, DeltaOK(b, d), NEW r \in Rows,
           NEW i, IsLive(b, d, i), NEW j, IsLive(b, d, j),
           NEW e, e = Forward(i, j, IdCount(b, d) + 1),
           NEW c, c = Applied(d, Call("identity", r))
    PROVE  Fresh(b, c, e) /\ Fresh(b, c, Mirror(e))
<1>1. DeltaShape(b, d)
  BY DEF DeltaOK
<1>2. PICK bn, dn, be, di \in Nat :
         /\ bn = Len(b.nodes) /\ dn = Len(d.nodes) /\ Size(b, d) = bn + dn
         /\ be = Len(b.edges) /\ di = Len(d.ids) /\ IdCount(b, d) = be + di
  BY <1>1, Counts
<1>3. bn \in Nat /\ dn \in Nat /\ Size(b, d) = bn + dn
  BY <1>2
<1>4. be \in Nat /\ di \in Nat /\ IdCount(b, d) = be + di
  BY <1>2
<1>5. Size(b, c) = Size(b, d) /\ IdCount(b, c) = IdCount(b, d) + 1 /\ c.deleted = d.deleted
  BY IdentityCall
<1>6. PICK id \in Nat : id = be + di + 1
  BY <1>4
<1>7. e = Forward(i, j, id)
  BY <1>4, <1>6
<1>8. i \in 1..Size(b, d) /\ j \in 1..Size(b, d)
  BY DEF IsLive
<1>9. i \in Nat /\ j \in Nat
  BY <1>3, <1>8
<1>10. PICK m : m = Mirror(e)
  OBVIOUS
<1>11. /\ e \in Arcs /\ e.src = i /\ e.tgt = j /\ e.rid = id
       /\ m \in Arcs /\ m.src = j /\ m.tgt = i /\ m.rid = id
  BY <1>6, <1>7, <1>9, <1>10 DEF Forward, Mirror, Arcs
<1>12. id \in NewIds(b, c)
  <2>1. id \in (be + 1)..IdCount(b, c)
    BY <1>4, <1>5, <1>6
  <2>2. QED
    BY <1>2, <2>1 DEF NewIds
<1>13. id \notin 1..IdCount(b, d) /\ id # NoId
  BY <1>4, <1>6, TxDeltaAssumption
<1>14. \A t \in d.deleted : t.rid \in (1..IdCount(b, d)) \cup {NoId}
  BY <1>1 DEF DeltaShape
<1>15. e \notin d.deleted /\ m \notin d.deleted
  BY <1>11, <1>13, <1>14
<1>16. QED
  BY <1>5, <1>8, <1>10, <1>11, <1>12, <1>15 DEF Fresh, Within

\* Recording a fresh arc leaves the other one fresh.
LEMMA EdgeFresh ==
    ASSUME NEW b, NEW d, DeltaOK(b, d), NEW e, Fresh(b, d, e), e.rev \in Revs,
           CallFits(d, Call("edge", e)), NEW c, c = Applied(d, Call("edge", e))
    PROVE  /\ DeltaOK(b, c) /\ SameNodes(d, c)
           /\ c.added = d.added \cup {e} /\ c.deleted = d.deleted
           /\ \A a : Fresh(b, d, a) => Fresh(b, c, a)
<1>1. /\ DeltaOK(b, c) /\ SameNodes(d, c)
      /\ c.added = d.added \cup {e} /\ c.deleted = d.deleted
      /\ Size(b, c) = Size(b, d) /\ IdCount(b, c) = IdCount(b, d)
  BY EdgeCall DEF Fresh
<1>2. QED
  BY <1>1 DEF Fresh, Within, NewIds

\* The deltas along the calls of CREATE (a)-[r]->(b), and what the last one shows.
LEMMA CreateTrail ==
    ASSUME NEW b, BaseOK(b), NEW d, DeltaOK(b, d), NEW ns, NEW es,
           RowsOK(ns, es), Shows(b, d, ns, es),
           NEW x \in EdgeRows, \A y \in es : y.row # x.row,
           NEW i, IsLive(b, d, i), NEW j, IsLive(b, d, j),
           x.src = KeyAt(b, d, i), x.tgt = KeyAt(b, d, j),
           NEW e, e = Forward(i, j, IdCount(b, d) + 1),
           NEW c1, c1 = Applied(d, Call("identity", x.row)),
           NEW c2, c2 = Applied(c1, Call("edge", e)),
           NEW c3, c3 = Applied(c2, Call("edge", Mirror(e)))
    PROVE  /\ DeltaOK(b, c1)
           /\ CallFits(c1, Call("edge", e)) =>
                 /\ DeltaOK(b, c2)
                 /\ ~Bidirectional => Shows(b, c2, ns, es \cup {x})
           /\ CallFits(c1, Call("edge", e)) /\ CallFits(c2, Call("edge", Mirror(e))) /\ Bidirectional =>
                 DeltaOK(b, c3) /\ Shows(b, c3, ns, es \cup {x})
<1>1. PICK r \in Rows : r = x.row
  BY DEF EdgeRows
<1>2. /\ DeltaOK(b, c1) /\ c1.nodes = d.nodes /\ c1.gone = d.gone
      /\ c1.added = d.added /\ c1.deleted = d.deleted
      /\ \A n \in 1..IdCount(b, d) : RowAt(b, c1, n) = RowAt(b, d, n)
      /\ RowAt(b, c1, IdCount(b, d) + 1) = r
  BY <1>1, IdentityCall
<1>3. Fresh(b, c1, e) /\ Fresh(b, c1, Mirror(e))
  BY <1>1, IdentityFresh
<1>4. PICK m : m = Mirror(e)
  OBVIOUS
<1>5. PICK id : id = IdCount(b, d) + 1
  OBVIOUS
<1>6. e.rev = FALSE /\ e.rev \in Revs /\ m.rev = TRUE /\ e = Forward(i, j, id) /\ e \in Arcs
  BY <1>3, <1>4, <1>5 DEF Forward, Mirror, Revs, Fresh, Within
<1>7. ASSUME CallFits(c1, Call("edge", e))
      PROVE  /\ DeltaOK(b, c2) /\ SameNodes(c1, c2) /\ Fresh(b, c2, m)
             /\ c2.added = d.added \cup {e} /\ c2.deleted = d.deleted
  BY <1>2, <1>3, <1>4, <1>6, <1>7, EdgeFresh
<1>8. ASSUME CallFits(c1, Call("edge", e)), CallFits(c2, Call("edge", m)), Bidirectional
      PROVE  /\ DeltaOK(b, c3) /\ SameNodes(c2, c3)
             /\ c3.added = d.added \cup {e, m} /\ c3.deleted = d.deleted
  <2>1. m.rev \in Revs /\ c3 = Applied(c2, Call("edge", m))
    BY <1>4, <1>6, <1>8 DEF Revs
  <2>2. DeltaOK(b, c2) /\ Fresh(b, c2, m) /\ c2.added = d.added \cup {e} /\ c2.deleted = d.deleted
    BY <1>7, <1>8
  <2>3. /\ DeltaOK(b, c3) /\ SameNodes(c2, c3)
        /\ c3.added = c2.added \cup {m} /\ c3.deleted = c2.deleted
    BY <1>8, <2>1, <2>2, EdgeFresh
  <2>4. QED
    BY <2>2, <2>3
<1>9. ASSUME NEW c, SameNodes(c1, c), c.deleted = d.deleted,
             \A a : a \in c.added <=> a \in d.added \/ a = e \/ (Bidirectional /\ a = Mirror(e))
      PROVE  Shows(b, c, ns, es \cup {x})
  <2>1. \A n : RowAt(b, c, n) = RowAt(b, c1, n)
    BY <1>9, SameLookUps, ZenonT(60)
  <2>2. /\ RowAt(b, c, id) = x.row
        /\ \A n \in 1..IdCount(b, d) : RowAt(b, c, n) = RowAt(b, d, n)
    BY <1>1, <1>2, <1>5, <2>1
  <2>3. c.nodes = d.nodes /\ c.gone = d.gone
    BY <1>2, <1>9 DEF SameNodes
  <2>4. QED
    BY <1>6, <1>9, <2>2, <2>3, ArcShows
<1>10. ASSUME CallFits(c1, Call("edge", e)), ~Bidirectional
       PROVE  Shows(b, c2, ns, es \cup {x})
  BY <1>7, <1>9, <1>10
<1>11. ASSUME CallFits(c1, Call("edge", e)), CallFits(c2, Call("edge", m)), Bidirectional
       PROVE  Shows(b, c3, ns, es \cup {x})
  <2>1. SameNodes(c1, c3)
    BY <1>7, <1>8, <1>11 DEF SameNodes
  <2>2. \A a : a \in c3.added <=> a \in d.added \/ a = e \/ (Bidirectional /\ a = Mirror(e))
    BY <1>4, <1>8, <1>11
  <2>3. QED
    BY <1>8, <1>9, <1>11, <2>1, <2>2
<1>12. QED
  BY <1>2, <1>4, <1>7, <1>8, <1>10, <1>11

\* The first three deltas of a run.
LEMMA RunStarts ==
    ASSUME NEW calls, NEW N \in Nat, NEW f, NEW done, Runs(calls, N, f, done)
    PROVE  /\ done \in 0..N /\ delta' = f[done] /\ (failed' <=> done < N) /\ f[0] = delta
           /\ done >= 1 => f[1] = Applied(f[0], calls[1]) /\ CallFits(f[0], calls[1])
           /\ done >= 2 => f[2] = Applied(f[1], calls[2]) /\ CallFits(f[1], calls[2])
           /\ done >= 3 => f[3] = Applied(f[2], calls[3]) /\ CallFits(f[2], calls[3])
<1>1. done \in 0..N /\ delta' = f[done] /\ (failed' <=> done < N) /\ f[0] = delta
  BY DEF Runs
<1>2. ASSUME NEW n \in 1..3, done >= n
      PROVE  f[n] = Applied(f[n - 1], calls[n]) /\ CallFits(f[n - 1], calls[n])
  <2>1. n \in 1..done
    BY <1>1, <1>2
  <2>2. QED
    BY <2>1 DEF Runs
<1>3. 1 - 1 = 0 /\ 2 - 1 = 1 /\ 3 - 1 = 2 /\ 1 \in 1..3 /\ 2 \in 1..3 /\ 3 \in 1..3
  OBVIOUS
<1>4. done >= 1 => f[1] = Applied(f[0], calls[1]) /\ CallFits(f[0], calls[1])
  BY <1>2, <1>3
<1>5. done >= 2 => f[2] = Applied(f[1], calls[2]) /\ CallFits(f[1], calls[2])
  BY <1>2, <1>3
<1>6. done >= 3 => f[3] = Applied(f[2], calls[3]) /\ CallFits(f[2], calls[3])
  BY <1>2, <1>3
<1>7. QED
  BY <1>1, <1>4, <1>5, <1>6

\* A statement on constants: what the run of its calls leaves is what it keeps.
LEMMA StatementOn ==
    ASSUME NEW calls, NEW N \in Nat, N = Len(calls), NEW ns, NEW es, Statement(calls, ns, es),
           RowsOK(ns, es), NEW b, b = base,
           \A f, done : Runs(calls, N, f, done) =>
              DeltaOK(b, f[done]) /\ (done = N => Shows(b, f[done], ns, es))
    PROVE  Kept
<1>1. PICK f, done : Runs(calls, N, f, done)
  BY StatementRuns
<1>2. nodes' = ns /\ edges' = es
  BY StatementRuns
<1>3. DeltaOK(b, f[done]) /\ (done = N => Shows(b, f[done], ns, es))
  BY <1>1
<1>4. done \in 0..N /\ delta' = f[done] /\ (failed' <=> done < N)
  BY <1>1 DEF Runs
<1>5. ~failed' => done = N
  <2>1. done < N \/ done = N
    BY <1>4
  <2>2. QED
    BY <1>4, <2>1
<1>6. QED
  BY <1>2, <1>3, <1>4, <1>5 DEF Kept

\* MATCH (a), (b) CREATE (a)-[r]->(b).
LEMMA CreateRelationshipKeeps ==
    ASSUME Ready, NEW r \in Rows, NEW s \in Keys, NEW t \in Keys, CreateRelationship(r, s, t)
    PROVE  Kept
<1>1. PICK b : b = base
  OBVIOUS
<1>2. PICK d : d = delta
  OBVIOUS
<1>3. PICK ns : ns = nodes
  OBVIOUS
<1>4. PICK es : es = edges
  OBVIOUS
<1>5. BaseOK(b) /\ DeltaOK(b, d) /\ RowsOK(ns, es) /\ Shows(b, d, ns, es)
  BY <1>1, <1>2, <1>3, <1>4 DEF Ready
<1>6. BaseOK(base) /\ DeltaShape(base, delta) /\ ShowsNodes(base, delta, ns)
  BY <1>1, <1>2, <1>5 DEF DeltaOK, Shows
<1>7. s \in VisibleNodes /\ t \in VisibleNodes /\ s \in ns /\ t \in ns /\ \A e \in es : e.row # r
  BY <1>3, <1>4 DEF CreateRelationship
<1>8. PICK i : IsLive(base, delta, i) /\ KeyAt(base, delta, i) = s
  BY <1>6, <1>7, LookUps
<1>9. PICK j : IsLive(base, delta, j) /\ KeyAt(base, delta, j) = t
  BY <1>6, <1>7, LookUps
<1>10. Resolve(s) = i /\ Resolve(t) = j
  BY <1>6, <1>8, <1>9, ResolveIs
<1>11. TemporaryId(delta) = IdCount(b, d) + 1
  BY <1>1, <1>2 DEF TemporaryId, IdCount
<1>12. PICK e : e = Forward(i, j, IdCount(b, d) + 1)
  OBVIOUS
<1>13. PICK x : x = [row |-> r, src |-> s, tgt |-> t]
  OBVIOUS
<1>14. PICK w \in Nat : w = Width
  BY DEF Width
<1>15. /\ DOMAIN Directions(e) = 1..w /\ w \in {1, 2} /\ Directions(e)[1] = e
       /\ Bidirectional => w = 2 /\ Directions(e)[2] = Mirror(e)
       /\ ~Bidirectional => w = 1
  BY <1>14, DirectionsAre
<1>16. PICK g : g = [n \in 1..w |-> Call("edge", Directions(e)[n])]
  OBVIOUS
<1>17. PICK calls : calls = <<Call("identity", r)>> \o g
  OBVIOUS
<1>18. Statement(calls, nodes, edges \cup {x})
  <2>1. e = Forward(Resolve(s), Resolve(t), TemporaryId(delta))
    BY <1>10, <1>11, <1>12
  <2>2. calls = <<[op |-> "identity", arg |-> r]>>
                   \o [n \in DOMAIN Directions(e) |-> [op |-> "edge", arg |-> Directions(e)[n]]]
    BY <1>15, <1>16, <1>17 DEF Call
  <2>3. QED
    BY <1>13, <2>1, <2>2 DEF CreateRelationship
<1>19. /\ Len(calls) = w + 1 /\ calls[1] = Call("identity", r) /\ calls[2] = Call("edge", e)
       /\ Bidirectional => calls[3] = Call("edge", Mirror(e))
  <2>1. PICK X : X = {Call("identity", r)} \cup {g[n] : n \in 1..w}
    OBVIOUS
  <2>2. g \in [1..w -> X] /\ Call("identity", r) \in X
    BY <1>16, <2>1
  <2>3. Len(calls) = w + 1 /\ calls[1] = Call("identity", r) /\ \A n \in 1..w : calls[n + 1] = g[n]
    BY <1>17, <2>2, CallsAfter
  <2>4. calls[2] = Call("edge", e)
    <3>1. 1 \in 1..w /\ 1 + 1 = 2
      BY <1>15
    <3>2. QED
      BY <1>15, <1>16, <2>3, <3>1
  <2>5. ASSUME Bidirectional PROVE calls[3] = Call("edge", Mirror(e))
    <3>1. 2 \in 1..w /\ 2 + 1 = 3
      BY <1>15, <2>5
    <3>2. QED
      BY <1>15, <1>16, <2>3, <2>5, <3>1
  <2>6. QED
    BY <2>3, <2>4, <2>5
<1>20. PICK c1 : c1 = Applied(d, Call("identity", x.row))
  OBVIOUS
<1>21. PICK c2 : c2 = Applied(c1, Call("edge", e))
  OBVIOUS
<1>22. PICK c3 : c3 = Applied(c2, Call("edge", Mirror(e)))
  OBVIOUS
<1>23. x \in EdgeRows /\ x.row = r /\ x.src = s /\ x.tgt = t
  BY <1>13 DEF EdgeRows
<1>24. PICK fs : fs = es \cup {x}
  OBVIOUS
<1>25. /\ DeltaOK(b, c1)
       /\ CallFits(c1, Call("edge", e)) =>
             DeltaOK(b, c2) /\ (~Bidirectional => Shows(b, c2, ns, fs))
       /\ CallFits(c1, Call("edge", e)) /\ CallFits(c2, Call("edge", Mirror(e))) /\ Bidirectional =>
             DeltaOK(b, c3) /\ Shows(b, c3, ns, fs)
  <2>1. IsLive(b, d, i) /\ KeyAt(b, d, i) = x.src /\ IsLive(b, d, j) /\ KeyAt(b, d, j) = x.tgt
    BY <1>1, <1>2, <1>8, <1>9, <1>23
  <2>2. \A y \in es : y.row # x.row
    BY <1>7, <1>23
  <2>3. QED
    BY <1>5, <1>12, <1>20, <1>21, <1>22, <1>23, <1>24, <2>1, <2>2, CreateTrail
<1>26. RowsOK(ns, fs)
  BY <1>5, <1>7, <1>23, <1>24 DEF RowsOK, Consistent
<1>27. PICK N \in Nat : N = w + 1
  BY <1>14
<1>28. ASSUME NEW f, NEW done, Runs(calls, N, f, done)
       PROVE  DeltaOK(b, f[done]) /\ (done = N => Shows(b, f[done], ns, fs))
  <2>1. /\ done \in 0..N /\ f[0] = d
        /\ done >= 1 => f[1] = Applied(f[0], calls[1]) /\ CallFits(f[0], calls[1])
        /\ done >= 2 => f[2] = Applied(f[1], calls[2]) /\ CallFits(f[1], calls[2])
        /\ done >= 3 => f[3] = Applied(f[2], calls[3]) /\ CallFits(f[2], calls[3])
    BY <1>2, <1>28, RunStarts
  <2>2. N \in {2, 3} /\ (N = 3 <=> Bidirectional)
    BY <1>15, <1>27
  <2>3. done >= 1 => f[1] = c1
    BY <1>19, <1>20, <1>23, <2>1
  <2>4. done >= 2 => f[2] = c2 /\ CallFits(c1, Call("edge", e))
    BY <1>19, <1>21, <2>1, <2>3
  <2>5. done = 3 => f[3] = c3 /\ CallFits(c2, Call("edge", Mirror(e)))
    BY <1>19, <1>22, <2>1, <2>2, <2>4
  <2>6. CASE done = 0
    BY <1>5, <2>1, <2>2, <2>6
  <2>7. CASE done = 1
    BY <1>25, <2>2, <2>3, <2>7
  <2>8. CASE done = 2
    BY <1>25, <2>2, <2>4, <2>8
  <2>9. CASE done = 3
    BY <1>25, <2>1, <2>2, <2>4, <2>5, <2>9
  <2>10. QED
    BY <2>1, <2>2, <2>6, <2>7, <2>8, <2>9
<1>29. Statement(calls, ns, fs) /\ N = Len(calls)
  BY <1>3, <1>4, <1>18, <1>19, <1>24, <1>27
<1>30. QED
  BY <1>1, <1>26, <1>27, <1>28, <1>29, StatementOn

\* The deltas along the calls of DELETE r, and what the last one shows.
LEMMA DeleteTrail ==
    ASSUME NEW b, BaseOK(b), NEW d, DeltaOK(b, d), NEW ns, NEW es,
           RowsOK(ns, es), Shows(b, d, ns, es),
           NEW e, IsSeen(b, d, e), e.rev = FALSE, NEW x \in es, Depicts(b, d, e, x),
           NEW c1, c1 = Applied(d, Call("unedge", e)), CallFits(d, Call("unedge", e)),
           NEW c2, c2 = Applied(c1, Call("unedge", Mirror(e)))
    PROVE  /\ DeltaOK(b, c1)
           /\ ~Bidirectional => Shows(b, c1, ns, es \ {x})
           /\ CallFits(c1, Call("unedge", Mirror(e))) /\ Bidirectional =>
                 DeltaOK(b, c2) /\ Shows(b, c2, ns, es \ {x})
<1>1. DeltaShape(b, d)
  BY DEF DeltaOK
<1>2. /\ e \in Arcs /\ e.rid \in 1..IdCount(b, d)
      /\ IsLive(b, d, e.src) /\ IsLive(b, d, e.tgt)
  BY <1>1, SeenBounds
<1>3. Names(b, d, e)
  BY <1>2 DEF Names, Within, IsLive
<1>4. /\ DeltaOK(b, c1) /\ SameNodes(d, c1)
      /\ Size(b, c1) = Size(b, d) /\ IdCount(b, c1) = IdCount(b, d)
  BY <1>3, UnedgeCall DEF Names
<1>5. \A a : IsSeen(b, c1, a) <=> IsSeen(b, d, a) /\ a # e
  BY <1>3, UnseesOne
<1>6. PICK m : m = Mirror(e)
  OBVIOUS
<1>7. Names(b, c1, m)
  BY <1>3, <1>4, <1>6 DEF Names, Within, Mirror, Arcs
<1>8. ASSUME ~Bidirectional PROVE Shows(b, c1, ns, es \ {x})
  <2>1. LosesArc(b, d, c1, e)
    BY <1>5, <1>8 DEF LosesArc
  <2>2. QED
    BY <1>4, <2>1, UnarcShows
<1>9. ASSUME CallFits(c1, Call("unedge", Mirror(e))), Bidirectional
      PROVE  DeltaOK(b, c2) /\ Shows(b, c2, ns, es \ {x})
  <2>1. c2 = Applied(c1, Call("unedge", m)) /\ CallFits(c1, Call("unedge", m))
    BY <1>6, <1>9
  <2>2. DeltaOK(b, c2) /\ SameNodes(c1, c2)
    BY <1>4, <1>7, <2>1, UnedgeCall DEF Names
  <2>3. \A a : IsSeen(b, c2, a) <=> IsSeen(b, c1, a) /\ a # m
    BY <1>4, <1>7, <2>1, UnseesOne
  <2>4. SameNodes(d, c2)
    BY <1>4, <2>2 DEF SameNodes
  <2>5. LosesArc(b, d, c2, e)
    BY <1>5, <1>6, <1>9, <2>3 DEF LosesArc
  <2>6. Shows(b, c2, ns, es \ {x})
    BY <2>4, <2>5, UnarcShows
  <2>7. QED
    BY <2>2, <2>6
<1>10. QED
  BY <1>4, <1>8, <1>9

\* MATCH (a)-[r]->(b) DELETE r.
LEMMA DeleteEdgeKeeps ==
    ASSUME Ready, NEW e, e \in VisibleEdges, DeleteEdge(e)
    PROVE  Kept
<1>1. PICK b : b = base
  OBVIOUS
<1>2. PICK d : d = delta
  OBVIOUS
<1>3. PICK ns : ns = nodes
  OBVIOUS
<1>4. PICK es : es = edges
  OBVIOUS
<1>5. BaseOK(b) /\ DeltaOK(b, d) /\ RowsOK(ns, es) /\ Shows(b, d, ns, es) /\ DeltaShape(b, d)
  BY <1>1, <1>2, <1>3, <1>4 DEF Ready, DeltaOK
<1>6. BaseOK(base) /\ DeltaShape(base, delta) /\ ShowsNodes(base, delta, ns)
  BY <1>1, <1>2, <1>5 DEF Shows
<1>7. IsSeen(b, d, e)
  BY <1>1, <1>2, <1>6, LookUps
<1>8. /\ e \in Arcs /\ e.rid \in 1..IdCount(b, d)
      /\ IsLive(b, d, e.src) /\ IsLive(b, d, e.tgt)
  BY <1>5, <1>7, SeenBounds
<1>9. ~e.rev /\ e.rev = FALSE
  BY <1>8 DEF DeleteEdge, Arcs
<1>10. /\ KeyOf(e.src) = KeyAt(base, delta, e.src) /\ KeyOf(e.tgt) = KeyAt(base, delta, e.tgt)
       /\ RowOf(e.rid) = RowAt(base, delta, e.rid)
  BY <1>1, <1>2, <1>6, <1>8, LookUps DEF IsLive
<1>11. PICK s : s = KeyAt(base, delta, e.src)
  OBVIOUS
<1>12. PICK t : t = KeyAt(base, delta, e.tgt)
  OBVIOUS
<1>13. Resolve(s) = e.src /\ Resolve(t) = e.tgt
  <2>1. IsLive(base, delta, e.src) /\ IsLive(base, delta, e.tgt)
    BY <1>1, <1>2, <1>8
  <2>2. QED
    BY <1>6, <1>11, <1>12, <2>1, ResolveIs
<1>14. PICK x : x = [row |-> RowOf(e.rid), src |-> KeyOf(e.src), tgt |-> KeyOf(e.tgt)]
  OBVIOUS
<1>15. x.src = s /\ x.tgt = t /\ Depicts(b, d, e, x)
  BY <1>1, <1>2, <1>9, <1>10, <1>11, <1>12, <1>14 DEF Depicts
<1>16. Forward(Resolve(x.src), Resolve(x.tgt), e.rid) = e
  BY <1>8, <1>9, <1>13, <1>15 DEF Forward, Arcs
<1>17. PICK w \in Nat : w = Width
  BY DEF Width
<1>18. /\ DOMAIN Directions(e) = 1..w /\ w \in {1, 2} /\ Directions(e)[1] = e
       /\ Bidirectional => w = 2 /\ Directions(e)[2] = Mirror(e)
       /\ ~Bidirectional => w = 1
  BY <1>17, DirectionsAre
<1>19. PICK calls : calls = [n \in 1..w |-> Call("unedge", Directions(e)[n])]
  OBVIOUS
<1>20. x \in es /\ Statement(calls, nodes, edges \ {x})
  <2>1. calls = [n \in DOMAIN Directions(e) |-> [op |-> "unedge", arg |-> Directions(e)[n]]]
    BY <1>18, <1>19 DEF Call
  <2>2. QED
    BY <1>4, <1>14, <1>16, <2>1 DEF DeleteEdge
<1>21. /\ Len(calls) = w /\ calls[1] = Call("unedge", e)
       /\ Bidirectional => calls[2] = Call("unedge", Mirror(e))
  <2>1. Len(calls) = w
    BY <1>19
  <2>2. 1 \in 1..w /\ (Bidirectional => 2 \in 1..w)
    BY <1>18
  <2>3. QED
    BY <1>18, <1>19, <2>1, <2>2
<1>22. PICK c1 : c1 = Applied(d, Call("unedge", e))
  OBVIOUS
<1>23. PICK c2 : c2 = Applied(c1, Call("unedge", Mirror(e)))
  OBVIOUS
<1>24. PICK fs : fs = es \ {x}
  OBVIOUS
<1>25. ASSUME CallFits(d, Call("unedge", e))
       PROVE  /\ DeltaOK(b, c1)
              /\ ~Bidirectional => Shows(b, c1, ns, fs)
              /\ CallFits(c1, Call("unedge", Mirror(e))) /\ Bidirectional =>
                    DeltaOK(b, c2) /\ Shows(b, c2, ns, fs)
  BY <1>5, <1>7, <1>9, <1>15, <1>20, <1>22, <1>23, <1>24, <1>25, DeleteTrail
<1>26. RowsOK(ns, fs)
  BY <1>5, <1>24 DEF RowsOK, Consistent
<1>27. ASSUME NEW f, NEW done, Runs(calls, w, f, done)
       PROVE  DeltaOK(b, f[done]) /\ (done = w => Shows(b, f[done], ns, fs))
  <2>1. /\ done \in 0..w /\ f[0] = d
        /\ done >= 1 => f[1] = Applied(f[0], calls[1]) /\ CallFits(f[0], calls[1])
        /\ done >= 2 => f[2] = Applied(f[1], calls[2]) /\ CallFits(f[1], calls[2])
    BY <1>2, <1>27, RunStarts
  <2>2. w \in {1, 2} /\ (w = 2 <=> Bidirectional)
    BY <1>18
  <2>3. done >= 1 => f[1] = c1 /\ CallFits(d, Call("unedge", e))
    BY <1>21, <1>22, <2>1
  <2>4. done = 2 => f[2] = c2 /\ CallFits(c1, Call("unedge", Mirror(e)))
    BY <1>21, <1>23, <2>1, <2>2, <2>3
  <2>5. CASE done = 0
    BY <1>5, <2>1, <2>2, <2>5
  <2>6. CASE done = 1
    BY <1>25, <2>2, <2>3, <2>6
  <2>7. CASE done = 2
    BY <1>25, <2>1, <2>2, <2>3, <2>4, <2>7
  <2>8. QED
    BY <2>1, <2>2, <2>5, <2>6, <2>7
<1>28. Statement(calls, ns, fs) /\ w = Len(calls)
  BY <1>3, <1>4, <1>20, <1>21, <1>24
<1>29. QED
  BY <1>1, <1>17, <1>26, <1>27, <1>28, StatementOn

\* The n-th of w calls for each of L rows is one call for one of them.
LEMMA Interleaved ==
    ASSUME NEW w \in {1, 2}, NEW L \in Nat, NEW n \in 1..(w * L)
    PROVE  ((n - 1) \div w) + 1 \in 1..L /\ ((n - 1) % w) + 1 \in 1..w
<1>1. CASE w = 1
  <2>1. n \in 1..L
    BY <1>1
  <2>2. (n - 1) \div 1 = n - 1 /\ (n - 1) % 1 = 0
    BY <2>1
  <2>3. QED
    BY <1>1, <2>1, <2>2
<1>2. CASE w = 2
  <2>1. n \in 1..(2 * L)
    BY <1>2
  <2>2. PICK q \in Int : q = (n - 1) \div 2
    BY <2>1
  <2>3. PICK m \in Int : m = (n - 1) % 2
    BY <2>1
  <2>4. n - 1 = 2 * q + m /\ m \in 0..1
    BY <2>1, <2>2, <2>3
  <2>5. q + 1 \in 1..L /\ m + 1 \in 1..2
    BY <2>1, <2>4
  <2>6. QED
    BY <1>2, <2>2, <2>3, <2>5
<1>3. QED
  BY <1>1, <1>2

\* A deletion without identity of an arc at index i.
Unlinks(b, d, i, call) ==
    \E t : call = Call("unedge", t) /\ Within(b, d, t) /\ t.rid = NoId /\ Touches(t, i)

\* Along such deletions only arcs at index i are disturbed.
LEMMA UnlinkTrail ==
    ASSUME NEW b, NEW d, DeltaOK(b, d), NEW i, NEW calls, NEW p \in Nat,
           \A n \in 1..p : Unlinks(b, d, i, calls[n]),
           NEW f, f[0] = d,
           \A n \in 1..p : f[n] = Applied(f[n - 1], calls[n]) /\ CallFits(f[n - 1], calls[n])
    PROVE  DeltaOK(b, f[p]) /\ DiffersAt(d, f[p], i)
<1>1. PICK S : S = {n \in 0..p : DeltaOK(b, f[n]) /\ DiffersAt(d, f[n], i)}
  OBVIOUS
<1>2. 0 \in S
  <2>1. DiffersAt(d, d, i)
    BY DEF DiffersAt, SameNodes
  <2>2. QED
    BY <1>1, <2>1
<1>3. ASSUME NEW n \in 1..p, n - 1 \in S PROVE n \in S
  <2>1. PICK z : z = f[n - 1]
    OBVIOUS
  <2>2. PICK c : c = f[n]
    OBVIOUS
  <2>3. DeltaOK(b, z) /\ DiffersAt(d, z, i)
    BY <1>1, <1>3, <2>1
  <2>4. PICK t : calls[n] = Call("unedge", t) /\ Within(b, d, t) /\ t.rid = NoId /\ Touches(t, i)
    BY DEF Unlinks
  <2>5. c = Applied(z, Call("unedge", t)) /\ CallFits(z, Call("unedge", t))
    BY <2>1, <2>2, <2>4
  <2>6. Size(b, z) = Size(b, d)
    BY <2>3, SameLookUps DEF DiffersAt
  <2>7. Within(b, z, t)
    BY <2>4, <2>6 DEF Within
  <2>8. DeltaOK(b, c) /\ DiffersAt(d, c, i)
    BY <2>3, <2>4, <2>5, <2>7, UnseesAt
  <2>9. n \in 0..p
    OBVIOUS
  <2>10. QED
    BY <1>1, <2>2, <2>8, <2>9
<1>4. \A n \in 0..p : n \in S
  BY <1>2, <1>3, UpTo
<1>5. p \in S
  BY <1>4
<1>6. QED
  BY <1>1, <1>5

\* What DETACH DELETE leaves once its last call has hidden the node.
LEMMA DetachTrail ==
    ASSUME NEW b, BaseOK(b), NEW d, DeltaOK(b, d), NEW ns, NEW es,
           RowsOK(ns, es), Shows(b, d, ns, es), NEW i, IsLive(b, d, i), NEW k, k = KeyAt(b, d, i),
           NEW z, DeltaOK(b, z), DiffersAt(d, z, i),
           CallFits(z, Call("gone", i)), NEW c, c = Applied(z, Call("gone", i))
    PROVE  DeltaOK(b, c) /\ Shows(b, c, ns \ {k}, es \ {x \in es : k \in {x.src, x.tgt}})
<1>1. Size(b, z) = Size(b, d)
  BY SameLookUps DEF DiffersAt
<1>2. i \in 1..Size(b, z)
  BY <1>1 DEF IsLive
<1>3. /\ DeltaOK(b, c) /\ c.gone = z.gone \cup {i}
      /\ c.nodes = z.nodes /\ c.added = z.added /\ c.deleted = z.deleted /\ c.ids = z.ids
  BY <1>2, GoneCall
<1>4. QED
  BY <1>3, HidingShows

\* The tombstones for a row at the deleted node.
LEMMA TombstoneUnlinks ==
    ASSUME NEW b, b = base, NEW d, d = delta, BaseOK(b), DeltaOK(b, d), NEW ns, NEW es,
           RowsOK(ns, es), Shows(b, d, ns, es), NEW i, IsLive(b, d, i), NEW k, k = KeyAt(b, d, i),
           NEW y \in es, k \in {y.src, y.tgt},
           NEW t, t = Forward(Resolve(y.src), Resolve(y.tgt), NoId),
           NEW w, w = Width, NEW m \in 1..w
    PROVE  Unlinks(b, d, i, Call("unedge", Directions(t)[m]))
<1>1. DeltaShape(base, delta) /\ BaseOK(base) /\ ShowsNodes(base, delta, ns) /\ DeltaShape(b, d)
  BY DEF DeltaOK, Shows
<1>2. y.src \in ns /\ y.tgt \in ns
  BY DEF RowsOK, Consistent
<1>3. PICK u : IsLive(b, d, u) /\ KeyAt(b, d, u) = y.src
  BY <1>1, <1>2 DEF ShowsNodes
<1>4. PICK v : IsLive(b, d, v) /\ KeyAt(b, d, v) = y.tgt
  BY <1>1, <1>2 DEF ShowsNodes
<1>5. PICK s : s = y.src
  OBVIOUS
<1>6. PICK q : q = y.tgt
  OBVIOUS
<1>7. Resolve(s) = u /\ Resolve(q) = v
  BY <1>1, <1>3, <1>4, <1>5, <1>6, ResolveIs
<1>8. t = Forward(u, v, NoId)
  BY <1>5, <1>6, <1>7
<1>9. u = i \/ v = i
  BY <1>1, <1>3, <1>4 DEF ShowsNodes
<1>10. PICK bn, dn, be, di \in Nat :
          /\ bn = Len(b.nodes) /\ dn = Len(d.nodes) /\ Size(b, d) = bn + dn
          /\ be = Len(b.edges) /\ di = Len(d.ids) /\ IdCount(b, d) = be + di
  BY <1>1, Counts
<1>11. bn \in Nat /\ dn \in Nat /\ Size(b, d) = bn + dn
  BY <1>10
<1>12. u \in 1..Size(b, d) /\ v \in 1..Size(b, d)
  BY <1>3, <1>4 DEF IsLive
<1>13. u \in Nat /\ v \in Nat
  BY <1>11, <1>12
<1>14. /\ Within(b, d, t) /\ t.rid = NoId /\ Touches(t, i)
       /\ Within(b, d, Mirror(t)) /\ Mirror(t).rid = NoId /\ Touches(Mirror(t), i)
  BY <1>8, <1>9, <1>12, <1>13 DEF Within, Arcs, Touches, Forward, Mirror
<1>15. Directions(t)[m] \in {t, Mirror(t)}
  <2>1. /\ Width \in {1, 2} /\ Directions(t)[1] = t
        /\ Bidirectional => Width = 2 /\ Directions(t)[2] = Mirror(t)
        /\ ~Bidirectional => Width = 1
    BY DirectionsAre
  <2>2. CASE Bidirectional
    <3>1. m \in {1, 2}
      BY <2>1, <2>2
    <3>2. QED
      BY <2>1, <2>2, <3>1
  <2>3. CASE ~Bidirectional
    <3>1. m = 1
      BY <2>1, <2>3
    <3>2. QED
      BY <2>1, <3>1
  <2>4. QED
    BY <2>2, <2>3
<1>16. QED
  BY <1>14, <1>15 DEF Unlinks

\* MATCH (n) DETACH DELETE n: the tombstones have no identity and may cover more
\* than they should, but only at the node that the last call hides.
LEMMA DetachDeleteKeeps ==
    ASSUME Ready, NEW k \in Keys, DetachDelete(k)
    PROVE  Kept
<1>1. PICK b : b = base
  OBVIOUS
<1>2. PICK d : d = delta
  OBVIOUS
<1>3. PICK ns : ns = nodes
  OBVIOUS
<1>4. PICK es : es = edges
  OBVIOUS
<1>5. BaseOK(b) /\ DeltaOK(b, d) /\ RowsOK(ns, es) /\ Shows(b, d, ns, es) /\ DeltaShape(b, d)
  BY <1>1, <1>2, <1>3, <1>4 DEF Ready, DeltaOK
<1>6. BaseOK(base) /\ DeltaShape(base, delta) /\ ShowsNodes(base, delta, ns)
  BY <1>1, <1>2, <1>5 DEF Shows
<1>7. PICK i : IsLive(base, delta, i) /\ KeyAt(base, delta, i) = k
  <2>1. k \in VisibleNodes
    BY DEF DetachDelete
  <2>2. QED
    BY <1>6, <2>1, LookUps
<1>8. Resolve(k) = i
  BY <1>6, <1>7, ResolveIs
<1>9. IsLive(b, d, i) /\ k = KeyAt(b, d, i)
  BY <1>1, <1>2, <1>7
<1>10. PICK inc : inc = {e \in es : k \in {e.src, e.tgt}}
  OBVIOUS
<1>11. PICK w \in {1, 2} : w = Width
  BY DEF Width
<1>12. PICK order \in SetToSeqs(inc) :
          Statement([n \in 1..(w * Len(order)) |->
                        Call("unedge", Directions(Forward(Resolve(order[((n - 1) \div w) + 1].src),
                                                          Resolve(order[((n - 1) \div w) + 1].tgt),
                                                          NoId))[((n - 1) % w) + 1])]
                       \o <<Call("gone", i)>>,
                    nodes \ {k}, edges \ inc)
  BY <1>4, <1>8, <1>10, <1>11 DEF DetachDelete, Call
<1>13. order \in Seq(inc) /\ Len(order) \in Nat
  <2>1. IsFiniteSet(inc)
    <3>1. IsFiniteSet(es)
      BY <1>5, RowsFinite
    <3>2. inc \in SUBSET es
      BY <1>10
    <3>3. QED
      BY <3>1, <3>2, FS_Subset
  <2>2. QED
    BY <1>12, <2>1, Enumerates
<1>14. PICK L \in Nat : L = Len(order)
  BY <1>13
<1>15. PICK p \in Nat : p = w * L
  BY <1>11, <1>14
<1>16. PICK T : T = [y \in inc |-> Forward(Resolve(y.src), Resolve(y.tgt), NoId)]
  OBVIOUS
<1>17. PICK g : g = [n \in 1..p |->
                       Call("unedge", Directions(T[order[((n - 1) \div w) + 1]])[((n - 1) % w) + 1])]
  OBVIOUS
<1>18. ASSUME NEW n \in 1..p
       PROVE  order[((n - 1) \div w) + 1] \in inc /\ ((n - 1) % w) + 1 \in 1..w
  <2>1. n \in 1..(w * L)
    BY <1>15
  <2>2. ((n - 1) \div w) + 1 \in 1..L /\ ((n - 1) % w) + 1 \in 1..w
    BY <1>11, <1>14, <2>1, Interleaved
  <2>3. PICK q \in 1..L : q = ((n - 1) \div w) + 1
    BY <2>2
  <2>4. order[q] \in inc
    BY <1>13, <1>14, <2>3
  <2>5. QED
    BY <2>2, <2>3, <2>4
<1>19. PICK calls : calls = g \o <<Call("gone", i)>>
  OBVIOUS
<1>20. Statement(calls, nodes \ {k}, edges \ inc)
  <2>1. \A n \in 1..p :
           T[order[((n - 1) \div w) + 1]] =
              Forward(Resolve(order[((n - 1) \div w) + 1].src),
                      Resolve(order[((n - 1) \div w) + 1].tgt), NoId)
    BY <1>16, <1>18
  <2>2. g = [n \in 1..(w * Len(order)) |->
               Call("unedge", Directions(Forward(Resolve(order[((n - 1) \div w) + 1].src),
                                                 Resolve(order[((n - 1) \div w) + 1].tgt),
                                                 NoId))[((n - 1) % w) + 1])]
    BY <1>14, <1>15, <1>17, <2>1
  <2>3. QED
    BY <1>12, <1>19, <2>2
<1>21. Len(calls) = p + 1 /\ calls[p + 1] = Call("gone", i) /\ \A n \in 1..p : calls[n] = g[n]
  <2>1. PICK X : X = {Call("gone", i)} \cup {g[n] : n \in 1..p}
    OBVIOUS
  <2>2. g \in [1..p -> X] /\ Call("gone", i) \in X
    BY <1>17, <2>1
  <2>3. p \in Nat
    BY <1>15
  <2>4. PICK x : x = Call("gone", i)
    OBVIOUS
  <2>5. calls = g \o <<x>> /\ x \in X
    BY <1>19, <2>2, <2>4
  <2>6. Len(calls) = p + 1 /\ calls[p + 1] = x /\ \A n \in 1..p : calls[n] = g[n]
    BY <2>2, <2>3, <2>5, CallsBefore
  <2>7. QED
    BY <2>4, <2>6
<1>22. ASSUME NEW n \in 1..p PROVE Unlinks(b, d, i, calls[n])
  <2>1. PICK y \in inc : y = order[((n - 1) \div w) + 1]
    BY <1>18
  <2>2. PICK m \in 1..w : m = ((n - 1) % w) + 1
    BY <1>18
  <2>3. PICK t : t = T[y]
    OBVIOUS
  <2>4. calls[n] = Call("unedge", Directions(t)[m])
    BY <1>17, <1>21, <2>1, <2>2, <2>3
  <2>5. y \in es /\ k \in {y.src, y.tgt} /\ t = Forward(Resolve(y.src), Resolve(y.tgt), NoId)
    BY <1>10, <1>16, <2>1, <2>3
  <2>6. Unlinks(b, d, i, Call("unedge", Directions(t)[m]))
    BY <1>1, <1>2, <1>5, <1>9, <1>11, <2>2, <2>5, TombstoneUnlinks
  <2>7. QED
    BY <2>4, <2>6
<1>23. PICK ms : ms = ns \ {k}
  OBVIOUS
<1>24. PICK fs : fs = es \ inc
  OBVIOUS
<1>25. RowsOK(ms, fs)
  BY <1>5, <1>10, <1>23, <1>24 DEF RowsOK, Consistent
<1>26. PICK N \in Nat : N = p + 1
  BY <1>15
<1>27. ASSUME NEW f, NEW done, Runs(calls, N, f, done)
       PROVE  DeltaOK(b, f[done]) /\ (done = N => Shows(b, f[done], ms, fs))
  <2>1. /\ f[0] = d /\ done \in 0..N
        /\ \A n \in 1..done : f[n] = Applied(f[n - 1], calls[n]) /\ CallFits(f[n - 1], calls[n])
    BY <1>2, <1>27 DEF Runs
  <2>2. ASSUME NEW j \in 0..p, j <= done PROVE DeltaOK(b, f[j]) /\ DiffersAt(d, f[j], i)
    <3>1. \A n \in 1..j : n \in 1..done /\ n \in 1..p
      BY <2>1, <2>2, <1>26
    <3>2. /\ \A n \in 1..j : Unlinks(b, d, i, calls[n])
          /\ \A n \in 1..j : f[n] = Applied(f[n - 1], calls[n]) /\ CallFits(f[n - 1], calls[n])
      BY <1>22, <2>1, <3>1
    <3>3. j \in Nat
      OBVIOUS
    <3>4. QED
      BY <1>5, <2>1, <3>2, <3>3, UnlinkTrail
  <2>3. CASE done \in 0..p
    <3>1. done <= done /\ done # N
      BY <1>26, <2>3
    <3>2. QED
      BY <2>2, <2>3, <3>1
  <2>4. CASE done = p + 1
    <3>1. PICK z : z = f[p]
      OBVIOUS
    <3>2. PICK c : c = f[done]
      OBVIOUS
    <3>3. p \in 0..p /\ p <= done /\ done \in 1..done /\ done - 1 = p
      BY <1>15, <2>4
    <3>4. DeltaOK(b, z) /\ DiffersAt(d, z, i)
      BY <2>2, <3>1, <3>3
    <3>5. c = Applied(z, Call("gone", i)) /\ CallFits(z, Call("gone", i))
      <4>1. f[done] = Applied(f[done - 1], calls[done]) /\ CallFits(f[done - 1], calls[done])
        BY <2>1, <3>3
      <4>2. calls[done] = Call("gone", i)
        BY <1>21, <2>4
      <4>3. QED
        BY <3>1, <3>2, <3>3, <4>1, <4>2
    <3>6. DeltaOK(b, c) /\ Shows(b, c, ms, fs)
      BY <1>5, <1>9, <1>10, <1>23, <1>24, <3>4, <3>5, DetachTrail
    <3>7. QED
      BY <3>2, <3>6
  <2>5. QED
    BY <1>26, <2>1, <2>3, <2>4
<1>28. Statement(calls, ms, fs) /\ N = Len(calls)
  BY <1>3, <1>4, <1>20, <1>21, <1>23, <1>24, <1>26
<1>29. QED
  BY <1>1, <1>25, <1>26, <1>27, <1>28, StatementOn

----------------------------------------------------------------------------
\* Savepoints, rollbacks and the ends of transactions.

RowSets == [nodes : SUBSET Keys, edges : SUBSET EdgeRows]

\* IInv, said of given values of the variables.
Inv(b, d, dp, fl, ns, es, sn, sv) ==
    /\ dp \in 0..MaxDepth /\ fl \in BOOLEAN
    /\ sv \in Seq(RowSets) /\ Len(sv) = dp + 1
    /\ \A i \in 1..Len(sv) : RowsOK(sv[i].nodes, sv[i].edges)
    /\ RowsOK(ns, es)
    /\ b \in BuiltFrom(sv[1].nodes, sv[1].edges)
    /\ sn \in Seq(DeltaRecords) /\ Len(sn) <= dp
    /\ fl => Len(sn) = dp
    /\ DeltaOK(b, d)
    /\ ~fl => Shows(b, d, ns, es)
    /\ \A i \in 1..dp : LET c == IF i <= Len(sn) THEN sn[i] ELSE d IN
          DeltaOK(b, c) /\ Shows(b, c, sv[i + 1].nodes, sv[i + 1].edges)

\* IInv is that of the present values.
LEMMA InvIs == IInv <=> Inv(base, delta, depth, failed, nodes, edges, snapshots, saved)
  BY DEF IInv, Inv, Restored, RowSets

\* The same of the state after a step.
LEMMA InvIsNext ==
    IInv' <=> Inv(base', delta', depth', failed', nodes', edges', snapshots', saved')
  BY DEF IInv, Inv, Restored, RowSets

\* All but the last element.
LEMMA FrontIs ==
    ASSUME NEW X, NEW s \in Seq(X), NEW n \in Nat, Len(s) = n + 1
    PROVE  Front(s) \in Seq(X) /\ Len(Front(s)) = n /\ \A i \in 1..n : Front(s)[i] = s[i]
  BY DEF Front

\* The base stays what a build yields, and shows the rows it was built from.
LEMMA InvBase ==
    ASSUME NEW b, NEW d, NEW dp, NEW fl, NEW ns, NEW es, NEW sn, NEW sv,
           Inv(b, d, dp, fl, ns, es, sn, sv)
    PROVE  /\ BaseOK(b) /\ DeltaOK(b, NewDelta)
           /\ sv[1] \in RowSets /\ RowsOK(sv[1].nodes, sv[1].edges)
           /\ b \in BuiltFrom(sv[1].nodes, sv[1].edges)
           /\ Shows(b, NewDelta, sv[1].nodes, sv[1].edges)
<1>1. dp \in Nat /\ sv \in Seq(RowSets) /\ Len(sv) = dp + 1
  BY TxDeltaAssumption DEF Inv
<1>2. 1 \in 1..Len(sv)
  BY <1>1
<1>3. sv[1] \in RowSets /\ RowsOK(sv[1].nodes, sv[1].edges)
  BY <1>1, <1>2 DEF Inv
<1>4. b \in BuiltFrom(sv[1].nodes, sv[1].edges)
  BY DEF Inv
<1>5. PICK ms : ms = sv[1].nodes
  OBVIOUS
<1>6. PICK fs : fs = sv[1].edges
  OBVIOUS
<1>7. BaseOK(b) /\ DeltaOK(b, NewDelta) /\ Shows(b, NewDelta, ms, fs)
  BY <1>3, <1>4, <1>5, <1>6, BuildShows
<1>8. QED
  BY <1>3, <1>4, <1>5, <1>6, <1>7

\* Before a statement, what is read is right.
LEMMA InvReady ==
    ASSUME IInv, ~failed
    PROVE  Ready
<1>1. PICK b : b = base
  OBVIOUS
<1>2. PICK sv : sv = saved
  OBVIOUS
<1>3. PICK sn : sn = snapshots
  OBVIOUS
<1>4. PICK d, dp, fl, ns, es : d = delta /\ dp = depth /\ fl = failed /\ ns = nodes /\ es = edges
  OBVIOUS
<1>5. Inv(b, d, dp, fl, ns, es, sn, sv)
  BY <1>1, <1>2, <1>3, <1>4, InvIs
<1>6. BaseOK(b)
  BY <1>5, InvBase
<1>7. QED
  BY <1>1, <1>6 DEF Ready, IInv

\* What every statement does besides: each open level has its snapshot.
Framed ==
    /\ ~failed /\ failed' \in BOOLEAN
    /\ snapshots' = Captured
    /\ UNCHANGED <<depth, saved, base>>

\* The parts of a statement that do not depend on its calls.
LEMMA StatementFrames ==
    ASSUME NEW calls, NEW ns, NEW es, Statement(calls, ns, es)
    PROVE  Framed
  BY DEF Statement, Record, Framed

\* Capturing gives every open level what it would have restored.
LEMMA StatementKeeps ==
    ASSUME IInv, Framed, Kept
    PROVE  IInv'
<1>1. PICK dp \in Nat : dp = depth
  BY TxDeltaAssumption DEF IInv
<1>2. snapshots \in Seq(DeltaRecords) /\ Len(snapshots) \in Nat /\ Len(snapshots) <= dp
  BY <1>1 DEF IInv
<1>3. \A i \in 1..dp : DeltaOK(base, Restored(i))
  BY <1>1 DEF IInv
<1>4. \A i \in 1..dp : Restored(i) \in DeltaRecords
  BY <1>3 DEF DeltaOK, DeltaShape
<1>5. PICK sn : sn = Captured
  OBVIOUS
<1>6. sn \in Seq(DeltaRecords) /\ Len(sn) = dp /\ \A i \in 1..dp : sn[i] = Restored(i)
  <2>1. CASE Len(snapshots) < dp
    <3>1. sn = [i \in 1..dp |-> Restored(i)]
      BY <1>1, <1>5, <2>1 DEF Captured, Restored
    <3>2. QED
      BY <1>4, <3>1
  <2>2. CASE Len(snapshots) = dp
    <3>1. sn = snapshots
      BY <1>1, <1>5, <2>2 DEF Captured
    <3>2. QED
      BY <1>2, <2>2, <3>1 DEF Restored
  <2>3. QED
    BY <1>2, <2>1, <2>2
<1>7. snapshots' = sn /\ depth' = dp /\ saved' = saved /\ base' = base /\ failed' \in BOOLEAN
  BY <1>1, <1>5 DEF Framed
<1>8. \A i \in 1..dp : Restored(i)' = sn[i]
  BY <1>6, <1>7 DEF Restored
<1>9. \A i \in 1..depth' : /\ DeltaOK(base', Restored(i)')
                           /\ Shows(base', Restored(i)', saved'[i + 1].nodes, saved'[i + 1].edges)
  BY <1>1, <1>6, <1>7, <1>8 DEF IInv
<1>10. DeltaOK(base', delta') /\ (~failed' => Shows(base', delta', nodes', edges'))
  BY <1>7 DEF Kept
<1>11. RowsOK(nodes', edges')
  BY DEF Kept
<1>12. snapshots' \in Seq(DeltaRecords) /\ Len(snapshots') <= depth' /\ Len(snapshots') = depth'
  BY <1>6, <1>7
<1>13. /\ depth' \in 0..MaxDepth
       /\ saved' \in Seq([nodes : SUBSET Keys, edges : SUBSET EdgeRows]) /\ Len(saved') = depth' + 1
       /\ \A i \in 1..Len(saved') : RowsOK(saved'[i].nodes, saved'[i].edges)
       /\ base' \in BuiltFrom(saved'[1].nodes, saved'[1].edges)
  BY <1>1, <1>7 DEF IInv
<1>14. QED
  BY <1>7, <1>9, <1>10, <1>11, <1>12, <1>13 DEF IInv

\* A savepoint adds a level that would restore what there is now.
LEMMA SavepointInv ==
    ASSUME NEW b, NEW d, NEW dp, NEW ns, NEW es, NEW sn, NEW sv,
           Inv(b, d, dp, FALSE, ns, es, sn, sv), dp < MaxDepth,
           NEW sv2, sv2 = Append(sv, [nodes |-> ns, edges |-> es])
    PROVE  Inv(b, d, dp + 1, FALSE, ns, es, sn, sv2)
<1>1. PICK ln \in Nat : ln = Len(sn)
  BY DEF Inv
<1>2. dp \in Nat /\ dp \in 0..MaxDepth /\ ln <= dp /\ dp + 1 \in 0..MaxDepth
  BY <1>1, DepthAssumption DEF Inv
<1>3. PICK x \in RowSets : x = [nodes |-> ns, edges |-> es]
  BY DEF Inv, RowsOK, RowSets
<1>4. sv \in Seq(RowSets) /\ Len(sv) = dp + 1
  BY DEF Inv
<1>5. /\ sv2 \in Seq(RowSets) /\ Len(sv2) = (dp + 1) + 1
      /\ sv2[dp + 2] = x /\ \A i \in 1..(dp + 1) : sv2[i] = sv[i]
  BY <1>2, <1>3, <1>4
<1>6. \A i \in 1..Len(sv2) : RowsOK(sv2[i].nodes, sv2[i].edges)
  <2>1. ASSUME NEW i \in 1..(dp + 2) PROVE RowsOK(sv2[i].nodes, sv2[i].edges)
    <3>1. CASE i \in 1..(dp + 1)
      BY <1>4, <1>5, <3>1 DEF Inv
    <3>2. CASE i = dp + 2
      BY <1>3, <1>5, <3>2 DEF Inv
    <3>3. dp \in Nat
      BY <1>2
    <3>4. i \in 1..(dp + 1) \/ i = dp + 2
      BY <3>3
    <3>5. QED
      BY <3>1, <3>2, <3>4
  <2>2. QED
    BY <1>2, <1>5, <2>1
<1>7. sv2[1] = sv[1]
  BY <1>2, <1>5
<1>8. ASSUME NEW i \in 1..(dp + 1), NEW c, c = IF i <= Len(sn) THEN sn[i] ELSE d
      PROVE  DeltaOK(b, c) /\ Shows(b, c, sv2[i + 1].nodes, sv2[i + 1].edges)
  <2>1. CASE i \in 1..dp
    <3>1. i + 1 \in 1..(dp + 1)
      BY <1>2, <2>1
    <3>2. sv2[i + 1] = sv[i + 1]
      BY <1>5, <3>1
    <3>3. QED
      BY <1>8, <2>1, <3>2 DEF Inv
  <2>2. CASE i = dp + 1
    <3>1. ~(i <= ln) /\ i + 1 = dp + 2
      BY <1>1, <1>2, <2>2
    <3>2. c = d
      BY <1>1, <1>8, <3>1
    <3>3. QED
      BY <1>3, <1>5, <3>1, <3>2 DEF Inv
  <2>3. dp \in Nat
    BY <1>2
  <2>4. i \in 1..dp \/ i = dp + 1
    BY <2>3
  <2>5. QED
    BY <2>1, <2>2, <2>4
<1>9. Len(sn) <= dp + 1
  BY <1>1, <1>2
<1>10. b \in BuiltFrom(sv2[1].nodes, sv2[1].edges)
  BY <1>7 DEF Inv
<1>11. QED
  BY <1>2, <1>5, <1>6, <1>8, <1>9, <1>10 DEF Inv

\* Ending a level drops its snapshot; the other levels would restore what they
\* would have before, whether the delta is kept or put back.
LEMMA FinishInv ==
    ASSUME NEW b, NEW d, NEW dp, NEW fl, NEW ns, NEW es, NEW sn, NEW sv,
           Inv(b, d, dp, fl, ns, es, sn, sv), dp > 0,
           NEW sn2, sn2 = IF dp <= Len(sn) THEN [i \in 1..(dp - 1) |-> sn[i]] ELSE sn,
           NEW sv2, sv2 = Front(sv), NEW d2, dp <= Len(sn) \/ d2 = d,
           DeltaOK(b, d2), NEW ns2, NEW es2, RowsOK(ns2, es2), Shows(b, d2, ns2, es2)
    PROVE  Inv(b, d2, dp - 1, FALSE, ns2, es2, sn2, sv2)
<1>1. PICK ln \in Nat : ln = Len(sn)
  BY DEF Inv
<1>2. dp \in Nat /\ dp \in 0..MaxDepth /\ ln <= dp
  BY <1>1, TxDeltaAssumption DEF Inv
<1>3. PICK q \in Nat : q = dp - 1
  BY <1>2
<1>4. dp = q + 1 /\ q \in 0..MaxDepth /\ 1..q \subseteq 1..dp
  BY <1>2, <1>3, DepthAssumption
<1>5. sv \in Seq(RowSets) /\ Len(sv) = dp + 1
  BY DEF Inv
<1>6. /\ sv2 \in Seq(RowSets) /\ Len(sv2) = q + 1
      /\ \A i \in 1..(q + 1) : sv2[i] = sv[i]
  <2>1. PICK n \in Nat : n = q + 1
    BY <1>3
  <2>2. Len(sv) = n + 1
    BY <1>4, <1>5, <2>1
  <2>3. sv2 \in Seq(RowSets) /\ Len(sv2) = n /\ \A i \in 1..n : sv2[i] = sv[i]
    BY <1>5, <2>2, FrontIs
  <2>4. QED
    BY <2>1, <2>3
<1>7. \A i \in 1..(q + 1) : i \in 1..(dp + 1) /\ (i \in 1..q => i + 1 \in 1..(q + 1))
  BY <1>3, <1>4
<1>8. \A i \in 1..Len(sv2) : RowsOK(sv2[i].nodes, sv2[i].edges)
  BY <1>5, <1>6, <1>7 DEF Inv
<1>9. 1 \in 1..(q + 1) /\ sv2[1] = sv[1]
  BY <1>3, <1>6
<1>10. b \in BuiltFrom(sv2[1].nodes, sv2[1].edges)
  BY <1>9 DEF Inv
<1>11. sn \in Seq(DeltaRecords)
  BY DEF Inv
<1>12. /\ sn2 \in Seq(DeltaRecords) /\ Len(sn2) <= q
       /\ \A i \in 1..q : (IF i <= Len(sn2) THEN sn2[i] ELSE d2) = (IF i <= Len(sn) THEN sn[i] ELSE d)
  <2>1. CASE dp <= ln
    <3>1. sn2 = [i \in 1..q |-> sn[i]]
      BY <1>1, <1>3, <2>1
    <3>2. \A i \in 1..q : i \in 1..ln /\ i <= ln /\ i <= q
      BY <1>1, <1>4, <2>1, <1>2
    <3>3. \A i \in 1..q : sn[i] \in DeltaRecords
      BY <1>1, <1>11, <3>2
    <3>4. sn2 \in Seq(DeltaRecords) /\ Len(sn2) = q
      BY <1>3, <3>1, <3>3
    <3>5. \A i \in 1..q : sn2[i] = sn[i]
      BY <3>1
    <3>6. QED
      BY <1>1, <1>3, <3>2, <3>4, <3>5
  <2>2. CASE ~(dp <= ln)
    <3>1. sn2 = sn /\ d2 = d
      BY <1>1, <2>2
    <3>2. ln <= q
      BY <1>1, <1>2, <1>4, <2>2
    <3>3. QED
      BY <1>1, <1>11, <3>1, <3>2
  <2>3. QED
    BY <2>1, <2>2
<1>13. ASSUME NEW i \in 1..q, NEW c, c = IF i <= Len(sn2) THEN sn2[i] ELSE d2
       PROVE  DeltaOK(b, c) /\ Shows(b, c, sv2[i + 1].nodes, sv2[i + 1].edges)
  <2>1. c = IF i <= Len(sn) THEN sn[i] ELSE d
    BY <1>12, <1>13
  <2>2. i \in 1..dp
    BY <1>4
  <2>3. i + 1 \in 1..(q + 1)
    BY <1>3
  <2>4. sv2[i + 1] = sv[i + 1]
    BY <1>6, <2>3
  <2>5. QED
    BY <2>1, <2>2, <2>4 DEF Inv
<1>14. Inv(b, d2, q, FALSE, ns2, es2, sn2, sv2)
  BY <1>4, <1>6, <1>8, <1>10, <1>12, <1>13 DEF Inv
<1>15. QED
  BY <1>3, <1>14

\* What the innermost level would restore.
LEMMA InnermostInv ==
    ASSUME NEW b, NEW d, NEW dp, NEW fl, NEW ns, NEW es, NEW sn, NEW sv,
           Inv(b, d, dp, fl, ns, es, sn, sv), dp > 0,
           NEW c, c = IF dp <= Len(sn) THEN sn[dp] ELSE d
    PROVE  /\ DeltaOK(b, c) /\ Shows(b, c, Last(sv).nodes, Last(sv).edges)
           /\ RowsOK(Last(sv).nodes, Last(sv).edges)
<1>1. dp \in Nat /\ Len(sv) = dp + 1
  BY TxDeltaAssumption DEF Inv
<1>2. dp \in 1..dp /\ dp + 1 \in 1..(dp + 1)
  BY <1>1
<1>3. Last(sv) = sv[dp + 1]
  BY <1>1 DEF Last
<1>4. RowsOK(sv[dp + 1].nodes, sv[dp + 1].edges)
  BY <1>1, <1>2 DEF Inv
<1>5. DeltaOK(b, c) /\ Shows(b, c, sv[dp + 1].nodes, sv[dp + 1].edges)
  BY <1>2 DEF Inv
<1>6. QED
  BY <1>3, <1>4, <1>5

\* A transaction starts with an empty delta on a build of the rows it sees.
LEMMA StartInv ==
    ASSUME NEW ns, NEW es, RowsOK(ns, es), NEW b \in BuiltFrom(ns, es),
           NEW sv, sv = <<[nodes |-> ns, edges |-> es]>>
    PROVE  Inv(b, NewDelta, 0, FALSE, ns, es, <<>>, sv)
<1>1. DeltaOK(b, NewDelta) /\ Shows(b, NewDelta, ns, es)
  BY BuildShows
<1>2. PICK x \in RowSets : x = [nodes |-> ns, edges |-> es]
  BY DEF RowsOK, RowSets
<1>3. sv \in Seq(RowSets) /\ Len(sv) = 0 + 1 /\ sv[1] = x
  BY <1>2
<1>4. \A i \in 1..Len(sv) : i = 1
  BY <1>3
<1>5. \A i \in 1..Len(sv) : RowsOK(sv[i].nodes, sv[i].edges)
  BY <1>2, <1>3, <1>4
<1>6. b \in BuiltFrom(sv[1].nodes, sv[1].edges)
  BY <1>2, <1>3
<1>7. <<>> \in Seq(DeltaRecords) /\ Len(<<>>) = 0 /\ 0 \in 0..MaxDepth
  BY DepthAssumption
<1>8. \A i \in 1..0 : FALSE
  OBVIOUS
<1>9. QED
  BY <1>1, <1>3, <1>5, <1>6, <1>7, <1>8 DEF Inv

----------------------------------------------------------------------------
\* The invariant and what follows from it.

\* The first transaction.
LEMMA InitInv == Init => IInv
<1> SUFFICES ASSUME Init PROVE IInv
  OBVIOUS
<1>1. PICK ns \in SUBSET Keys, es \in SUBSET EdgeRows :
         /\ Consistent(ns, es) /\ nodes = ns /\ edges = es
         /\ saved = <<[nodes |-> ns, edges |-> es]>> /\ base \in BuiltFrom(ns, es)
  BY DEF Init
<1>2. PICK b : b = base
  OBVIOUS
<1>3. PICK sv : sv = saved
  OBVIOUS
<1>4. RowsOK(ns, es) /\ b \in BuiltFrom(ns, es) /\ sv = <<[nodes |-> ns, edges |-> es]>>
  BY <1>1, <1>2, <1>3 DEF RowsOK
<1>5. Inv(b, NewDelta, 0, FALSE, ns, es, <<>>, sv)
  BY <1>4, StartInv
<1>6. delta = NewDelta /\ snapshots = <<>> /\ depth = 0 /\ failed = FALSE
  BY EmptyAssumption DEF Init, TxInit
<1>7. Inv(base, delta, depth, failed, nodes, edges, snapshots, saved)
  BY <1>1, <1>2, <1>3, <1>5, <1>6
<1>8. QED
  BY <1>7, InvIs

\* Every step keeps the invariant.
LEMMA NextKeeps == IInv /\ [Next]_vars => IInv'
<1> SUFFICES ASSUME IInv, [Next]_vars PROVE IInv'
  OBVIOUS
<1>1. PICK b : b = base
  OBVIOUS
<1>2. PICK d : d = delta
  OBVIOUS
<1>3. PICK dp : dp = depth
  OBVIOUS
<1>4. PICK fl : fl = failed
  OBVIOUS
<1>5. PICK ns : ns = nodes
  OBVIOUS
<1>6. PICK es : es = edges
  OBVIOUS
<1>7. PICK sn : sn = snapshots
  OBVIOUS
<1>8. PICK sv : sv = saved
  OBVIOUS
<1>9. Inv(b, d, dp, fl, ns, es, sn, sv)
  <2>1. Inv(base, delta, depth, failed, nodes, edges, snapshots, saved)
    BY InvIs
  <2>2. QED
    BY <1>1, <1>2, <1>3, <1>4, <1>5, <1>6, <1>7, <1>8, <2>1
<1>10. ASSUME NEW k \in Keys, CreateNode(k) PROVE IInv'
  <2>1. ~failed /\ Framed
    BY <1>10 DEF CreateNode, Statement, Record, Framed
  <2>2. Ready
    BY <2>1, InvReady
  <2>3. Kept
    BY <1>10, <2>2, CreateNodeKeeps
  <2>4. QED
    BY <2>1, <2>3, StatementKeeps
<1>11. ASSUME NEW k \in Keys, DetachDelete(k) PROVE IInv'
  <2>1. ~failed /\ Framed
    BY <1>11 DEF DetachDelete, Statement, Record, Framed
  <2>2. Ready
    BY <2>1, InvReady
  <2>3. Kept
    BY <1>11, <2>2, DetachDeleteKeeps
  <2>4. QED
    BY <2>1, <2>3, StatementKeeps
<1>12. ASSUME NEW r \in Rows, NEW s \in Keys, NEW t \in Keys, CreateRelationship(r, s, t)
       PROVE  IInv'
  <2>1. ~failed /\ Framed
    BY <1>12 DEF CreateRelationship, Statement, Record, Framed
  <2>2. Ready
    BY <2>1, InvReady
  <2>3. Kept
    BY <1>12, <2>2, CreateRelationshipKeeps
  <2>4. QED
    BY <2>1, <2>3, StatementKeeps
<1>13. ASSUME NEW e, e \in VisibleEdges, DeleteEdge(e) PROVE IInv'
  <2>1. ~failed /\ Framed
    BY <1>13 DEF DeleteEdge, Statement, Record, Framed
  <2>2. Ready
    BY <2>1, InvReady
  <2>3. Kept
    BY <1>13, <2>2, DeleteEdgeKeeps
  <2>4. QED
    BY <2>1, <2>3, StatementKeeps
<1>14. CASE Savepoint
  <2>1. /\ fl = FALSE /\ dp < MaxDepth /\ depth' = dp + 1 /\ delta' = d /\ snapshots' = sn
        /\ saved' = Append(sv, [nodes |-> ns, edges |-> es])
        /\ nodes' = ns /\ edges' = es /\ base' = b /\ failed' = FALSE
    <3>1. failed = FALSE
      BY <1>14 DEF Savepoint, IInv
    <3>2. QED
      BY <1>1, <1>2, <1>3, <1>4, <1>5, <1>6, <1>7, <1>8, <1>14, <3>1 DEF Savepoint, StartSub
  <2>2. PICK sv2 : sv2 = Append(sv, [nodes |-> ns, edges |-> es])
    OBVIOUS
  <2>3. Inv(b, d, dp + 1, FALSE, ns, es, sn, sv2)
    BY <1>9, <2>1, <2>2, SavepointInv
  <2>4. Inv(base', delta', depth', failed', nodes', edges', snapshots', saved')
    BY <2>1, <2>2, <2>3
  <2>5. QED
    BY <2>4, InvIsNext
<1>15. PICK sn2 : sn2 = IF dp <= Len(sn) THEN [i \in 1..(dp - 1) |-> sn[i]] ELSE sn
  OBVIOUS
<1>16. PICK sv2 : sv2 = Front(sv)
  OBVIOUS
<1>17. CASE Release
  <2>1. /\ fl = FALSE /\ dp > 0 /\ depth' = dp - 1 /\ delta' = d /\ snapshots' = sn2
        /\ saved' = sv2 /\ nodes' = ns /\ edges' = es /\ base' = b /\ failed' = FALSE
    <3>1. failed = FALSE
      BY <1>17 DEF Release, IInv
    <3>2. QED
      BY <1>1, <1>2, <1>3, <1>4, <1>5, <1>6, <1>7, <1>8, <1>15, <1>16, <1>17, <3>1
         DEF Release, FinishSub
  <2>2. DeltaOK(b, d) /\ RowsOK(ns, es) /\ Shows(b, d, ns, es)
    BY <1>9, <2>1 DEF Inv
  <2>3. Inv(b, d, dp - 1, FALSE, ns, es, sn2, sv2)
    BY <1>9, <1>15, <1>16, <2>1, <2>2, FinishInv
  <2>4. Inv(base', delta', depth', failed', nodes', edges', snapshots', saved')
    BY <2>1, <2>3
  <2>5. QED
    BY <2>4, InvIsNext
<1>18. CASE RollbackTo
  <2>1. PICK c : c = IF dp <= Len(sn) THEN sn[dp] ELSE d
    OBVIOUS
  <2>2. PICK ms : ms = Last(sv).nodes
    OBVIOUS
  <2>3. PICK fs : fs = Last(sv).edges
    OBVIOUS
  <2>4. /\ dp > 0 /\ depth' = dp - 1 /\ delta' = c /\ snapshots' = sn2
        /\ saved' = sv2 /\ nodes' = ms /\ edges' = fs /\ base' = b /\ failed' = FALSE
    BY <1>1, <1>2, <1>3, <1>7, <1>8, <1>15, <1>16, <1>18, <2>1, <2>2, <2>3
       DEF RollbackTo, FinishSub
  <2>5. DeltaOK(b, c) /\ RowsOK(ms, fs) /\ Shows(b, c, ms, fs)
    BY <1>9, <2>1, <2>2, <2>3, <2>4, InnermostInv
  <2>6. dp <= Len(sn) \/ c = d
    BY <2>1
  <2>7. Inv(b, c, dp - 1, FALSE, ms, fs, sn2, sv2)
    BY <1>9, <1>15, <1>16, <2>4, <2>5, <2>6, FinishInv
  <2>8. Inv(base', delta', depth', failed', nodes', edges', snapshots', saved')
    BY <2>4, <2>7
  <2>9. QED
    BY <2>8, InvIsNext
<1>19. CASE Abort
  <2>1. PICK ms : ms = sv[1].nodes
    OBVIOUS
  <2>2. PICK fs : fs = sv[1].edges
    OBVIOUS
  <2>3. RowsOK(ms, fs) /\ b \in BuiltFrom(ms, fs) /\ sv[1] \in RowSets
    BY <1>9, <2>1, <2>2, InvBase
  <2>4. PICK sv3 : sv3 = <<[nodes |-> ms, edges |-> fs]>>
    OBVIOUS
  <2>5. Head(sv) = sv[1] /\ sv[1] = [nodes |-> ms, edges |-> fs]
    <3>1. sv \in Seq(RowSets)
      BY <1>9 DEF Inv
    <3>2. Head(sv) = sv[1]
      BY <3>1
    <3>3. QED
      BY <2>1, <2>2, <2>3, <3>2 DEF RowSets
  <2>6. /\ depth' = 0 /\ delta' = NewDelta /\ snapshots' = <<>> /\ saved' = sv3
        /\ nodes' = ms /\ edges' = fs /\ base' = b /\ failed' = FALSE
    BY <1>1, <1>8, <1>19, <2>1, <2>2, <2>4, <2>5, EmptyAssumption DEF Abort, ClearState
  <2>7. Inv(b, NewDelta, 0, FALSE, ms, fs, <<>>, sv3)
    BY <2>3, <2>4, StartInv
  <2>8. Inv(base', delta', depth', failed', nodes', edges', snapshots', saved')
    BY <2>6, <2>7
  <2>9. QED
    BY <2>8, InvIsNext
<1>20. CASE Commit
  <2>1. PICK b2 : b2 = base'
    OBVIOUS
  <2>2. PICK sv3 : sv3 = <<[nodes |-> ns, edges |-> es]>>
    OBVIOUS
  <2>3. /\ depth' = 0 /\ delta' = NewDelta /\ snapshots' = <<>> /\ saved' = sv3
        /\ nodes' = ns /\ edges' = es /\ failed' = FALSE /\ b2 \in BuiltFrom(ns, es)
    <3>1. failed = FALSE
      BY <1>20 DEF Commit, IInv
    <3>2. QED
      BY <1>5, <1>6, <1>20, <2>1, <2>2, <3>1, EmptyAssumption DEF Commit, ClearState
  <2>4. RowsOK(ns, es)
    BY <1>9 DEF Inv
  <2>5. Inv(b2, NewDelta, 0, FALSE, ns, es, <<>>, sv3)
    BY <2>2, <2>3, <2>4, StartInv
  <2>6. Inv(base', delta', depth', failed', nodes', edges', snapshots', saved')
    BY <2>1, <2>3, <2>5
  <2>7. QED
    BY <2>6, InvIsNext
<1>21. CASE UNCHANGED vars
  <2>1. /\ base' = base /\ delta' = delta /\ depth' = depth /\ failed' = failed
        /\ nodes' = nodes /\ edges' = edges /\ snapshots' = snapshots /\ saved' = saved
    BY <1>21 DEF vars, txVars, rowVars
  <2>2. Inv(base', delta', depth', failed', nodes', edges', snapshots', saved')
    BY <1>1, <1>2, <1>3, <1>4, <1>5, <1>6, <1>7, <1>8, <1>9, <2>1
  <2>3. QED
    BY <2>2, InvIsNext
<1>22. QED
  BY <1>10, <1>11, <1>12, <1>13, <1>14, <1>17, <1>18, <1>19, <1>20, <1>21 DEF Next

\* The invariant holds throughout.
LEMMA IInvAlways == Spec => []IInv
  BY InitInv, NextKeeps, PTL DEF Spec

\* Entries lie between indexes in use, of which there are at most as many as keys
\* and recorded nodes.
LEMMA InvTypes == IInv => TypeOK
<1> SUFFICES ASSUME IInv PROVE TypeOK
  OBVIOUS
<1>1. PICK b : b = base
  OBVIOUS
<1>2. PICK d : d = delta
  OBVIOUS
<1>3. PICK dp, fl, ns, es, sn, sv :
         dp = depth /\ fl = failed /\ ns = nodes /\ es = edges /\ sn = snapshots /\ sv = saved
  OBVIOUS
<1>4. Inv(b, d, dp, fl, ns, es, sn, sv)
  BY <1>1, <1>2, <1>3, InvIs
<1>5. BaseOK(b) /\ DeltaOK(b, d) /\ DeltaShape(b, d)
  BY <1>1, <1>2, <1>4, InvBase DEF IInv, DeltaOK
<1>6. PICK bn, dn, be, di \in Nat :
         /\ bn = Len(b.nodes) /\ dn = Len(d.nodes) /\ Size(b, d) = bn + dn
         /\ be = Len(b.edges) /\ di = Len(d.ids) /\ IdCount(b, d) = be + di
  BY <1>5, Counts
<1>7. PICK ln, cg, ca, cd \in Nat :
         /\ ln = Len(d.nodes) /\ cg = Cardinality(d.gone)
         /\ ca = Cardinality(d.added) /\ cd = Cardinality(d.deleted)
         /\ NodeEntries(d) = ln + cg /\ EdgeEntries(d) = ca + cd
         /\ ln + cg <= MaxNodes /\ ca + cd <= MaxEdges
  BY <1>5, LimitCounts
<1>8. PICK kn \in Nat : kn = Cardinality(Keys)
  BY TxDeltaAssumption, FS_CardinalityType
<1>9. bn <= kn /\ ln = dn
  BY <1>5, <1>6, <1>7, <1>8 DEF BaseOK
<1>10. Size(b, d) \in Nat /\ Size(b, d) <= kn + MaxNodes
  <2>1. /\ bn \in Nat /\ dn \in Nat /\ Size(b, d) = bn + dn /\ kn \in Nat
        /\ ln \in Nat /\ cg \in Nat /\ ln + cg <= MaxNodes
    BY <1>6, <1>7, <1>8
  <2>2. QED
    BY <1>9, <2>1, TxDeltaAssumption
<1>11. \A i \in 1..Size(b, d) : i \in 1..(kn + MaxNodes)
  BY <1>8, <1>10, TxDeltaAssumption
<1>12. IdCount(b, d) \in Nat /\ \A r \in 1..IdCount(b, d) : r \in Nat
  <2>1. be \in Nat /\ di \in Nat /\ IdCount(b, d) = be + di
    BY <1>6
  <2>2. QED
    BY <2>1
<1>13. \A r \in NewIds(b, d) : r \in Nat
  <2>1. be \in Nat /\ IdCount(b, d) \in Nat
    BY <1>6, <1>12
  <2>2. \A r \in (be + 1)..IdCount(b, d) : r \in Nat
    BY <2>1
  <2>3. QED
    BY <1>6, <2>2 DEF NewIds
<1>14. d.added \subseteq Entries(Nat)
  <2>1. ASSUME NEW e \in d.added PROVE e \in Entries(Nat)
    <3>1. e \in Arcs /\ e.src \in 1..Size(b, d) /\ e.tgt \in 1..Size(b, d) /\ e.rid \in NewIds(b, d)
      BY <1>5 DEF DeltaShape, DeltaRecords
    <3>2. e.src \in 1..(kn + MaxNodes) /\ e.tgt \in 1..(kn + MaxNodes) /\ e.rid \in Nat
      BY <1>11, <1>13, <3>1
    <3>3. QED
      BY <1>8, <3>1, <3>2 DEF Entries, Arcs
  <2>2. QED
    BY <2>1
<1>15. d.deleted \subseteq Entries(Nat \cup {NoId})
  <2>1. ASSUME NEW e \in d.deleted PROVE e \in Entries(Nat \cup {NoId})
    <3>1. e \in Arcs /\ e.src \in 1..Size(b, d) /\ e.tgt \in 1..Size(b, d)
      BY <1>5 DEF DeltaShape, DeltaRecords
    <3>2. e.src \in 1..(kn + MaxNodes) /\ e.tgt \in 1..(kn + MaxNodes)
      BY <1>11, <3>1
    <3>3. QED
      BY <1>8, <3>1, <3>2 DEF Entries, Arcs
  <2>2. QED
    BY <2>1
<1>16. /\ Len(delta.nodes) + Cardinality(delta.gone) <= MaxNodes
       /\ Cardinality(delta.added) + Cardinality(delta.deleted) <= MaxEdges
  BY <1>2, <1>7
<1>17. /\ nodes \subseteq Keys /\ edges \subseteq EdgeRows /\ Consistent(nodes, edges)
       /\ Len(saved) = depth + 1 /\ depth \in 0..MaxDepth /\ Len(snapshots) <= depth
  BY DEF IInv, RowsOK
<1>18. QED
  BY <1>2, <1>14, <1>15, <1>16, <1>17 DEF TypeOK

\* What is shown is what the transaction's rows say.
LEMMA InvOverlay == IInv => OverlayMatchesSource
<1> SUFFICES ASSUME IInv, ~failed PROVE OverlayMatchesSource
  BY DEF OverlayMatchesSource
<1>1. Ready
  BY InvReady
<1>2. BaseOK(base) /\ DeltaShape(base, delta) /\ ShowsNodes(base, delta, nodes)
  BY <1>1 DEF Ready, DeltaOK, Shows
<1>3. PICK b : b = base
  OBVIOUS
<1>4. PICK d : d = delta
  OBVIOUS
<1>5. PICK ns : ns = nodes
  OBVIOUS
<1>6. PICK es : es = edges
  OBVIOUS
<1>7. /\ BaseOK(b) /\ DeltaShape(b, d) /\ RowsOK(ns, es)
      /\ ShowsNodes(b, d, ns) /\ ShowsEdges(b, d, es)
  BY <1>1, <1>2, <1>3, <1>4, <1>5, <1>6 DEF Ready, Shows
<1>8. /\ \A i \in 1..Size(b, d) : KeyOf(i) = KeyAt(b, d, i)
      /\ \A r : RowOf(r) = RowAt(b, d, r)
      /\ \A k : k \in VisibleNodes <=> \E i : IsLive(b, d, i) /\ KeyAt(b, d, i) = k
      /\ \A e : e \in VisibleEdges <=> IsSeen(b, d, e)
  BY <1>2, <1>3, <1>4, LookUps
<1>9. VisibleNodes = nodes
  BY <1>5, <1>7, <1>8 DEF ShowsNodes
<1>10. PICK A : A = {<<RowOf(e.rid), KeyOf(e.src), KeyOf(e.tgt), e.rev>> : e \in VisibleEdges}
  OBVIOUS
<1>11. PICK B : B = {<<e.row, e.src, e.tgt, FALSE>> : e \in edges}
                     \cup (IF Bidirectional THEN {<<e.row, e.tgt, e.src, TRUE>> : e \in edges} ELSE {})
  OBVIOUS
<1>12. ASSUME NEW e, IsSeen(b, d, e)
       PROVE  /\ e \in Arcs /\ e.rev \in Revs
              /\ KeyOf(e.src) = KeyAt(b, d, e.src) /\ KeyOf(e.tgt) = KeyAt(b, d, e.tgt)
  <2>1. e \in Arcs /\ e.rev \in Revs /\ IsLive(b, d, e.src) /\ IsLive(b, d, e.tgt)
    BY <1>7, <1>12, SeenBounds
  <2>2. QED
    BY <1>8, <2>1 DEF IsLive
<1>13. ASSUME NEW e, IsSeen(b, d, e), NEW x, Depicts(b, d, e, x)
       PROVE  <<RowOf(e.rid), KeyOf(e.src), KeyOf(e.tgt), e.rev>> =
                 IF e.rev THEN <<x.row, x.tgt, x.src, TRUE>> ELSE <<x.row, x.src, x.tgt, FALSE>>
  <2>1. e.rev = TRUE \/ e.rev = FALSE
    BY <1>12, <1>13 DEF Revs
  <2>2. RowOf(e.rid) = x.row
    BY <1>8, <1>13 DEF Depicts
  <2>3. CASE e.rev = TRUE
    BY <1>12, <1>13, <2>2, <2>3 DEF Depicts
  <2>4. CASE e.rev = FALSE
    BY <1>12, <1>13, <2>2, <2>4 DEF Depicts
  <2>5. QED
    BY <2>1, <2>3, <2>4
<1>14. ASSUME NEW q \in A PROVE q \in B
  <2>1. PICK e \in VisibleEdges : q = <<RowOf(e.rid), KeyOf(e.src), KeyOf(e.tgt), e.rev>>
    BY <1>10
  <2>2. IsSeen(b, d, e)
    BY <1>8, <2>1
  <2>3. e \in Arcs /\ e.rev \in Revs
    BY <1>12, <2>2
  <2>4. PICK x \in es : Depicts(b, d, e, x)
    BY <1>7, <2>2, <2>3 DEF ShowsEdges
  <2>5. q = IF e.rev THEN <<x.row, x.tgt, x.src, TRUE>> ELSE <<x.row, x.src, x.tgt, FALSE>>
    BY <1>13, <2>1, <2>2, <2>4
  <2>6. CASE e.rev = TRUE
    <3>1. Bidirectional
      BY <2>3, <2>6 DEF Revs
    <3>2. q = <<x.row, x.tgt, x.src, TRUE>> /\ x \in edges
      BY <1>6, <2>4, <2>5, <2>6
    <3>3. QED
      BY <1>11, <3>1, <3>2
  <2>7. CASE e.rev = FALSE
    <3>1. q = <<x.row, x.src, x.tgt, FALSE>> /\ x \in edges
      BY <1>6, <2>4, <2>5, <2>7
    <3>2. QED
      BY <1>11, <3>1
  <2>8. QED
    BY <2>3, <2>6, <2>7 DEF Revs
<1>15. ASSUME NEW x \in es, NEW v \in Revs
       PROVE  (IF v THEN <<x.row, x.tgt, x.src, TRUE>> ELSE <<x.row, x.src, x.tgt, FALSE>>) \in A
  <2>1. PICK e \in Arcs : IsSeen(b, d, e) /\ e.rev = v /\ Depicts(b, d, e, x)
    BY <1>7 DEF ShowsEdges
  <2>2. <<RowOf(e.rid), KeyOf(e.src), KeyOf(e.tgt), e.rev>> \in A
    BY <1>8, <1>10, <2>1
  <2>3. QED
    BY <1>13, <2>1, <2>2
<1>16. ASSUME NEW q \in B PROVE q \in A
  <2>1. CASE \E x \in edges : q = <<x.row, x.src, x.tgt, FALSE>>
    <3>1. PICK x \in edges : q = <<x.row, x.src, x.tgt, FALSE>>
      BY <2>1
    <3>2. FALSE \in Revs
      BY DEF Revs
    <3>3. QED
      BY <1>6, <1>15, <3>1, <3>2
  <2>2. CASE Bidirectional /\ \E x \in edges : q = <<x.row, x.tgt, x.src, TRUE>>
    <3>1. PICK x \in edges : q = <<x.row, x.tgt, x.src, TRUE>>
      BY <2>2
    <3>2. TRUE \in Revs
      BY <2>2 DEF Revs
    <3>3. QED
      BY <1>6, <1>15, <3>1, <3>2
  <2>3. QED
    BY <1>11, <2>1, <2>2
<1>17. A = B
  BY <1>14, <1>16
<1>18. QED
  BY <1>9, <1>10, <1>11, <1>17 DEF OverlayMatchesSource

\* The record calls never take the delta past graph.max_tx_delta_nodes and
\* graph.max_tx_delta_edges, and its entries always name indexes in use.
THEOREM DeltaTypes == Spec => []TypeOK
  BY IInvAlways, InvTypes, PTL

\* Read your own writes: whatever the statements, savepoints, releases and rollbacks,
\* the loaded projection with tx_delta.rs on top shows exactly the rows that the
\* transaction sees, each relationship in each direction with its own row.
THEOREM OverlayShowsSource == Spec => []OverlayMatchesSource
  BY IInvAlways, InvOverlay, PTL

----------------------------------------------------------------------------
(* Savepoints, for deltas of any kind *)

USE DeltaAssumption, DepthAssumption, RevisionAssumption, WrapAssumption

\* Bumping the revision stays within its width and, since the width is more than
\* one value, always changes it.
LEMMA BumpMoves ==
    ASSUME revision \in 0..MaxRevision
    PROVE  Bumped(1) \in 0..MaxRevision /\ Bumped(1) # revision
<1>1. CASE revision < MaxRevision
  <2>1. revision + 1 \in 0..MaxRevision
    BY <1>1
  <2>2. (revision + 1) % (MaxRevision + 1) = revision + 1
    BY <2>1
  <2> QED
    BY <2>1, <2>2 DEF Bumped
<1>2. CASE revision = MaxRevision
  <2>1. (MaxRevision + 1) % (MaxRevision + 1) = 0
    OBVIOUS
  <2> QED
    BY <1>2, <2>1 DEF Bumped
<1> QED
  BY <1>1, <1>2

\* Capturing completes the snapshots: afterwards there is one per open level,
\* holding what that level would have restored before.
LEMMA CaptureCompletes ==
    ASSUME TxTypeOK
    PROVE  /\ Captured \in Seq(Deltas)
           /\ Len(Captured) = depth
           /\ Captured = RestoredBy
<1>1. CASE Len(snapshots) < depth
  BY <1>1 DEF TxTypeOK, Captured, RestoredBy
<1>2. CASE Len(snapshots) = depth
  <2>1. RestoredBy = [i \in 1..Len(snapshots) |-> snapshots[i]]
    BY <1>2 DEF TxTypeOK, RestoredBy
  <2>2. snapshots = [i \in 1..Len(snapshots) |-> snapshots[i]]
    BY DEF TxTypeOK
  <2> QED
    BY <1>2, <2>1, <2>2 DEF TxTypeOK, Captured
<1> QED
  BY <1>1, <1>2 DEF TxTypeOK

\* Type correctness is preserved by every step.
LEMMA TxStepTypes == TxTypeOK /\ [TxNext]_txVars => TxTypeOK'
<1> SUFFICES ASSUME TxTypeOK, [TxNext]_txVars
             PROVE  TxTypeOK'
  OBVIOUS
<1>1. CASE ReserveCapacity
  BY <1>1, CaptureCompletes DEF TxTypeOK, ReserveCapacity
<1>2. ASSUME NEW d \in Deltas, TxWrite(d)
      PROVE  TxTypeOK'
  BY <1>2, CaptureCompletes, BumpMoves DEF TxTypeOK, TxWrite, Record
<1>3. CASE TxSavepoint
  BY <1>3 DEF TxTypeOK, TxSavepoint, StartSub
<1>4. ASSUME NEW aborted \in BOOLEAN, FinishSub(aborted)
      PROVE  TxTypeOK'
  <2>1. CASE depth <= Len(snapshots)
    <3>1. snapshots' = [i \in 1..(depth - 1) |-> snapshots[i]]
      BY <1>4, <2>1 DEF FinishSub
    <3>2. snapshots' \in Seq(Deltas) /\ Len(snapshots') = depth - 1
      BY <1>4, <2>1, <3>1 DEF FinishSub, TxTypeOK
    <3>3. snapshots[depth] \in Deltas
      BY <1>4, <2>1 DEF FinishSub, TxTypeOK
    <3> QED
      BY <1>4, <2>1, <3>2, <3>3, BumpMoves DEF TxTypeOK, FinishSub
  <2>2. CASE ~(depth <= Len(snapshots))
    BY <1>4, <2>2 DEF TxTypeOK, FinishSub
  <2> QED
    BY <2>1, <2>2
<1>5. CASE TxEnd
  BY <1>5, BumpMoves DEF TxTypeOK, TxEnd, ClearState
<1>6. CASE UNCHANGED txVars
  BY <1>6 DEF TxTypeOK, txVars
<1> QED
  BY <1>1, <1>2, <1>3, <1>4, <1>5, <1>6 DEF TxNext, TxRelease, TxRollback

\* The bookkeeping of tx_delta.rs stays well formed: in particular no snapshot
\* outlives the savepoint it belongs to.
THEOREM TxTypeCorrect == TxSpec => []TxTypeOK
<1>1. TxInit => TxTypeOK
  BY DEF TxInit, TxTypeOK
<1> QED
  BY <1>1, TxStepTypes, PTL DEF TxSpec

\* Every step of the code's lazy capture is a step, or a stutter, of the eager
\* stack of copies.
LEMMA TxStepRefines ==
    TxTypeOK /\ [TxNext]_txVars => [Stack!Next]_<<delta, RestoredBy>>
<1> SUFFICES ASSUME TxTypeOK, [TxNext]_txVars
             PROVE  [Stack!Next]_<<delta, RestoredBy>>
  OBVIOUS
<1>t. /\ depth \in Nat
      /\ RestoredBy \in Seq(Deltas)
      /\ Len(RestoredBy) = depth
  BY DEF TxTypeOK, RestoredBy
<1>1. ASSUME ReserveCapacity
      PROVE  UNCHANGED <<delta, RestoredBy>>
  <2>1. RestoredBy' = [i \in 1..depth |-> Captured[i]]
    BY <1>1, CaptureCompletes DEF ReserveCapacity, RestoredBy
  <2>2. RestoredBy' = RestoredBy
    BY <2>1, CaptureCompletes DEF RestoredBy
  <2> QED
    BY <1>1, <2>2 DEF ReserveCapacity
<1>2. ASSUME NEW d \in Deltas, TxWrite(d)
      PROVE  Stack!Write
  <2>1. RestoredBy' = [i \in 1..depth |-> Captured[i]]
    BY <1>2, CaptureCompletes DEF TxWrite, Record, RestoredBy
  <2>2. RestoredBy' = RestoredBy
    BY <2>1, CaptureCompletes DEF RestoredBy
  <2> QED
    BY <1>2, <2>2 DEF TxWrite, Record, Stack!Write
<1>3. ASSUME TxSavepoint
      PROVE  Stack!Savepoint
  <2>1. RestoredBy' = Append(RestoredBy, delta)
    BY <1>3, <1>t DEF TxSavepoint, StartSub, RestoredBy, TxTypeOK
  <2> QED
    BY <1>3, <2>1 DEF TxSavepoint, StartSub, Stack!Savepoint
<1>4. ASSUME NEW aborted \in BOOLEAN, FinishSub(aborted)
      PROVE  /\ RestoredBy' = Stack!Outer
             /\ RestoredBy # <<>>
             /\ aborted => delta' = RestoredBy[Len(RestoredBy)]
             /\ ~aborted => delta' = delta
  <2>1. depth \in Nat \ {0} /\ depth' = depth - 1
    BY <1>4 DEF FinishSub, TxTypeOK
  <2>2. RestoredBy # <<>>
    BY <1>t, <2>1
  <2>3. CASE depth <= Len(snapshots)
    <3>1. Len(snapshots) = depth
      BY <2>3 DEF TxTypeOK
    <3>2. snapshots' = [i \in 1..(depth - 1) |-> snapshots[i]]
      BY <1>4, <2>3 DEF FinishSub
    <3>3. RestoredBy' = [i \in 1..(depth - 1) |-> snapshots[i]]
      BY <2>1, <3>2 DEF RestoredBy
    <3>4. Stack!Outer = [i \in 1..(depth - 1) |-> snapshots[i]]
      BY <1>t, <2>1, <3>1 DEF Stack!Outer, RestoredBy
    <3> QED
      BY <1>4, <1>t, <2>1, <2>2, <2>3, <3>1, <3>3, <3>4 DEF FinishSub, RestoredBy
  <2>4. CASE ~(depth <= Len(snapshots))
    <3>1. snapshots' = snapshots /\ delta' = delta
      BY <1>4, <2>4 DEF FinishSub
    <3>2. RestoredBy' = Stack!Outer
      BY <1>t, <2>1, <3>1 DEF Stack!Outer, RestoredBy
    <3>3. RestoredBy[depth] = delta
      BY <2>1, <2>4 DEF RestoredBy, TxTypeOK
    <3> QED
      BY <1>t, <2>2, <3>1, <3>2, <3>3
  <2> QED
    BY <2>3, <2>4
<1>5. ASSUME TxRelease
      PROVE  Stack!Release
  BY <1>4, <1>5 DEF TxRelease, Stack!Release
<1>6. ASSUME TxRollback
      PROVE  Stack!Rollback
  BY <1>4, <1>6 DEF TxRollback, Stack!Rollback
<1>7. ASSUME TxEnd
      PROVE  Stack!EndTransaction
  <2>1. RestoredBy' = <<>>
    BY <1>7 DEF TxEnd, ClearState, RestoredBy
  <2> QED
    BY <1>7, <2>1 DEF TxEnd, ClearState, Stack!EndTransaction
<1>8. ASSUME UNCHANGED txVars
      PROVE  UNCHANGED <<delta, RestoredBy>>
  BY <1>8 DEF txVars, RestoredBy
<1> QED
  BY <1>1, <1>2, <1>3, <1>5, <1>6, <1>7, <1>8 DEF TxNext, Stack!Next

\* tx_delta.rs implements savepoints: the lazily captured snapshots restore, at
\* every depth, what an eager copy at each savepoint would.
THEOREM SavepointRefinement == TxSpec => ImplementsStack
<1>1. TxInit => Stack!Init
  BY DEF TxInit, RestoredBy, Stack!Init
<1> QED
  BY <1>1, TxTypeCorrect, TxStepRefines, PTL DEF TxSpec, ImplementsStack, Stack!Spec

\* No step changes the delta under a resumable traversal without moving the
\* topology revision it compares.
THEOREM RevisionSafety == TxSpec => RevisionMovesWithDelta
<1>1. TxTypeOK /\ [TxNext]_txVars => [delta' # delta => revision' # revision]_txVars
  <2> SUFFICES ASSUME TxTypeOK, TxNext, delta' # delta
               PROVE  revision' # revision
    BY DEF txVars
  <2>1. revision \in 0..MaxRevision
    BY DEF TxTypeOK
  <2>2. revision' = Bumped(1)
    BY DEF TxNext, ReserveCapacity, TxWrite, Record, TxSavepoint, StartSub, TxRelease, TxRollback,
           FinishSub, TxEnd, ClearState
  <2> QED
    BY <2>1, <2>2, BumpMoves
<1> QED
  BY <1>1, TxTypeCorrect, PTL DEF TxSpec, RevisionMovesWithDelta
=============================================================================
